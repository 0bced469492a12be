----------------------- MODULE LifecycleSafety_proofs -----------------------
(***************************************************************************)
(* What the instance lock is worth: the copy of whoever holds it stays     *)
(* true of the row until it is written, for every number of goroutines,    *)
(* roles, identities and failures.                                         *)
(*                                                                         *)
(* Lifecycle_proofs shows how the row may be written.  Here the invariant  *)
(* says where a goroutine may be and what it knows there: LocalInv of the  *)
(* goroutine alone (what its place says of its copy and of the branch it   *)
(* came from), LockInv of the goroutine, the lock and the row.             *)
(*                                                                         *)
(* The second part is about the budget of starts.  Known relates the row   *)
(* and the copies to the containers: what a goroutine read before it       *)
(* waited still bounds what the row has spent meanwhile.                   *)
(*                                                                         *)
(* The third part is about the processes.  Stops says that one runs only   *)
(* in the container and for the service the row names, and what the end of *)
(* a service knows of it.  Most actions neither start, stop nor move       *)
(* anything (Calm); the identity of the row follows from the same split.   *)
(*                                                                         *)
(* The fourth part is about the Router.  Roles says that whoever is about  *)
(* to record SERVING has seen the process and the registration run the     *)
(* role, Traffic whose readiness is open.  Most actions open, register and *)
(* start nothing (Passes); a registration pass has its own lemmas.         *)
(***************************************************************************)
EXTENDS Lifecycle_proofs

(***************************************************************************)
(* The callers for which the lock serialises.  POST /release writes        *)
(* without it.  And a goroutine that goes on with a reclaim looks at the   *)
(* row again but not at pending_release: if the row was released and       *)
(* offered again meanwhile, it takes the reclaim for one of the new lease. *)
(* That needs somebody besides the reconcile loop to reclaim, and a        *)
(* partner that offers the instance again.                                 *)
(***************************************************************************)
Serialised ==
    /\ "release" \notin Caller
    /\ {"revoke", "round"} \cap Caller = {} \/ "offer" \notin Caller

\* Who looks at instances on his own account: the reconcile loop and Recover, and
\* whoever asks for a round.
Rounds(t) == t = Reconciler \/ "round" \in Caller

(***************************************************************************)
(* The invariant of the lock.  Fits says of one goroutine, which is at x,  *)
(* how its place goes with the lock, with the stages a restarted process   *)
(* has before it and with the row.                                         *)
(***************************************************************************)
Owner == {"prepared", "prepfail", "launch", "health", "restarting", "healthy", "registering",
          "register", "open", "serve", "draincommit", "drained", "drainfail", "lost", "allocate"}

Returning == {"releasing", "return", "returned", "returnfail"}
Leaving   == {"release", "reclaimerr"} \cup Returning

\* Its copy is going to be written.
Holding(x) == x.pc \in Owner \cup Returning \/ (x.pc = "fail" /\ x.why # "")

\* It is on the way to give the container back.
Reclaiming(x) == x.pc \in Leaving \cup {"reclaim", "revoked"} \/ Releases(x.why)

\* Equal in all that a writer carries from its copy, but for the worker id.
Same(c, r) ==
    /\ c.inst = r.inst /\ c.svc = r.svc /\ c.role = r.role /\ c.ident = r.ident
    /\ c.seen = r.seen /\ c.prep = r.prep /\ c.start = r.start /\ c.rearms = r.rearms
    /\ c.parked = r.parked

\* The row may have been reclaimed since the copy was read, nothing else.
Stands(c, r) == Same(c, r) /\ (c.pr => r.pr) /\ (c.pu = r.pu \/ r.pr)

Asked(t, r) ==
    \/ r.pr /\ (t = Reconciler \/ {"revoke", "round"} \cap Caller # {})
    \/ r.inst = "RELEASED" /\ "offer" \notin Caller

Fits(t, x, l, b, r) ==
    /\ x.pc \in Owner \cup {"fail"} => l = t
    /\ x.pc \in Leaving => l = t \/ b # {}
    /\ x.pc # "idle" /\ b # {} => t = Reconciler
    /\ x.fresh => x.copy = r
    /\ Holding(x) => Stands(x.copy, r)
    /\ Reclaiming(x) => Asked(t, r)
    /\ x.pc = "fail" => x.copy.inst = "IDLE" \/ Stands(x.copy, r)

\* A container is given back on request only, and that settles the request.
LeavesOnRequest(r) == /\ r.inst = "RELEASING" => r.pr
                      /\ r.inst = "RELEASED" => ~r.pr

LockInv ==
    /\ \A t \in Thread : Fits(t, thread[t], lock, boot, row)
    /\ LeavesOnRequest(row)
    /\ boot # {} => "listen" \in boot

-----------------------------------------------------------------------------
(***************************************************************************)
(* What a step of one goroutine has to show.                               *)
(***************************************************************************)

\* Nobody else is about to write.
Exclusive(t) == IF boot = {} THEN lock \in {NoThread, t} ELSE t = Reconciler

LockMoves(t) ==
    \/ lock' = lock
    \/ lock' = NoThread /\ lock = t
    \/ lock' = t /\ MayLock(t)

\* No write forgets a reclaim, and RELEASED stays; but see Reoffer.
Remembers(t, r, s) ==
    /\ r.pr => s.pr \/ (s.inst = "RELEASED" /\ ("offer" \notin Caller \/ t = Reconciler))
    /\ r.inst = "RELEASED" => s.inst = "RELEASED" \/ "offer" \in Caller

RowMoves(t) ==
    \/ row' = RequestRelease(row)
    \/ Exclusive(t) /\ Remembers(t, row, row')

LEMMA IdleFits ==
    ASSUME NEW t \in Thread, NEW l, NEW b, NEW r
    PROVE  Fits(t, Idle, l, b, r)
  BY DEF Fits, Idle, Owner, Leaving, Returning, Holding, Reclaiming, Releases

\* Asking for a release leaves a row that stands for all who hold a copy.
LEMMA RequestStands ==
    ASSUME NEW r \in Row
    PROVE  /\ \A c : Stands(c, r) => Stands(c, RequestRelease(r))
           /\ \A t : Remembers(t, r, RequestRelease(r))
           /\ r.inst # "RELEASED" => RequestRelease(r).pr
           /\ RequestRelease(r).inst = r.inst
           /\ LeavesOnRequest(r) => LeavesOnRequest(RequestRelease(r))
  BY DEF RequestRelease, Stands, Same, Remembers, LeavesOnRequest, Row, NoUpdate

LEMMA OthersFit ==
    ASSUME Serialised, IInv, LockInv, NEW t, NEW u \in Thread, u # t, LockMoves(t),
           RowMoves(t), boot' = boot
    PROVE  Fits(u, [thread[u] EXCEPT !.fresh = FALSE], lock', boot', row')
  <1>. DEFINE x == thread[u]
              y == [x EXCEPT !.fresh = FALSE]
  <1>1. x \in Goroutine /\ Fits(u, x, lock, boot, row) /\ row \in Row /\ NoThread \notin Thread
    BY LifecycleAssumption DEF LockInv, IInv, ControlOK, RowOK, LeaseRow
  <1>2. y.pc = x.pc /\ y.copy = x.copy /\ y.why = x.why /\ ~y.fresh
    BY <1>1 DEF Goroutine, Busy, Resting
  <1>. HIDE DEF y, x
  <1>3. lock = u => lock' = u
    BY <1>1 DEF LockMoves, MayLock
  <1>4. /\ y.pc \in Owner \cup {"fail"} => lock' = u
        /\ y.pc \in Leaving => lock' = u \/ boot' # {}
        /\ y.pc # "idle" /\ boot' # {} => u = Reconciler
    BY <1>1, <1>2, <1>3 DEF Fits
  <1>5. Holding(y) => Stands(y.copy, row')
    <2>. SUFFICES ASSUME Holding(x)
                  PROVE  Stands(x.copy, row')
      BY <1>2 DEF Holding
    <2>1. Stands(x.copy, row)
      BY <1>1 DEF Fits
    <2>2. row' = RequestRelease(row)
      <3>1. x.pc # "idle" /\ (lock = u \/ boot # {})
        BY <1>1 DEF Fits, Holding, Owner, Leaving, Returning
      <3>2. boot # {} => u = Reconciler
        BY <1>1, <3>1 DEF Fits
      <3>. QED BY <1>1, <3>1, <3>2 DEF RowMoves, Exclusive
    <2>. QED BY <1>1, <2>1, <2>2, RequestStands
  <1>6. Reclaiming(y) => Asked(u, row')
    <2>. SUFFICES ASSUME Reclaiming(x)
                  PROVE  Asked(u, row')
      BY <1>2 DEF Reclaiming
    <2>1. Asked(u, row)
      BY <1>1 DEF Fits
    <2>2. Remembers(t, row, row')
      BY <1>1, RequestStands DEF RowMoves
    <2>. QED BY <2>1, <2>2 DEF Asked, Remembers, Serialised
  <1>7. y.pc = "fail" => y.copy.inst = "IDLE" \/ Stands(y.copy, row')
    <2>. SUFFICES ASSUME x.pc = "fail", Stands(x.copy, row)
                  PROVE  Stands(x.copy, row')
      BY <1>1, <1>2 DEF Fits
    <2>1. row' = RequestRelease(row)
      <3>1. lock = u /\ (boot # {} => u = Reconciler)
        BY <1>1 DEF Fits
      <3>. QED BY <1>1, <3>1 DEF RowMoves, Exclusive
    <2>. QED BY <1>1, <2>1, RequestStands
  <1>. QED BY <1>2, <1>4, <1>5, <1>6, <1>7 DEF Fits, x, y

\* A step that writes.
LEMMA Writes ==
    ASSUME Serialised, IInv, LockInv, NEW t \in Thread, NEW x, thread' = Outdated(t, x), boot' = boot,
           LockMoves(t), RowMoves(t), Fits(t, x, lock', boot', row'), LeavesOnRequest(row')
    PROVE  LockInv'
  <1>1. ASSUME NEW u \in Thread
        PROVE  Fits(u, thread'[u], lock', boot', row')
    BY OthersFit DEF Outdated
  <1>. QED BY <1>1 DEF LockInv

\* A step that does not.
LEMMA Moves ==
    ASSUME Serialised, IInv, LockInv, NEW t \in Thread, NEW x, thread' = [thread EXCEPT ![t] = x],
           boot' = boot, row' = row, LockMoves(t), Fits(t, x, lock', boot', row)
    PROVE  LockInv'
  <1>1. ASSUME NEW u \in Thread
        PROVE  Fits(u, thread'[u], lock', boot, row)
    <2>1. CASE u = t
      BY <2>1 DEF IInv, ControlOK
    <2>2. CASE u # t
      <3>1. Fits(u, thread[u], lock, boot, row)
        BY DEF LockInv
      <3>2. lock = u => lock' = u
        BY <2>2, LifecycleAssumption DEF LockMoves, MayLock
      <3>3. thread'[u] = thread[u]
        BY <2>2
      <3>. HIDE DEF LockMoves
      <3>. QED BY <3>1, <3>2, <3>3 DEF Fits
    <2>. QED BY <2>1, <2>2
  <1>. QED BY <1>1 DEF LockInv

-----------------------------------------------------------------------------
(***************************************************************************)
(* The same for the forms a step has.                                      *)
(***************************************************************************)
LEMMA MayWrite ==
    ASSUME LockInv, NEW t \in Thread, thread[t].pc # "idle",
           MayLock(t) \/ thread[t].pc \in Owner \cup Leaving \cup {"fail"}
    PROVE  Exclusive(t)
  <1>1. Fits(t, thread[t], lock, boot, row)
    BY DEF LockInv
  <1>. QED BY <1>1 DEF Fits, Exclusive, MayLock

\* What a committed request does to the row.
LEMMA CommitFits ==
    ASSUME Serialised, IInv, LockInv, NEW t, Exclusive(t),
           NEW next \in LeaseRow, NEW o, Commit(next, o),
           next.inst = row.inst \/ next.inst \notin {"RELEASING", "RELEASED"},
           next.inst = "RELEASED" => ~next.pr
    PROVE  /\ RowMoves(t) /\ LeavesOnRequest(row') /\ row'.inst = next.inst
           /\ row.pr => row'.pr
           /\ next.inst # "RELEASED" /\ next.seen = row.seen /\ (next.pu = row.pu \/ row.pr)
                => Stands(next, row')
  <1>1. row \in Row /\ next \in Row /\ LeavesOnRequest(row) /\ row' = Merged(row, next)
        /\ ValidateTransition(row, next)
    BY DEF IInv, RowOK, LeaseRow, LockInv, Commit, Accepts
  <1>2. row'.inst = next.inst /\ (row'.pr <=> UnderReclaim(row, next) \/ next.pr)
    BY <1>1 DEF Merged, Row
  <1>3. row.inst = "RELEASED" => next.inst = "RELEASED"
    BY <1>1 DEF ValidateTransition, CanTransitionInstance, instanceTransitions
  <1>4. row.pr => row'.pr
    BY <1>1, <1>2 DEF UnderReclaim, LeavesOnRequest
  <1>5. LeavesOnRequest(row')
    BY <1>1, <1>2 DEF UnderReclaim, LeavesOnRequest
  <1>6. RowMoves(t)
    BY <1>2, <1>3, <1>4 DEF RowMoves, Remembers
  <1>7. ASSUME next.inst # "RELEASED", next.seen = row.seen, next.pu = row.pu \/ row.pr
        PROVE  Stands(next, row')
    <2>1. Same(next, row')
      BY <1>1, <1>7 DEF Merged, Same, Row, Later
    <2>2. next.pu = row'.pu \/ row'.pr
      <3>1. CASE row.pr
        BY <3>1, <1>4
      <3>2. CASE ~row.pr /\ next.pu = row.pu /\ ~row'.pr
        <4>1. row'.pu = KeptUpdate(row, next, FALSE)
          BY <1>1, <1>2, <3>2 DEF Merged, Row
        <4>. QED BY <4>1, <3>2, <1>1, <1>7 DEF KeptUpdate, HasUpdate, Row
      <3>. QED BY <3>1, <3>2, <1>7
    <2>. QED BY <1>2, <2>1, <2>2 DEF Stands
  <1>. QED BY <1>2, <1>4, <1>5, <1>6, <1>7

LEMMA Ended ==
    ASSUME Serialised, IInv, LockInv, NEW t \in Thread, End(t), row' = row, boot' = boot
    PROVE  LockInv'
  <1>1. LockMoves(t) /\ thread' = [thread EXCEPT ![t] = Idle]
    BY DEF End, LockMoves
  <1>. QED BY <1>1, Moves, IdleFits

LEMMA WriteEnded ==
    ASSUME Serialised, IInv, LockInv, NEW t \in Thread, WriteEnd(t), RowMoves(t),
           LeavesOnRequest(row'), boot' = boot
    PROVE  LockInv'
  <1>1. LockMoves(t) /\ thread' = Outdated(t, Idle)
    BY DEF WriteEnd, LockMoves
  <1>. QED BY <1>1, Writes, IdleFits

\* A goroutine that was somewhere goes on, with or without the lock.
LEMMA Goes ==
    ASSUME Serialised, IInv, LockInv, NEW t \in Thread, thread[t].pc # "idle" \/ boot = {},
           NEW pc, NEW copy, NEW why, row' = row, boot' = boot,
           Goto(t, pc, copy, why) \/ (MayLock(t) /\ Hold(t, pc, copy, why)),
           pc \in Owner \cup {"fail"} => lock' = t,
           pc \in Leaving => lock' = t \/ boot # {},
           Holding(At(pc, copy, why)) => Stands(copy, row),
           Reclaiming(At(pc, copy, why)) => Asked(t, row),
           pc = "fail" => copy.inst = "IDLE" \/ Stands(copy, row)
    PROVE  LockInv'
  <1>. DEFINE x == At(pc, copy, why)
  <1>1. x.pc = pc /\ x.copy = copy /\ x.why = why /\ ~x.fresh
    BY DEF At
  <1>. HIDE DEF x
  <1>2. LockMoves(t) /\ thread' = [thread EXCEPT ![t] = x]
    BY DEF Goto, Hold, LockMoves, x
  <1>3. boot # {} => t = Reconciler
    BY DEF LockInv, Fits
  <1>4. Holding(x) => Stands(copy, row)
    BY DEF x
  <1>5. Reclaiming(x) => Asked(t, row)
    BY DEF x
  <1>6. Fits(t, x, lock', boot', row)
    BY <1>1, <1>3, <1>4, <1>5 DEF Fits
  <1>. QED BY <1>2, <1>6, Moves

\* The same after a write.
LEMMA WriteGoes ==
    ASSUME Serialised, IInv, LockInv, NEW t \in Thread, thread[t].pc # "idle" \/ boot = {},
           NEW pc, NEW copy, NEW why, boot' = boot,
           RowMoves(t), LeavesOnRequest(row'),
           WriteGoto(t, pc, copy, why) \/ (MayLock(t) /\ WriteHold(t, pc, copy, why)),
           pc \in Owner \cup {"fail"} => lock' = t,
           pc \in Leaving => lock' = t \/ boot # {},
           Holding(At(pc, copy, why)) => Stands(copy, row'),
           Reclaiming(At(pc, copy, why)) => Asked(t, row'),
           pc = "fail" => copy.inst = "IDLE" \/ Stands(copy, row')
    PROVE  LockInv'
  <1>. DEFINE x == At(pc, copy, why)
  <1>1. x.pc = pc /\ x.copy = copy /\ x.why = why /\ ~x.fresh
    BY DEF At
  <1>. HIDE DEF x
  <1>2. LockMoves(t) /\ thread' = Outdated(t, x)
    BY DEF WriteGoto, WriteHold, LockMoves, x
  <1>3. boot # {} => t = Reconciler
    BY DEF LockInv, Fits
  <1>4. Holding(x) => Stands(copy, row')
    BY DEF x
  <1>5. Reclaiming(x) => Asked(t, row')
    BY DEF x
  <1>6. Fits(t, x, lock', boot', row')
    BY <1>1, <1>3, <1>4, <1>5 DEF Fits
  <1>. QED BY <1>2, <1>6, Writes

\* The row stands for itself.
LEMMA RowStands == Stands(row, row)
  BY DEF Stands, Same

-----------------------------------------------------------------------------
(***************************************************************************)
(* The steps of a goroutine.                                               *)
(***************************************************************************)
LEMMA SelfFits ==
    ASSUME IInv, LockInv, NEW t \in Thread, thread[t].pc # "idle"
    PROVE  /\ Fits(t, thread[t], lock, boot, row)
           /\ thread[t].copy \in LeaseRow /\ thread[t].copy \in Row
           /\ row \in LeaseRow /\ row \in Row
           /\ thread[t].pc \in Owner \cup {"fail"} => lock = t
           /\ Holding(thread[t]) => Stands(thread[t].copy, row)
  BY SelfType DEF LockInv, IInv, RowOK, LeaseRow, Fits

\* What the rows a handler builds keep of the copy.
LEMMA BuiltFields ==
    ASSUME NEW c \in Row
    PROVE  /\ \A phase : PreparedRow(c, phase).inst = "IDLE" /\ PreparedRow(c, phase).pr = c.pr
           /\ PrepareFailedRow(c).inst \in {c.inst, "LOST"} /\ PrepareFailedRow(c).pr = c.pr
           /\ ServingRow(c).inst = c.inst /\ ServingRow(c).pr = c.pr
           /\ FailedRow(c).inst = c.inst /\ FailedRow(c).pr = c.pr /\ FailedRow(c).svc = "FAILED"
           /\ DrainedRow(c).inst = c.inst /\ ~DrainedRow(c).pr
  <1>1. \A phase : PreparedRow(c, phase).inst = "IDLE" /\ PreparedRow(c, phase).pr = c.pr
    BY DEF PreparedRow, Row
  <1>2. PrepareFailedRow(c).inst \in {c.inst, "LOST"} /\ PrepareFailedRow(c).pr = c.pr
    BY DEF PrepareFailedRow, Row
  <1>3. ServingRow(c).inst = c.inst /\ ServingRow(c).pr = c.pr
    BY DEF ServingRow, Row
  <1>4. FailedRow(c).inst = c.inst /\ FailedRow(c).pr = c.pr /\ FailedRow(c).svc = "FAILED"
    BY DEF FailedRow, Row
  <1>5. DrainedRow(c).inst = c.inst /\ ~DrainedRow(c).pr
    BY DEF DrainedRow, Row
  <1>. QED BY <1>1, <1>2, <1>3, <1>4, <1>5

LEMMA PrepareLocks ==
    ASSUME Serialised, IInv, LockInv, NEW t \in Thread, Prepare(t)
    PROVE  LockInv'
  <1>1. boot' = boot /\ row' = row /\ thread[t].pc # "idle"
    BY DEF Prepare, dbVars
  <1>2. CASE End(t)
    BY <1>1, <1>2, Ended
  <1>3. ASSUME NEW pc \in {"prepared", "prepfail"}, NEW why \in Phase \cup {""}, MayLock(t),
               Hold(t, pc, row, why)
        PROVE  LockInv'
    BY <1>1, <1>3, Goes, RowStands DEF Hold, Reclaiming, Releases, At, Leaving, Returning, Phase
  <1>. QED BY <1>2, <1>3 DEF Prepare, IInv, RowOK, LeaseRow, NodeOK

LEMMA PrepareCommitLocks ==
    ASSUME Serialised, IInv, LockInv, NEW t \in Thread, PrepareCommit(t)
    PROVE  LockInv'
  <1>. DEFINE next == IF thread[t].pc = "prepared" THEN PreparedRow(thread[t].copy, thread[t].why)
                      ELSE PrepareFailedRow(thread[t].copy)
  <1>1. /\ boot' = boot /\ thread[t].pc \in Owner /\ thread[t].pc # "idle"
        /\ Stands(thread[t].copy, row)
    BY SelfFits DEF PrepareCommit, Owner, Holding
  <1>2. CASE End(t) /\ row' = row
    BY <1>1, <1>2, Ended
  <1>3. ASSUME NEW o, Commit(next, o), WriteEnd(t)
        PROVE  LockInv'
    <2>1. next \in LeaseRow /\ next.inst \in {thread[t].copy.inst, "IDLE", "LOST"}
          /\ next.pr = thread[t].copy.pr
      BY <1>1, SelfFits, BuiltRows, BuiltFields
    <2>. HIDE DEF next
    <2>2. /\ next.inst = row.inst \/ next.inst \notin {"RELEASING", "RELEASED"}
          /\ next.inst = "RELEASED" => ~next.pr
      BY <1>1, <2>1 DEF Stands, Same, LockInv, LeavesOnRequest
    <2>. QED BY <1>1, <1>3, <2>1, <2>2, MayWrite, CommitFits, WriteEnded
  <1>. QED BY <1>2, <1>3 DEF PrepareCommit, Refused, dbVars

LEMMA StartServiceLocks ==
    ASSUME Serialised, IInv, LockInv, NEW t \in Thread, StartService(t)
    PROVE  LockInv'
  <1>. DEFINE next == [row EXCEPT !.role = thread[t].copy.role, !.svc = "STARTING", !.start = @ + 1]
  <1>1. boot' = boot /\ thread[t].pc # "idle" /\ MayLock(t)
    BY DEF StartService, Free, MayLock
  <1>2. CASE End(t) /\ row' = row
    BY <1>1, <1>2, Ended
  <1>3. ASSUME NEW o, Commit(next, o), WriteHold(t, "launch", next, thread[t].why), row.inst = "IDLE"
        PROVE  LockInv'
    <2>1. /\ next \in LeaseRow /\ next.inst = "IDLE" /\ next.seen = row.seen /\ next.pu = row.pu
      <3>1. row \in LeaseRow /\ thread[t].copy.role \in AnyRole /\ row.start + 1 \in Nat
        BY <1>1, SelfFits DEF LeaseRow, Row
      <3>2. PICK role : role = thread[t].copy.role
        OBVIOUS
      <3>3. [row EXCEPT !.role = role, !.svc = "STARTING", !.start = @ + 1] \in LeaseRow
        BY <3>1, <3>2 DEF LeaseRow, Row, HasUpdate, ServiceState
      <3>. QED BY <1>3, <3>1, <3>2, <3>3 DEF LeaseRow, Row
    <2>. HIDE DEF next
    <2>2. RowMoves(t) /\ LeavesOnRequest(row') /\ Stands(next, row') /\ (row.pr => row'.pr) /\ row'.inst = "IDLE"
      BY <1>1, <1>3, <2>1, MayWrite, CommitFits
    <2>3. Reclaiming(At("launch", next, thread[t].why)) => Asked(t, row')
      <3>1. Reclaiming(At("launch", next, thread[t].why)) => Reclaiming(thread[t])
        BY DEF Reclaiming, At, Leaving, Returning
      <3>2. Reclaiming(thread[t]) => Asked(t, row)
        BY <1>1, SelfFits DEF Fits
      <3>. QED BY <1>3, <2>2, <3>1, <3>2 DEF Asked
    <2>. QED BY <1>1, <1>3, <2>2, <2>3, WriteGoes DEF WriteHold, Leaving, Returning
  <1>. QED BY <1>2, <1>3 DEF StartService, dbVars

\* A holder that goes from place to place keeps the lock, its copy, and stays as
\* much asked for as it was.
LEMMA HolderGoes ==
    ASSUME Serialised, IInv, LockInv, NEW t \in Thread, thread[t].pc \in Owner, row' = row, boot' = boot,
           NEW pc \in Owner \cup {"fail"}, NEW copy, NEW why, Goto(t, pc, copy, why),
           Stands(copy, row), Releases(why) => Releases(thread[t].why)
    PROVE  LockInv'
  <1>1. thread[t].pc # "idle" /\ lock = t
    BY SelfFits DEF Owner
  <1>2. Reclaiming(At(pc, copy, why)) => Asked(t, row)
    BY <1>1, SelfFits DEF Reclaiming, At, Fits, Leaving, Returning, Owner
  <1>. QED BY <1>1, <1>2, Goes DEF Goto, Leaving, Returning, Owner

LEMMA LaunchLocks ==
    ASSUME Serialised, IInv, LockInv, NEW t \in Thread, Launch(t)
    PROVE  LockInv'
  <1>1. /\ boot' = boot /\ row' = row /\ thread[t].pc \in Owner
        /\ Stands(thread[t].copy, row)
    BY SelfFits DEF Launch, Owner, Holding, dbVars
  <1>2. \E pc \in {"health", "fail"} : Goto(t, pc, thread[t].copy, thread[t].why)
    BY DEF Launch
  <1>. QED BY <1>1, <1>2, HolderGoes DEF Owner

LEMMA HealthLocks ==
    ASSUME Serialised, IInv, LockInv, NEW t \in Thread, Health(t)
    PROVE  LockInv'
  <1>1. /\ boot' = boot /\ row' = row /\ thread[t].pc \in Owner
        /\ Stands(thread[t].copy, row)
    BY SelfFits DEF Health, Owner, Holding, dbVars
  <1>2. \E pc \in {"healthy", "fail"} : Goto(t, pc, thread[t].copy, thread[t].why)
    BY DEF Health
  <1>. QED BY <1>1, <1>2, HolderGoes DEF Owner

LEMMA RegisterLocks ==
    ASSUME Serialised, IInv, LockInv, NEW t \in Thread, Register(t)
    PROVE  LockInv'
  <1>. DEFINE copy == [thread[t].copy EXCEPT !.worker = WorkerId(thread[t].copy.ident)]
  <1>1. /\ boot' = boot /\ row' = row /\ thread[t].pc \in Owner
        /\ Stands(thread[t].copy, row) /\ thread[t].copy \in Row
    BY SelfFits DEF Register, Owner, Holding, dbVars
  <1>2. Stands(copy, row)
    BY <1>1 DEF Stands, Same, Row
  <1>. HIDE DEF copy
  <1>3. \/ \E why \in {"settled", thread[t].why} : Goto(t, "open", copy, why)
        \/ Goto(t, "fail", thread[t].copy, RouterFailure(thread[t].why))
    BY DEF Register, copy
  <1>4. /\ ~Releases("settled")
        /\ Releases(RouterFailure(thread[t].why)) => Releases(thread[t].why)
    BY DEF Releases, RouterFailure
  <1>. QED BY <1>1, <1>2, <1>3, <1>4, HolderGoes DEF Owner

LEMMA OpenLocks ==
    ASSUME Serialised, IInv, LockInv, NEW t \in Thread, Open(t)
    PROVE  LockInv'
  <1>1. /\ boot' = boot /\ row' = row /\ thread[t].pc \in Owner
        /\ Stands(thread[t].copy, row)
    BY SelfFits DEF Open, Owner, Holding, dbVars
  <1>2. \/ End(t)
        \/ Goto(t, "serve", thread[t].copy, thread[t].why)
        \/ Goto(t, "fail", thread[t].copy, RouterFailure(thread[t].why))
    BY DEF Open
  <1>3. Releases(RouterFailure(thread[t].why)) => Releases(thread[t].why)
    BY DEF Releases, RouterFailure
  <1>. QED BY <1>1, <1>2, <1>3, HolderGoes, Ended DEF Owner

\* A holder that stores what it has, and ends.
LEMMA HolderWrites ==
    ASSUME Serialised, IInv, LockInv, NEW t \in Thread, thread[t].pc \in Owner \cup {"fail"},
           boot' = boot, NEW next \in LeaseRow, NEW o, Commit(next, o),
           next.inst = row.inst \/ next.inst \notin {"RELEASING", "RELEASED"},
           next.inst = "RELEASED" => ~next.pr,
           WriteEnd(t)
    PROVE  LockInv'
  <1>1. Exclusive(t)
    BY SelfFits, MayWrite DEF Owner
  <1>2. RowMoves(t) /\ LeavesOnRequest(row')
    BY <1>1, CommitFits
  <1>. QED BY <1>2, WriteEnded

\* A write leaves a reclaim asked for, but for the one that completes it.
LEMMA StaysAsked ==
    ASSUME Serialised, IInv, NEW t \in Thread, RowMoves(t), Asked(t, row),
           row.pr => row'.pr
    PROVE  Asked(t, row')
  <1>1. Remembers(t, row, row')
    BY RequestStands DEF RowMoves, IInv, RowOK, LeaseRow
  <1>. QED BY <1>1 DEF Remembers, Asked

\* The same, and goes on.
LEMMA HolderAdvances ==
    ASSUME Serialised, IInv, LockInv, NEW t \in Thread, thread[t].pc \in Owner \cup {"fail"},
           boot' = boot, NEW next \in LeaseRow, NEW o, Commit(next, o),
           next.inst = row.inst \/ next.inst \notin {"RELEASING", "RELEASED"},
           NEW pc \in Owner, NEW why, WriteGoto(t, pc, next, why),
           Releases(why) => Releases(thread[t].why),
           next.inst # "RELEASED", next.seen = row.seen, next.pu = row.pu \/ row.pr
    PROVE  LockInv'
  <1>1. thread[t].pc # "idle" /\ lock = t /\ Exclusive(t)
    BY SelfFits, MayWrite DEF Owner
  <1>2. /\ RowMoves(t) /\ LeavesOnRequest(row')
        /\ row.pr => row'.pr
        /\ Stands(next, row')
    BY <1>1, CommitFits
  <1>3. Releases(thread[t].why) => Asked(t, row')
    <2>1. Releases(thread[t].why) => Asked(t, row)
      BY <1>1, SelfFits DEF Fits, Reclaiming
    <2>. QED BY <1>2, <2>1, StaysAsked
  <1>4. Reclaiming(At(pc, next, why)) => Releases(why)
    BY DEF Reclaiming, At, Leaving, Returning, Owner
  <1>5. lock' = t /\ pc # "fail" /\ pc \notin Leaving
    BY <1>1 DEF WriteGoto, Owner, Leaving, Returning
  <1>. QED BY <1>1, <1>2, <1>3, <1>4, <1>5, WriteGoes

LEMMA AdvanceLocks ==
    ASSUME Serialised, IInv, LockInv, NEW t \in Thread, Advance(t)
    PROVE  LockInv'
  <1>. DEFINE next == [thread[t].copy EXCEPT !.svc = NextService(thread[t].pc)]
  <1>1. /\ boot' = boot /\ thread[t].pc \in Owner /\ thread[t].pc # "idle"
        /\ Stands(thread[t].copy, row) /\ thread[t].copy \in LeaseRow
    BY SelfFits DEF Advance, Owner, Holding
  <1>2. /\ NextService(thread[t].pc) \in LiveService /\ NextService(thread[t].pc) \in ServiceState
        /\ NextPlace(thread[t].pc) \in Owner
    BY DEF Advance, NextService, NextPlace, LiveService, ServiceState, Owner
  <1>3. CASE End(t) /\ row' = row
    BY <1>1, <1>3, Ended
  <1>4. ASSUME Commit(next, ops), WriteGoto(t, NextPlace(thread[t].pc), next, thread[t].why)
        PROVE  LockInv'
    <2>1. /\ next \in LeaseRow /\ next.inst = row.inst /\ next.seen = row.seen
          /\ next.pu = row.pu \/ row.pr
          /\ next.svc \in LiveService
      <3>1. PICK c, s : c = thread[t].copy /\ s = NextService(thread[t].pc)
        OBVIOUS
      <3>2. [c EXCEPT !.svc = s] \in LeaseRow
        BY <1>1, <1>2, <3>1 DEF LeaseRow, Row, HasUpdate
      <3>. QED BY <1>1, <1>2, <3>1, <3>2 DEF LeaseRow, Row, Stands, Same
    <2>2. next.inst # "RELEASED"
      BY <1>4, <2>1 DEF Commit, Accepts, CheckCombination, LiveService
    <2>. HIDE DEF next
    <2>. QED BY <1>1, <1>2, <1>4, <2>1, <2>2, HolderAdvances
  <1>. QED BY <1>3, <1>4 DEF Advance, Refused, dbVars

LEMMA ServeLocks ==
    ASSUME Serialised, IInv, LockInv, NEW t \in Thread, Serve(t)
    PROVE  LockInv'
  <1>. DEFINE next == ServingRow(thread[t].copy)
  <1>1. /\ boot' = boot /\ thread[t].pc \in Owner /\ thread[t].pc # "idle"
        /\ Stands(thread[t].copy, row)
    BY SelfFits DEF Serve, Owner, Holding
  <1>2. next \in LeaseRow /\ next.inst = row.inst /\ next.pr = thread[t].copy.pr
    BY <1>1, SelfFits, BuiltRows, BuiltFields DEF Stands, Same
  <1>3. next.inst = "RELEASED" => ~next.pr
    BY <1>1, <1>2 DEF Stands, LockInv, LeavesOnRequest
  <1>. HIDE DEF next
  <1>4. (End(t) /\ row' = row) \/ \E o : Commit(next, o) /\ WriteEnd(t)
    BY DEF Serve, Refused, dbVars, next
  <1>. QED BY <1>1, <1>2, <1>3, <1>4, Ended, HolderWrites

LEMMA FailStartLocks ==
    ASSUME Serialised, IInv, LockInv, NEW t \in Thread, FailStart(t)
    PROVE  LockInv'
  <1>. DEFINE next == FailedRow(thread[t].copy)
  <1>1. boot' = boot /\ thread[t].pc = "fail" /\ thread[t].pc # "idle"
    BY DEF FailStart
  <1>2. /\ next \in LeaseRow /\ next.pr = thread[t].copy.pr /\ next.inst = thread[t].copy.inst
    BY <1>1, SelfFits, BuiltRows, BuiltFields
  <1>3. /\ next.inst = row.inst \/ next.inst \notin {"RELEASING", "RELEASED"}
        /\ next.inst = "RELEASED" => ~next.pr
    BY <1>1, <1>2, SelfFits DEF Fits, Stands, Same, LockInv, LeavesOnRequest
  <1>. HIDE DEF next
  <1>4. (End(t) /\ row' = row) \/ \E o : Commit(next, o) /\ WriteEnd(t)
    BY DEF FailStart, Refused, dbVars, next
  <1>. QED BY <1>1, <1>2, <1>3, <1>4, Ended, HolderWrites

\* A goroutine that reclaims goes on with the lock, to where it writes from no copy.
LEMMA ReclaimGoes ==
    ASSUME Serialised, IInv, LockInv, NEW t \in Thread, thread[t].pc # "idle", MayLock(t), row' = row,
           boot' = boot, NEW pc \in {"release", "reclaimerr"}, NEW copy, NEW why,
           Hold(t, pc, copy, why), Asked(t, row)
    PROVE  LockInv'
  <1>1. lock' = t
    BY DEF Hold
  <1>2. ~Holding(At(pc, copy, why)) /\ pc # "fail"
    BY DEF Holding, At, Owner, Returning
  <1>. QED BY <1>1, <1>2, Goes

\* The error of a reclaim is recorded by whoever holds the lock.
LEMMA DrainErrors ==
    ASSUME Serialised, IInv, LockInv, NEW t \in Thread, thread[t].pc # "idle", MayLock(t), row' = row,
           boot' = boot, NEW copy, DrainError(t, copy, thread[t].why)
    PROVE  LockInv'
  <1>1. CASE Releases(thread[t].why) /\ Hold(t, "reclaimerr", copy, thread[t].why)
    <2>1. Asked(t, row)
      BY <1>1, SelfFits DEF Fits, Reclaiming
    <2>. QED BY <1>1, <2>1, ReclaimGoes
  <1>2. CASE End(t)
    BY <1>2, Ended
  <1>. QED BY <1>1, <1>2 DEF DrainError

LEMMA BeginDrainLocks ==
    ASSUME Serialised, IInv, LockInv, NEW t \in Thread, BeginDrain(t)
    PROVE  LockInv'
  <1>. DEFINE copy == [row EXCEPT !.worker = ResolvedWorker(row)]
  <1>1. /\ boot' = boot /\ row' = row /\ thread[t].pc # "idle" /\ MayLock(t)
    BY DEF BeginDrain, dbVars
  <1>2. Releases(thread[t].why) => Asked(t, row)
    BY <1>1, SelfFits DEF Fits, Reclaiming
  <1>3. Stands(copy, row)
    BY DEF Stands, Same, IInv, RowOK, LeaseRow, Row
  <1>. HIDE DEF copy
  <1>4. CASE End(t) \/ DrainError(t, row, thread[t].why)
    BY <1>1, <1>4, Ended, DrainErrors
  <1>5. CASE Releases(thread[t].why) /\ Hold(t, "release", row, thread[t].why)
    BY <1>1, <1>2, <1>5, ReclaimGoes
  <1>6. CASE Hold(t, "draincommit", copy, thread[t].why)
    <2>1. Reclaiming(At("draincommit", copy, thread[t].why)) => Asked(t, row)
      BY <1>2 DEF Reclaiming, At, Leaving, Returning
    <2>. QED BY <1>1, <1>3, <1>6, <2>1, Goes DEF Hold, Leaving, Returning
  <1>. QED BY <1>4, <1>5, <1>6 DEF BeginDrain, copy

\* The holder takes the row as its copy, to write from it or to look at it.
LEMMA HoldsRow ==
    ASSUME Serialised, IInv, LockInv, NEW t \in Thread, thread[t].pc # "idle" \/ boot = {},
           row' = row, boot' = boot, MayLock(t), NEW pc, NEW why, Hold(t, pc, row, why),
           Releases(why) \/ pc \in {"reclaim", "revoked"} \cup Leaving => Asked(t, row)
    PROVE  LockInv'
  <1>1. lock' = t
    BY DEF Hold
  <1>2. Reclaiming(At(pc, row, why)) => Asked(t, row)
    BY DEF Reclaiming, At
  <1>. QED BY <1>1, <1>2, RowStands, Goes

\* It leaves for a place where it neither writes nor reclaims.
LEMMA GoesAway ==
    ASSUME Serialised, IInv, LockInv, NEW t \in Thread, thread[t].pc # "idle" \/ boot = {},
           row' = row, boot' = boot,
           NEW pc \in {"prepare", "start", "drain", "finish", "settle", "rearm"}, NEW copy, NEW why,
           Goto(t, pc, copy, why), ~Releases(why)
    PROVE  LockInv'
  <1>1. ~Holding(At(pc, copy, why)) /\ ~Reclaiming(At(pc, copy, why))
    BY DEF Holding, Reclaiming, At, Owner, Leaving, Returning
  <1>2. pc \notin Owner \cup Leaving \cup {"fail"}
    BY DEF Owner, Leaving, Returning
  <1>. QED BY <1>1, <1>2, Goes

LEMMA DrainCommitLocks ==
    ASSUME Serialised, IInv, LockInv, NEW t \in Thread, DrainCommit(t)
    PROVE  LockInv'
  <1>. DEFINE next == [thread[t].copy EXCEPT !.svc = "DRAINING", !.deadline = TRUE,
                                             !.pr = Releases(thread[t].why)]
  <1>1. /\ boot' = boot /\ thread[t].pc \in Owner /\ thread[t].pc # "idle" /\ MayLock(t)
        /\ Stands(thread[t].copy, row) /\ thread[t].copy \in LeaseRow
    BY SelfFits DEF DrainCommit, Owner, Holding, MayLock
  <1>2. /\ next \in LeaseRow /\ next.inst = row.inst /\ next.svc = "DRAINING"
    <2>1. PICK c, b : c = thread[t].copy /\ b = Releases(thread[t].why)
      OBVIOUS
    <2>2. b \in BOOLEAN
      BY <2>1 DEF Releases
    <2>3. [c EXCEPT !.svc = "DRAINING", !.deadline = TRUE, !.pr = b] \in LeaseRow
      BY <1>1, <2>1, <2>2, ZenonT(60) DEF LeaseRow, Row, HasUpdate, ServiceState
    <2>. QED BY <1>1, <2>1, <2>3 DEF LeaseRow, Row, Stands, Same
  <1>. HIDE DEF next
  <1>3. CASE DrainError(t, row, thread[t].why) /\ row' = row
    BY <1>1, <1>3, DrainErrors
  <1>4. ASSUME NEW o, Commit(next, o)
        PROVE  /\ next.inst # "RELEASED"
               /\ RowMoves(t) /\ LeavesOnRequest(row') /\ (row.pr => row'.pr)
    <2>1. next.inst # "RELEASED"
      BY <1>2, <1>4 DEF Commit, Accepts, CheckCombination
    <2>. QED BY <1>1, <1>2, <1>4, <2>1, MayWrite, CommitFits
  <1>5. ASSUME NEW o, Commit(next, o), WriteEnd(t)
        PROVE  LockInv'
    BY <1>1, <1>4, <1>5, WriteEnded
  <1>6. ASSUME NEW o, Commit(next, o), thread[t].why = "reclaim",
               WriteHold(t, "finish", Merged(row, next), "reclaim")
        PROVE  LockInv'
    <2>1. Asked(t, row')
      BY <1>1, <1>4, <1>6, SelfFits, StaysAsked DEF Fits, Reclaiming, Releases
    <2>2. ~Holding(At("finish", Merged(row, next), "reclaim"))
      BY DEF Holding, At, Owner, Returning
    <2>3. "finish" \notin Owner \cup Leaving \cup {"fail"}
      BY DEF Owner, Leaving, Returning
    <2>. QED BY <1>1, <1>4, <1>6, <2>1, <2>2, <2>3, WriteGoes
  <1>. QED BY <1>3, <1>5, <1>6 DEF DrainCommit, Refused, dbVars, next

LEMMA ReclaimErrLocks ==
    ASSUME Serialised, IInv, LockInv, NEW t \in Thread, ReclaimErr(t)
    PROVE  LockInv'
  <1>. DEFINE next == [row EXCEPT !.svc = IF @ \in {"NONE", "DRAINING"} THEN @ ELSE "FAILED"]
  <1>1. boot' = boot /\ thread[t].pc \in Leaving /\ thread[t].pc # "idle"
    BY DEF ReclaimErr, Leaving
  <1>2. next \in LeaseRow /\ next.inst = row.inst /\ next.pr = row.pr
    BY DEF IInv, RowOK, LeaseRow, Row, HasUpdate, ServiceState
  <1>. HIDE DEF next
  <1>3. (End(t) /\ row' = row) \/ (row.pr /\ WriteEnd(t) /\ \E o : Commit(next, o))
    BY DEF ReclaimErr, dbVars, next
  <1>4. next.inst = "RELEASED" => ~next.pr
    BY <1>2 DEF LockInv, LeavesOnRequest
  <1>. QED BY <1>1, <1>2, <1>3, <1>4, Ended, MayWrite, CommitFits, WriteEnded

LEMMA FinishDrainLocks ==
    ASSUME Serialised, IInv, LockInv, NEW t \in Thread, FinishDrain(t)
    PROVE  LockInv'
  <1>1. boot' = boot /\ row' = row /\ thread[t].pc # "idle" /\ MayLock(t)
    BY DEF FinishDrain, dbVars
  <1>2. Releases(thread[t].why) => Asked(t, row)
    BY <1>1, SelfFits DEF Fits, Reclaiming
  <1>3. End(t) \/ \E pc \in {"drained", "drainfail"} : Hold(t, pc, row, thread[t].why)
    BY DEF FinishDrain
  <1>4. \A pc \in {"drained", "drainfail"} : pc \notin {"reclaim", "revoked"} \cup Leaving
    BY DEF Leaving, Returning
  <1>. QED BY <1>1, <1>2, <1>3, <1>4, Ended, HoldsRow

LEMMA DrainedLocks ==
    ASSUME Serialised, IInv, LockInv, NEW t \in Thread, Rounds(t) \/ thread[t].pc # "drained",
           Drained(t)
    PROVE  LockInv'
  <1>. DEFINE copy  == thread[t].copy
              moves == HasUpdate(copy) /\ ~copy.pr
              next  == IF moves THEN MovedRow(copy) ELSE DrainedRow(copy)
  <1>1. /\ boot' = boot /\ thread[t].pc \in Owner /\ thread[t].pc # "idle" /\ lock = t
        /\ Stands(copy, row) /\ copy \in LeaseRow /\ Rounds(t) /\ MayLock(t) /\ row \in Row
    BY SelfFits DEF Drained, Owner, Holding, MayLock
  <1>2. Exclusive(t)
    BY <1>1, MayWrite
  <1>3. CASE End(t) /\ row' = row
    BY <1>1, <1>3, Ended
  <1>4. CASE moves /\ AcceptsUpdate(row, MovedRow(copy)) /\ row' = Updated(row, MovedRow(copy))
             /\ WriteEnd(t)
    <2>1. MovedRow(copy) \in Row
      BY <1>1, <1>4, BuiltRows DEF LeaseRow
    <2>2. row'.inst = "PREPARING" /\ ~row.pr /\ row.inst # "RELEASED"
      BY <1>1, <1>4, <2>1 DEF Updated, AcceptsUpdate, Row, ValidateTransition,
            CanTransitionInstance, instanceTransitions
    <2>3. RowMoves(t) /\ LeavesOnRequest(row')
      BY <1>2, <2>2 DEF RowMoves, Remembers, LeavesOnRequest
    <2>. QED BY <1>1, <1>4, <2>3, WriteEnded
  <1>5. ASSUME ~moves, Accepts(row, DrainedRow(copy)), row' = Merged(row, DrainedRow(copy))
        PROVE  RowMoves(t) /\ LeavesOnRequest(row') /\ (row.pr => row'.pr)
    <2>1. DrainedRow(copy) \in LeaseRow /\ DrainedRow(copy).inst = row.inst /\ ~DrainedRow(copy).pr
      BY <1>1, BuiltRows, BuiltFields DEF LeaseRow, Stands, Same
    <2>2. Commit(DrainedRow(copy), ops')
      BY <1>5 DEF Commit
    <2>. HIDE DEF copy
    <2>. QED BY <1>2, <2>1, <2>2, CommitFits
  <1>6. CASE /\ ~moves /\ Accepts(row, DrainedRow(copy)) /\ row' = Merged(row, DrainedRow(copy))
             /\ copy.pr /\ WriteHold(t, "release", row', "reclaim")
    <2>1. Asked(t, row')
      BY <1>1, <1>5, <1>6 DEF Asked, Stands, Rounds
    <2>2. ~Holding(At("release", row', "reclaim")) /\ lock' = t
      BY <1>6 DEF Holding, At, Owner, Returning, WriteHold
    <2>. QED BY <1>1, <1>5, <1>6, <2>1, <2>2, WriteGoes
  <1>7. CASE /\ ~moves /\ Accepts(row, DrainedRow(copy)) /\ row' = Merged(row, DrainedRow(copy))
             /\ WriteEnd(t)
    BY <1>1, <1>5, <1>7, WriteEnded
  <1>8. CASE moves
    BY <1>3, <1>4, <1>8 DEF Drained, dbVars
  <1>9. CASE ~moves
    BY <1>3, <1>6, <1>7, <1>9 DEF Drained, dbVars
  <1>. QED BY <1>8, <1>9

LEMMA DrainFailLocks ==
    ASSUME Serialised, IInv, LockInv, NEW t \in Thread, DrainFail(t)
    PROVE  LockInv'
  <1>. DEFINE next == thread[t].copy
  <1>1. /\ boot' = boot /\ thread[t].pc \in Owner /\ thread[t].pc # "idle"
        /\ Stands(next, row) /\ next \in LeaseRow
    BY SelfFits DEF DrainFail, Owner, Holding
  <1>2. next.inst = row.inst /\ (next.inst = "RELEASED" => ~next.pr)
    BY <1>1 DEF Stands, Same, LockInv, LeavesOnRequest
  <1>. HIDE DEF next
  <1>3. (End(t) /\ row' = row) \/ (WriteEnd(t) /\ \E o : Commit(next, o))
    BY DEF DrainFail, Refused, dbVars, next
  <1>. QED BY <1>1, <1>2, <1>3, Ended, HolderWrites

\* A release is handed over to the record of its error, or ends.
LEMMA ReleaseErrors ==
    ASSUME Serialised, IInv, LockInv, NEW t \in Thread, thread[t].pc \in Leaving, row' = row, boot' = boot,
           Goto(t, "reclaimerr", row, thread[t].why) \/ End(t)
    PROVE  LockInv'
  <1>1. Fits(t, thread[t], lock, boot, row) /\ thread[t].pc # "idle"
    BY DEF LockInv, Leaving, Returning
  <1>2. CASE Goto(t, "reclaimerr", row, thread[t].why)
    <2>1. Asked(t, row) /\ (lock = t \/ boot # {})
      BY <1>1 DEF Fits, Reclaiming
    <2>2. ~Holding(At("reclaimerr", row, thread[t].why)) /\ lock' = lock
      BY <1>2 DEF Holding, At, Owner, Returning, Goto
    <2>3. "reclaimerr" \notin Owner \cup {"fail"}
      BY DEF Owner
    <2>. QED BY <1>1, <1>2, <2>1, <2>2, <2>3, Goes
  <1>. QED BY <1>1, <1>2, Ended

\* A release goes on where it writes from its copy.
LEMMA ReleaseGoes ==
    ASSUME Serialised, IInv, LockInv, NEW t \in Thread, thread[t].pc \in Leaving, row' = row, boot' = boot,
           NEW pc \in Returning, NEW copy, Stands(copy, row), Goto(t, pc, copy, thread[t].why)
    PROVE  LockInv'
  <1>1. Fits(t, thread[t], lock, boot, row) /\ thread[t].pc # "idle"
    BY DEF LockInv, Leaving, Returning
  <1>2. Asked(t, row) /\ (lock = t \/ boot # {}) /\ lock' = lock
    BY <1>1 DEF Fits, Reclaiming, Goto
  <1>3. pc \notin Owner \cup {"fail"}
    BY DEF Owner, Returning
  <1>. QED BY <1>1, <1>2, <1>3, Goes

LEMMA BeginReleaseLocks ==
    ASSUME Serialised, IInv, LockInv, NEW t \in Thread, BeginRelease(t)
    PROVE  LockInv'
  <1>1. boot' = boot /\ row' = row /\ thread[t].pc \in Leaving /\ thread[t].pc # "idle"
    BY DEF BeginRelease, dbVars, Leaving
  <1>2. End(t) \/ Goto(t, "releasing", row, thread[t].why)
    BY DEF BeginRelease
  <1>. QED BY <1>1, <1>2, Ended, RowStands, ReleaseGoes DEF Returning

LEMMA ReleasingLocks ==
    ASSUME Serialised, IInv, LockInv, NEW t \in Thread, Releasing(t)
    PROVE  LockInv'
  <1>. DEFINE next == [thread[t].copy EXCEPT !.inst = "RELEASING"]
  <1>1. /\ boot' = boot /\ thread[t].pc \in Leaving /\ thread[t].pc # "idle"
        /\ Stands(thread[t].copy, row) /\ thread[t].copy \in LeaseRow /\ row \in Row
        /\ Asked(t, row)
    BY SelfFits DEF Releasing, Leaving, Returning, Holding, Fits, Reclaiming
  <1>2. next \in LeaseRow /\ next.inst = "RELEASING" /\ next.pr = thread[t].copy.pr
        /\ [next EXCEPT !.inst = row.inst] = [thread[t].copy EXCEPT !.inst = row.inst]
    <2>1. PICK c : c = thread[t].copy
      OBVIOUS
    <2>2. [c EXCEPT !.inst = "RELEASING"] \in LeaseRow
      BY <1>1, <2>1 DEF LeaseRow, Row, HasUpdate, InstanceState
    <2>. QED BY <1>1, <2>1, <2>2 DEF LeaseRow, Row
  <1>3. CASE row' = row /\ (Goto(t, "reclaimerr", row, thread[t].why) \/ End(t))
    BY <1>1, <1>3, ReleaseErrors
  <1>4. ASSUME NEW o, Commit(next, o), WriteGoto(t, "return", next, thread[t].why)
        PROVE  LockInv'
    <2>1. /\ next \in Row /\ row' = Merged(row, next) /\ ValidateTransition(row, next)
      BY <1>2, <1>4 DEF Commit, Accepts, LeaseRow
    <2>2. row.pr /\ row.inst # "RELEASED"
      <3>1. row.inst # "RELEASED"
        BY <1>2, <2>1 DEF ValidateTransition, CanTransitionInstance, instanceTransitions
      <3>. QED BY <1>1, <3>1 DEF Asked
    <2>3. row'.pr /\ row'.inst = "RELEASING"
      BY <1>2, <2>1, <2>2 DEF Merged, UnderReclaim, Row
    <2>4. Stands(next, row')
      <3>1. /\ thread[t].copy.svc = row.svc /\ thread[t].copy.role = row.role
            /\ thread[t].copy.ident = row.ident /\ thread[t].copy.seen = row.seen
            /\ thread[t].copy.prep = row.prep /\ thread[t].copy.start = row.start
            /\ thread[t].copy.rearms = row.rearms /\ thread[t].copy.parked = row.parked
        BY <1>1 DEF Stands, Same
      <3>2. PICK c : c = thread[t].copy
        OBVIOUS
      <3>3. /\ next.svc = row.svc /\ next.role = row.role /\ next.ident = row.ident
            /\ next.seen = row.seen /\ next.prep = row.prep /\ next.start = row.start
            /\ next.rearms = row.rearms /\ next.parked = row.parked
        BY <1>1, <3>1, <3>2 DEF LeaseRow, Row
      <3>. HIDE DEF next
      <3>4. Same(next, row')
        BY <1>1, <1>2, <2>1, <3>3 DEF Merged, Same, Row, Later
      <3>. QED BY <2>3, <3>4 DEF Stands
    <2>5. Exclusive(t)
      BY <1>1, MayWrite
    <2>6. RowMoves(t) /\ LeavesOnRequest(row')
      BY <2>2, <2>3, <2>5 DEF RowMoves, Remembers, LeavesOnRequest
    <2>7. Asked(t, row')
      BY <1>1, <2>2, <2>3 DEF Asked
    <2>8. (lock' = t \/ boot # {}) /\ "return" \notin Owner \cup {"fail"}
      BY <1>1, <1>4, SelfFits DEF Fits, WriteGoto, Owner
    <2>. HIDE DEF next
    <2>. QED BY <1>1, <1>4, <2>4, <2>6, <2>7, <2>8, WriteGoes
  <1>. QED BY <1>3, <1>4 DEF Releasing, Refused, dbVars

LEMMA ReturnLocks ==
    ASSUME Serialised, IInv, LockInv, NEW t \in Thread, Return(t)
    PROVE  LockInv'
  <1>1. /\ boot' = boot /\ row' = row /\ thread[t].pc \in Leaving /\ thread[t].pc # "idle"
        /\ Stands(thread[t].copy, row)
    BY SelfFits DEF Return, Leaving, Returning, Holding, dbVars
  <1>2. \E pc \in {"returned", "returnfail"} : Goto(t, pc, thread[t].copy, thread[t].why)
    BY DEF Return
  <1>. QED BY <1>1, <1>2, ReleaseGoes DEF Returning

LEMMA ReturnedLocks ==
    ASSUME Serialised, IInv, LockInv, NEW t \in Thread, Returned(t)
    PROVE  LockInv'
  <1>. DEFINE gone == [thread[t].copy EXCEPT !.inst = "RELEASED", !.pr = FALSE,
                                             !.deadline = FALSE, !.role = NoRole]
  <1>1. /\ boot' = boot /\ thread[t].pc \in Leaving /\ thread[t].pc # "idle"
        /\ Stands(thread[t].copy, row) /\ thread[t].copy \in LeaseRow /\ row \in Row
        /\ Asked(t, row) /\ (lock = t \/ boot # {})
    BY SelfFits DEF Returned, Leaving, Returning, Holding, Fits, Reclaiming
  <1>2. Exclusive(t)
    BY <1>1, MayWrite
  <1>3. CASE row' = row /\ (Goto(t, "reclaimerr", row, thread[t].why) \/ End(t))
    BY <1>1, <1>3, ReleaseErrors
  <1>4. ASSUME NEW o, Commit(gone, o), WriteEnd(t)
        PROVE  LockInv'
    <2>1. gone \in Row /\ gone.inst = "RELEASED" /\ ~gone.pr
      <3>1. PICK c : c = thread[t].copy
        OBVIOUS
      <3>2. [c EXCEPT !.inst = "RELEASED", !.pr = FALSE, !.deadline = FALSE, !.role = NoRole] \in Row
        BY <1>1, <3>1, ZenonT(60) DEF LeaseRow, Row, InstanceState, AnyRole
      <3>. QED BY <1>1, <3>1, <3>2 DEF LeaseRow, Row
    <2>. HIDE DEF gone
    <2>2. row'.inst = "RELEASED" /\ ~row'.pr
      BY <1>4, <2>1 DEF Commit, Merged, UnderReclaim, Row
    <2>3. RowMoves(t) /\ LeavesOnRequest(row')
      BY <1>1, <1>2, <2>2 DEF RowMoves, Remembers, LeavesOnRequest, Asked, Serialised
    <2>. QED BY <1>1, <1>4, <2>3, WriteEnded
  <1>5. ASSUME NEW o, Commit(thread[t].copy, o),
               WriteEnd(t) \/ WriteGoto(t, "reclaimerr", row', thread[t].why)
        PROVE  LockInv'
    <2>1. PICK c \in LeaseRow : c = thread[t].copy
      BY <1>1
    <2>2. c.inst = row.inst /\ (c.inst = "RELEASED" => ~c.pr)
      BY <1>1, <2>1 DEF Stands, Same, LockInv, LeavesOnRequest
    <2>3. RowMoves(t) /\ LeavesOnRequest(row') /\ (row.pr => row'.pr)
      BY <1>2, <1>5, <2>1, <2>2, CommitFits
    <2>4. CASE WriteGoto(t, "reclaimerr", row', thread[t].why)
      <3>1. Asked(t, row')
        BY <1>1, <2>3, StaysAsked
      <3>2. ~Holding(At("reclaimerr", row', thread[t].why)) /\ lock' = lock
        BY <2>4 DEF Holding, At, Owner, Returning, WriteGoto
      <3>3. "reclaimerr" \notin Owner \cup {"fail"}
        BY DEF Owner
      <3>. QED BY <1>1, <2>3, <2>4, <3>1, <3>2, <3>3, WriteGoes
    <2>. QED BY <1>1, <1>5, <2>3, <2>4, WriteEnded
  <1>6. CASE thread[t].pc = "returned"
    BY <1>3, <1>4, <1>6 DEF Returned, Refused, dbVars
  <1>7. CASE thread[t].pc = "returnfail"
    BY <1>3, <1>5, <1>7 DEF Returned, Refused, dbVars
  <1>. QED BY <1>6, <1>7 DEF Returned

-----------------------------------------------------------------------------
(***************************************************************************)
(* The steps of a reconcile round.                                         *)
(***************************************************************************)
LEMMA ReclaimStepLocks ==
    ASSUME Serialised, IInv, LockInv, NEW t \in Thread, ReclaimStep(t)
    PROVE  LockInv'
  <1>1. boot' = boot /\ row' = row /\ thread[t].pc # "idle"
    BY DEF ReclaimStep, dbVars
  <1>2. Asked(t, row)
    BY <1>1, SelfFits DEF ReclaimStep, Fits, Reclaiming
  <1>3. End(t) \/ (MayLock(t) /\ \E pc \in {"release", "finish", "drain"} : Hold(t, pc, row, "reclaim"))
    BY DEF ReclaimStep
  <1>. QED BY <1>1, <1>2, <1>3, Ended, HoldsRow

LEMMA UpdateStepLocks ==
    ASSUME Serialised, IInv, LockInv, NEW t \in Thread, UpdateStep(t)
    PROVE  LockInv'
  <1>1. boot' = boot /\ row' = row /\ thread[t].pc # "idle"
    BY DEF UpdateStep, dbVars
  <1>2. End(t) \/ (MayLock(t) /\ Hold(t, "drain", row, "plain"))
    BY DEF UpdateStep
  <1>3. ~Releases("plain") /\ "drain" \notin {"reclaim", "revoked"} \cup Leaving
    BY DEF Releases, Leaving, Returning
  <1>. QED BY <1>1, <1>2, <1>3, Ended, HoldsRow

LEMMA ProbeLocks ==
    ASSUME Serialised, IInv, LockInv, NEW t \in Thread, Probe(t)
    PROVE  LockInv'
  <1>1. boot' = boot /\ row' = row /\ lock' = lock /\ thread[t].pc = "probe"
        /\ thread[t] \in Busy /\ Fits(t, thread[t], lock, boot, row)
    BY SelfType DEF Probe, dbVars, LockInv, IInv
  <1>2. PICK x : /\ thread' = [thread EXCEPT ![t] = x]
                 /\ x.pc \in {"act", "unreach"} /\ x.copy = thread[t].copy
                 /\ x.fresh = thread[t].fresh
                 /\ x.why \in Phase \cup {thread[t].why}
    <2>1. thread[t].copy.ident \in Ident
      BY <1>1 DEF Busy, LeaseRow
    <2>2. CASE thread' = [thread EXCEPT ![t].pc = "act", ![t].why = proc[thread[t].copy.ident].phase]
      <3>1. PICK w \in Phase : w = proc[thread[t].copy.ident].phase
        BY <2>1 DEF IInv, NodeOK
      <3>2. thread' = [thread EXCEPT ![t] = [thread[t] EXCEPT !.pc = "act", !.why = w]]
        BY <2>2, <3>1 DEF IInv, ControlOK
      <3>3. PICK x : x = [thread[t] EXCEPT !.pc = "act", !.why = w]
        OBVIOUS
      <3>4. x.pc = "act" /\ x.copy = thread[t].copy /\ x.fresh = thread[t].fresh /\ x.why = w
        BY <1>1, <3>3 DEF Busy
      <3>. QED BY <3>1, <3>2, <3>3, <3>4
    <2>3. CASE thread' = [thread EXCEPT ![t].pc = "unreach"]
      <3>1. thread' = [thread EXCEPT ![t] = [thread[t] EXCEPT !.pc = "unreach"]]
        BY <2>3 DEF IInv, ControlOK
      <3>2. PICK x : x = [thread[t] EXCEPT !.pc = "unreach"]
        OBVIOUS
      <3>3. x.pc = "unreach" /\ x.copy = thread[t].copy /\ x.fresh = thread[t].fresh
            /\ x.why = thread[t].why
        BY <1>1, <3>2 DEF Busy
      <3>. QED BY <3>1, <3>2, <3>3
    <2>. QED BY <2>2, <2>3 DEF Probe
  <1>3. ~Holding(x) /\ x.pc \notin Owner \cup Leaving \cup {"fail"}
    BY <1>2 DEF Holding, Owner, Leaving, Returning
  <1>4. Reclaiming(x) => Reclaiming(thread[t])
    BY <1>2 DEF Reclaiming, Leaving, Returning, Releases, Phase
  <1>5. Fits(t, x, lock, boot, row)
    BY <1>1, <1>2, <1>3, <1>4 DEF Fits
  <1>. QED BY <1>1, <1>2, <1>5, Moves DEF LockMoves

LEMMA UnreachLocks ==
    ASSUME Serialised, IInv, LockInv, NEW t \in Thread, Unreach(t)
    PROVE  LockInv'
  <1>1. boot' = boot /\ row' = row /\ thread[t].pc # "idle"
    BY DEF Unreach, dbVars
  <1>2. thread[t].fresh => thread[t].copy = row
    BY <1>1, SelfFits DEF Fits
  <1>3. \/ End(t)
        \/ MayLock(t) /\ thread[t].fresh /\ \E why \in {"", "reg"} : Hold(t, "lost", thread[t].copy, why)
    BY DEF Unreach
  <1>4. /\ \A why \in {"", "reg"} : ~Releases(why)
        /\ "lost" \notin {"reclaim", "revoked"} \cup Leaving
    BY DEF Releases, Leaving, Returning
  <1>. QED BY <1>1, <1>2, <1>3, <1>4, Ended, HoldsRow

LEMMA LostLocks ==
    ASSUME Serialised, IInv, LockInv, NEW t \in Thread, Lost(t)
    PROVE  LockInv'
  <1>. DEFINE next == [thread[t].copy EXCEPT !.inst = "LOST"]
  <1>1. /\ boot' = boot /\ thread[t].pc \in Owner /\ thread[t].pc # "idle"
        /\ thread[t].copy \in LeaseRow
    BY SelfFits DEF Lost, Owner
  <1>2. next \in LeaseRow /\ next.inst = "LOST"
    <2>1. PICK c : c = thread[t].copy
      OBVIOUS
    <2>2. [c EXCEPT !.inst = "LOST"] \in LeaseRow
      BY <1>1, <2>1 DEF LeaseRow, Row, HasUpdate, InstanceState
    <2>. QED BY <1>1, <2>1, <2>2 DEF LeaseRow, Row
  <1>. HIDE DEF next
  <1>3. (End(t) /\ row' = row) \/ (WriteEnd(t) /\ \E o : Commit(next, o))
    BY DEF Lost, Refused, dbVars, next
  <1>. QED BY <1>1, <1>2, <1>3, Ended, HolderWrites

LEMMA ActExitedLocks ==
    ASSUME Serialised, IInv, LockInv, NEW t \in Thread, ActExited(t)
    PROVE  LockInv'
  <1>1. boot' = boot /\ row' = row /\ thread[t].pc # "idle"
    BY DEF ActExited, Answered, dbVars
  <1>2. thread[t].fresh => thread[t].copy = row
    BY <1>1, SelfFits DEF Fits
  <1>3. \/ End(t)
        \/ MayLock(t) /\ thread[t].fresh /\ Hold(t, "fail", thread[t].copy, "")
    BY DEF ActExited
  <1>4. ~Releases("") /\ "fail" \notin {"reclaim", "revoked"} \cup Leaving
    BY DEF Releases, Leaving, Returning
  <1>. QED BY <1>1, <1>2, <1>3, <1>4, Ended, HoldsRow

LEMMA ActLostLocks ==
    ASSUME Serialised, IInv, LockInv, NEW t \in Thread, ActLost(t)
    PROVE  LockInv'
  <1>. DEFINE next == RecoveredRow(thread[t].copy)
  <1>1. /\ boot' = boot /\ thread[t].pc # "idle" /\ thread[t].copy \in LeaseRow
    BY SelfFits DEF ActLost, Answered
  <1>2. next \in LeaseRow /\ next.inst = "PREPARING"
    <2>1. PICK c \in LeaseRow : c = thread[t].copy
      BY <1>1
    <2>2. RecoveredRow(c) \in LeaseRow
      BY BuiltRows
    <2>3. RecoveredRow(c).inst = "PREPARING"
      BY DEF RecoveredRow, LeaseRow, Row
    <2>. QED BY <2>1, <2>2, <2>3
  <1>. HIDE DEF next
  <1>3. CASE End(t) /\ row' = row
    BY <1>1, <1>3, Ended
  <1>4. CASE Goto(t, "finish", thread[t].copy, "") /\ row' = row
    <2>1. ~Releases("")
      BY DEF Releases
    <2>. QED BY <1>1, <1>4, <2>1, GoesAway
  <1>5. ASSUME NEW o, Free, Commit(next, o), WriteGoto(t, "prepare", next, "")
        PROVE  LockInv'
    <2>1. RowMoves(t) /\ LeavesOnRequest(row')
      BY <1>1, <1>2, <1>5, MayWrite, CommitFits DEF Free, MayLock
    <2>2. ~Holding(At("prepare", next, "")) /\ ~Reclaiming(At("prepare", next, ""))
      BY DEF Holding, Reclaiming, Releases, At, Owner, Leaving, Returning
    <2>3. "prepare" \notin Owner \cup Leaving \cup {"fail"}
      BY DEF Owner, Leaving, Returning
    <2>. QED BY <1>1, <1>5, <2>1, <2>2, <2>3, WriteGoes
  <1>. QED BY <1>3, <1>4, <1>5 DEF ActLost, dbVars, next

LEMMA ActFailedLocks ==
    ASSUME Serialised, IInv, LockInv, NEW t \in Thread, ActFailed(t)
    PROVE  LockInv'
  <1>1. boot' = boot /\ row' = row /\ thread[t].pc # "idle"
    BY DEF ActFailed, Answered, dbVars
  <1>2. \/ End(t)
        \/ \E pc \in {"settle", "rearm", "start"}, why \in {"", "retry"} :
              Goto(t, pc, thread[t].copy, why)
    BY DEF ActFailed
  <1>3. ~Releases("") /\ ~Releases("retry")
    BY DEF Releases
  <1>. QED BY <1>1, <1>2, <1>3, Ended, GoesAway

LEMMA ActStartingLocks ==
    ASSUME Serialised, IInv, LockInv, NEW t \in Thread, ActStarting(t)
    PROVE  LockInv'
  <1>1. boot' = boot /\ row' = row /\ thread[t].pc # "idle"
    BY DEF ActStarting, Answered, dbVars
  <1>2. \/ End(t)
        \/ MayLock(t) /\ Hold(t, "health", row, "resume")
        \/ MayLock(t) /\ Hold(t, "fail", thread[t].copy, "") /\ thread[t].copy.inst = "IDLE"
    BY DEF ActStarting
  <1>3. CASE MayLock(t) /\ Hold(t, "health", row, "resume")
    <2>1. ~Releases("resume") /\ "health" \notin {"reclaim", "revoked"} \cup Leaving
      BY DEF Releases, Leaving, Returning
    <2>. QED BY <1>1, <1>3, <2>1, HoldsRow
  <1>4. CASE MayLock(t) /\ Hold(t, "fail", thread[t].copy, "") /\ thread[t].copy.inst = "IDLE"
    <2>1. ~Holding(At("fail", thread[t].copy, "")) /\ ~Reclaiming(At("fail", thread[t].copy, ""))
      BY DEF Holding, Reclaiming, Releases, At, Owner, Leaving, Returning
    <2>2. lock' = t /\ "fail" \notin Leaving
      BY <1>4 DEF Hold, Leaving, Returning
    <2>. QED BY <1>1, <1>4, <2>1, <2>2, Goes
  <1>. QED BY <1>1, <1>2, <1>3, <1>4, Ended

LEMMA ActOnLocks ==
    ASSUME Serialised, IInv, LockInv, NEW t \in Thread, ActOn(t)
    PROVE  LockInv'
  <1>1. boot' = boot /\ row' = row /\ thread[t].pc # "idle"
    BY DEF ActOn, Answered, dbVars
  <1>2. \/ End(t)
        \/ \E pc \in {"prepare", "settle", "finish"} : Goto(t, pc, thread[t].copy, "")
    BY DEF ActOn
  <1>3. ~Releases("")
    BY DEF Releases
  <1>. QED BY <1>1, <1>2, <1>3, Ended, GoesAway

LEMMA SettleLocks ==
    ASSUME Serialised, IInv, LockInv, NEW t \in Thread, Settle(t)
    PROVE  LockInv'
  <1>1. boot' = boot /\ row' = row /\ thread[t].pc # "idle"
    BY DEF Settle, dbVars
  <1>2. \/ End(t)
        \/ MayLock(t) /\ \E pc \in {"fail", "drain", "restarting", "registering", "register"},
                            why \in {"settle", "plain"} : Hold(t, pc, row, why)
    BY DEF Settle
  <1>3. /\ ~Releases("settle") /\ ~Releases("plain")
        /\ \A pc \in {"fail", "drain", "restarting", "registering", "register"} :
              pc \notin {"reclaim", "revoked"} \cup Leaving
    BY DEF Releases, Leaving, Returning
  <1>. QED BY <1>1, <1>2, <1>3, Ended, HoldsRow

LEMMA RearmLocks ==
    ASSUME Serialised, IInv, LockInv, NEW t \in Thread, Rearm(t)
    PROVE  LockInv'
  <1>. DEFINE next == [row EXCEPT !.start = 0, !.rearms = @ + 1, !.parked = FALSE]
  <1>1. boot' = boot /\ thread[t].pc # "idle" /\ MayLock(t)
    BY DEF Rearm, Free, MayLock
  <1>2. next \in LeaseRow /\ next.inst = row.inst
    <2>1. row.rearms + 1 \in Nat
      BY DEF IInv, RowOK, LeaseRow, Row
    <2>. QED BY <2>1 DEF IInv, RowOK, LeaseRow, Row, HasUpdate
  <1>. HIDE DEF next
  <1>3. (End(t) /\ row' = row) \/ (row.inst = "IDLE" /\ WriteEnd(t) /\ \E o : Commit(next, o))
    BY DEF Rearm, Parked, dbVars, next
  <1>. QED BY <1>1, <1>2, <1>3, Ended, MayWrite, CommitFits, WriteEnded

LEMMA RevokedLocks ==
    ASSUME Serialised, IInv, LockInv, NEW t \in Thread, Revoked(t)
    PROVE  LockInv'
  <1>1. boot' = boot /\ row' = row /\ thread[t].pc = "revoked" /\ thread[t].pc # "idle"
    BY DEF Revoked, dbVars
  <1>2. Asked(t, row)
    BY <1>1, SelfFits DEF Fits, Reclaiming
  <1>3. End(t) \/ (MayLock(t) /\ Hold(t, "drain", row, "revoke"))
    BY DEF Revoked, Free, MayLock
  <1>. QED BY <1>1, <1>2, <1>3, Ended, HoldsRow

LEMMA AllocateLocks ==
    ASSUME Serialised, IInv, LockInv, NEW t \in Thread, Allocate(t)
    PROVE  LockInv'
  <1>. DEFINE next == [thread[t].copy EXCEPT !.inst = "PREPARING"]
  <1>1. /\ boot' = boot /\ thread[t].pc \in Owner /\ thread[t].pc # "idle"
        /\ thread[t].copy \in LeaseRow
    BY SelfFits DEF Allocate, Owner
  <1>2. next \in LeaseRow /\ next.inst = "PREPARING"
    <2>1. PICK c : c = thread[t].copy
      OBVIOUS
    <2>2. [c EXCEPT !.inst = "PREPARING"] \in LeaseRow
      BY <1>1, <2>1 DEF LeaseRow, Row, HasUpdate, InstanceState
    <2>. QED BY <1>1, <2>1, <2>2 DEF LeaseRow, Row
  <1>. HIDE DEF next
  <1>3. CASE End(t) /\ row' = row
    BY <1>1, <1>3, Ended
  <1>4. ASSUME NEW o, Commit(next, o), WriteGoto(t, "prepare", next, "resume")
        PROVE  LockInv'
    <2>1. RowMoves(t) /\ LeavesOnRequest(row')
      BY <1>1, <1>2, <1>4, MayWrite, CommitFits
    <2>2. ~Holding(At("prepare", next, "resume")) /\ ~Reclaiming(At("prepare", next, "resume"))
      BY DEF Holding, Reclaiming, Releases, At, Owner, Leaving, Returning
    <2>3. "prepare" \notin Owner \cup Leaving \cup {"fail"}
      BY DEF Owner, Leaving, Returning
    <2>. QED BY <1>1, <1>4, <2>1, <2>2, <2>3, WriteGoes
  <1>. QED BY <1>3, <1>4 DEF Allocate, dbVars, next

-----------------------------------------------------------------------------
(***************************************************************************)
(* The steps that begin an operation.                                      *)
(***************************************************************************)
LEMMA ReconcileLocks ==
    ASSUME Serialised, IInv, LockInv, NEW t \in Thread, Reconcile(t)
    PROVE  LockInv'
  <1>1. /\ boot' = boot /\ boot = {} /\ row' = row /\ lock' = lock /\ Rounds(t)
    BY DEF Reconcile, dbVars, Booted, Serialised, Rounds
  <1>2. PICK pc \in {"reclaim", "update", "probe"} :
            /\ thread' = [thread EXCEPT ![t] = [At(pc, row, "") EXCEPT !.fresh = TRUE]]
            /\ pc = "reclaim" => row.pr
    BY DEF Reconcile, LockInv, LeavesOnRequest
  <1>3. PICK x : x = [At(pc, row, "") EXCEPT !.fresh = TRUE]
    OBVIOUS
  <1>4. x.pc = pc /\ x.copy = row /\ x.why = ""
    BY <1>3 DEF At
  <1>5. ~Holding(x) /\ x.pc \notin Owner \cup Leaving \cup {"fail"}
    BY <1>2, <1>4 DEF Holding, Owner, Leaving, Returning
  <1>6. Reclaiming(x) => Asked(t, row)
    BY <1>1, <1>2, <1>4 DEF Reclaiming, Leaving, Returning, Releases, Asked, Rounds
  <1>7. Fits(t, x, lock, boot, row)
    BY <1>1, <1>4, <1>5, <1>6 DEF Fits
  <1>. QED BY <1>1, <1>2, <1>3, <1>7, Moves DEF LockMoves

LEMMA ResumeAddLocks ==
    ASSUME Serialised, IInv, LockInv, NEW t \in Thread, ResumeAdd(t)
    PROVE  LockInv'
  <1>1. boot' = boot /\ boot = {} /\ row' = row /\ MayLock(t) /\ Hold(t, "allocate", row, "")
    BY DEF ResumeAdd, dbVars, Booted, Free, MayLock
  <1>2. ~Releases("") /\ "allocate" \notin {"reclaim", "revoked"} \cup Leaving
    BY DEF Releases, Leaving, Returning
  <1>. QED BY <1>1, <1>2, HoldsRow

LEMMA PlannerStartLocks ==
    ASSUME Serialised, IInv, LockInv, NEW t \in Thread, PlannerStart(t)
    PROVE  LockInv'
  <1>1. boot' = boot /\ boot = {} /\ row' = row
    BY DEF PlannerStart, dbVars, Booted, Begin
  <1>2. \E copy : Goto(t, "start", copy, "planner")
    BY DEF PlannerStart
  <1>3. ~Releases("planner")
    BY DEF Releases
  <1>. QED BY <1>1, <1>2, <1>3, GoesAway

LEMMA PlainDrainLocks ==
    ASSUME Serialised, IInv, LockInv, NEW t \in Thread, PlainDrain(t)
    PROVE  LockInv'
  <1>1. boot' = boot /\ boot = {} /\ row' = row /\ Goto(t, "drain", row, "plain")
    BY DEF PlainDrain, dbVars, Booted, Begin
  <1>2. ~Releases("plain")
    BY DEF Releases
  <1>. QED BY <1>1, <1>2, GoesAway

LEMMA RevokeLocks ==
    ASSUME Serialised, IInv, LockInv, NEW t \in Thread, Revoke(t)
    PROVE  LockInv'
  <1>. DEFINE x == At("revoked", row, "revoke")
  <1>1. /\ boot' = boot /\ boot = {} /\ lock' = lock /\ row \in Row /\ row.inst # "RELEASED"
        /\ row' = RequestRelease(row) /\ "revoke" \in Caller
    BY DEF Revoke, Booted, Begin, IInv, RowOK, LeaseRow
  <1>2. RowMoves(t) /\ LeavesOnRequest(row') /\ Asked(t, row')
    BY <1>1, RequestStands DEF RowMoves, LockInv, Asked
  <1>3. x.pc = "revoked" /\ ~x.fresh
    BY DEF At
  <1>4. ~Holding(x)
    BY DEF At, Holding, Owner, Returning
  <1>5. Fits(t, x, lock', boot', row')
    <2>. HIDE DEF x
    <2>. QED BY <1>1, <1>2, <1>3, <1>4 DEF Fits, Owner, Leaving, Returning
  <1>6. CASE row.pr /\ thread' = [thread EXCEPT ![t] = x]
    <2>1. row' = row
      BY <1>1, <1>6 DEF RequestRelease
    <2>. HIDE DEF x
    <2>. QED BY <1>1, <1>5, <1>6, <2>1, Moves DEF LockMoves
  <1>7. CASE thread' = Outdated(t, x)
    <2>. HIDE DEF x
    <2>. QED BY <1>1, <1>2, <1>5, <1>7, Writes DEF LockMoves
  <1>. QED BY <1>6, <1>7 DEF Revoke

LEMMA CapacityUpdatedLocks ==
    ASSUME Serialised, IInv, LockInv, NEW t \in Thread, CapacityUpdated(t)
    PROVE  LockInv'
  <1>. DEFINE queued == [row EXCEPT !.pu = [ident |-> issued, at |-> issued]]
              moved  == [RebasedRow EXCEPT !.ident = issued, !.seen = issued]
              next   == IF row.inst \in {"IDLE", "LOST"}
                        THEN [moved EXCEPT !.inst = "PREPARING", !.prep = 0, !.start = 0,
                                           !.rearms = 0, !.parked = FALSE,
                                           !.worker = NoWorker]
                        ELSE moved
  <1>1. /\ boot' = boot /\ boot = {} /\ MayLock(t) /\ Exclusive(t)
        /\ row \in LeaseRow /\ issued \in Ident /\ issued \in Nat
        /\ row.inst \notin {"RELEASING", "RELEASED"}
    BY SomeIdent DEF CapacityUpdated, Booted, Begin, Free, MayLock, Exclusive, IInv, RowOK, NodeOK
  <1>2. queued \in LeaseRow /\ queued.inst = row.inst
    BY <1>1 DEF LeaseRow, Row, HasUpdate
  <1>3. RebasedRow \in LeaseRow /\ RebasedRow.inst = row.inst
    <2>1. CASE HasUpdate(row)
      BY <1>1, <2>1 DEF RebasedRow, LeaseRow, Row, HasUpdate, NoUpdate
    <2>2. CASE ~HasUpdate(row)
      BY <1>1, <2>2 DEF RebasedRow
    <2>. QED BY <2>1, <2>2
  <1>4. moved \in LeaseRow /\ moved.inst = row.inst
    BY <1>1, <1>3 DEF LeaseRow, Row, HasUpdate
  <1>5. next \in LeaseRow /\ next.inst \in {row.inst, "PREPARING"}
    <2>. HIDE DEF moved
    <2>. QED BY <1>4 DEF LeaseRow, Row, HasUpdate, NoWorker, InstanceState
  <1>. HIDE DEF queued, moved, next
  <1>6. ASSUME Commit(queued, ops), WriteHold(t, "drain", queued, "plain")
        PROVE  LockInv'
    <2>1. RowMoves(t) /\ LeavesOnRequest(row')
      BY <1>1, <1>2, <1>6, CommitFits
    <2>2. ~Holding(At("drain", queued, "plain")) /\ ~Reclaiming(At("drain", queued, "plain"))
      BY DEF Holding, Reclaiming, Releases, At, Owner, Leaving, Returning
    <2>3. "drain" \notin Owner \cup Leaving \cup {"fail"}
      BY DEF Owner, Leaving, Returning
    <2>. QED BY <1>1, <1>6, <2>1, <2>2, <2>3, WriteGoes
  <1>7. ASSUME Commit(next, ops), WriteEnd(t)
        PROVE  LockInv'
    <2>1. RowMoves(t) /\ LeavesOnRequest(row')
      BY <1>1, <1>5, <1>7, CommitFits
    <2>. QED BY <1>1, <1>7, <2>1, WriteEnded
  <1>. QED BY <1>6, <1>7 DEF CapacityUpdated, queued, moved, next

LEMMA ReofferLocks ==
    ASSUME Serialised, IInv, LockInv, NEW t \in Thread, Reoffer(t)
    PROVE  LockInv'
  <1>1. /\ boot' = boot /\ boot = {} /\ MayLock(t) /\ Exclusive(t) /\ "offer" \in Caller
        /\ WriteHold(t, "allocate", row', "")
    BY DEF Reoffer, Booted, Begin, Free, MayLock, Exclusive
  <1>2. row'.inst = "ALLOCATING" /\ ~row.pr
    BY DEF Reoffer, AcceptsReoffer, Reoffered, FreshRow
  <1>3. RowMoves(t) /\ LeavesOnRequest(row')
    BY <1>1, <1>2 DEF RowMoves, Remembers, LeavesOnRequest
  <1>4. ~Reclaiming(At("allocate", row', "")) /\ lock' = t
    BY <1>1 DEF Reclaiming, Releases, At, Leaving, Returning, WriteHold
  <1>5. "allocate" \notin Leaving \cup {"fail"} /\ Stands(row', row')
    BY DEF Leaving, Returning, Stands, Same
  <1>. QED BY <1>1, <1>3, <1>4, <1>5, WriteGoes

-----------------------------------------------------------------------------
(***************************************************************************)
(* The steps outside any operation.                                        *)
(***************************************************************************)

\* A write by a call that is one transaction.
LEMMA OutdateAllLocks ==
    ASSUME Serialised, IInv, LockInv, OutdateAll, RowMoves(NoThread), LeavesOnRequest(row'),
           lock' = lock, boot' = boot
    PROVE  LockInv'
  <1>1. ASSUME NEW u \in Thread
        PROVE  Fits(u, thread'[u], lock', boot', row')
    <2>1. u # NoThread /\ LockMoves(NoThread)
      BY LifecycleAssumption DEF LockMoves
    <2>2. thread'[u] = [thread[u] EXCEPT !.fresh = FALSE]
      BY DEF OutdateAll
    <2>. QED BY <2>1, <2>2, OthersFit
  <1>. QED BY <1>1 DEF LockInv

LEMMA OperatorLocks ==
    ASSUME Serialised, IInv, LockInv, Operator
    PROVE  LockInv'
  <1>1. CASE RequestReclaim
    <2>1. row' = RequestRelease(row) /\ lock' = lock /\ boot' = boot /\ OutdateAll /\ row \in Row
      BY <1>1 DEF RequestReclaim, IInv, RowOK, LeaseRow
    <2>2. LeavesOnRequest(row')
      BY <2>1, RequestStands DEF LockInv
    <2>. QED BY <2>1, <2>2, OutdateAllLocks DEF RowMoves
  <1>2. CASE RequeueService
    <2>. DEFINE next == [row EXCEPT !.start = 0, !.rearms = 0, !.parked = FALSE]
    <2>1. lock' = lock /\ boot' = boot /\ OutdateAll /\ Exclusive(NoThread) /\ row.inst = "IDLE"
      BY <1>2 DEF RequeueService, Booted, Free, Exclusive, Parked
    <2>2. next \in LeaseRow /\ next.inst = row.inst
      BY DEF IInv, RowOK, LeaseRow, Row, HasUpdate
    <2>3. Commit(next, Put("start", row.ident, "open"))
      BY <1>2 DEF RequeueService
    <2>. HIDE DEF next
    <2>4. RowMoves(NoThread) /\ LeavesOnRequest(row')
      BY <2>1, <2>2, <2>3, CommitFits
    <2>. QED BY <2>1, <2>4, OutdateAllLocks
  <1>. QED BY <1>1, <1>2 DEF Operator

LEMMA CancelLocks ==
    ASSUME Serialised, IInv, LockInv, NEW t \in Thread, Cancel(t)
    PROVE  LockInv'
  BY Ended DEF Cancel, dbVars

LEMMA RecoveryLocks ==
    ASSUME Serialised, IInv, LockInv, Recovery
    PROVE  LockInv'
  <1>1. CASE Crash
    <2>1. \A t \in Thread : Fits(t, thread'[t], lock', boot', row')
      BY <1>1, IdleFits DEF Crash
    <2>2. row' = row /\ "listen" \in boot'
      BY <1>1 DEF Crash, dbVars, BootStage
    <2>. QED BY <2>1, <2>2 DEF LockInv
  <1>2. CASE Listen
    <2>1. \A t \in Thread : Fits(t, thread'[t], lock', boot', row')
      BY <1>2, IdleFits DEF Listen, IdleThread
    <2>2. row' = row /\ boot' = {}
      BY <1>2 DEF Listen, dbVars
    <2>. QED BY <2>1, <2>2 DEF LockInv
  <1>3. ASSUME NEW kind \in OpKind, ResumeOpenOperation(kind)
        PROVE  LockInv'
    <2>1. /\ row' = row /\ lock' = lock /\ "listen" \in boot' /\ boot' # {}
          /\ \A t \in Thread : thread[t] = Idle
      BY <1>3 DEF ResumeOpenOperation, dbVars, IdleThread, LockInv, OpKind, Goto
    <2>2. CASE thread' = thread
      <3>1. \A t \in Thread : Fits(t, thread'[t], lock', boot', row')
        BY <2>1, <2>2, IdleFits
      <3>. QED BY <2>1, <3>1 DEF LockInv
    <2>3. CASE Resumable(kind) /\ Goto(Reconciler, ResumePlace(kind), row, "resume")
      <3>. DEFINE x == At(ResumePlace(kind), row, "resume")
      <3>1. /\ x.pc \in {"prepare", "start", "finish", "release"} /\ ~x.fresh
            /\ x.pc = "release" => kind = "release"
            /\ x.why = "resume"
        BY DEF At, ResumePlace, OpKind
      <3>2. x.pc = "release" => Asked(Reconciler, row)
        BY <2>3, <3>1 DEF Resumable, LockInv, LeavesOnRequest, Asked
      <3>3. thread' = [thread EXCEPT ![Reconciler] = x]
        BY <2>3 DEF Goto
      <3>. HIDE DEF x
      <3>4. ~Holding(x) /\ (Reclaiming(x) => x.pc = "release") /\ x.pc \notin Owner \cup {"fail"}
        BY <3>1 DEF Holding, Reclaiming, Releases, Owner, Leaving, Returning
      <3>5. Fits(Reconciler, x, lock', boot', row')
        BY <2>1, <3>1, <3>2, <3>4 DEF Fits
      <3>6. \A t \in Thread : Fits(t, thread'[t], lock', boot', row')
        BY <2>1, <3>3, <3>5, IdleFits DEF IInv, ControlOK
      <3>. QED BY <2>1, <3>6 DEF LockInv
    <2>. QED BY <1>3, <2>2, <2>3 DEF ResumeOpenOperation
  <1>. QED BY <1>1, <1>2, <1>3 DEF Recovery

LEMMA InitLocks == Init => LockInv
  BY IdleFits DEF Init, LockInv, LeavesOnRequest, FreshRow

-----------------------------------------------------------------------------
(***************************************************************************)
(* What the place of a goroutine says of the goroutine alone.              *)
(***************************************************************************)
RoundPlace == {"reclaim", "update", "probe", "unreach", "lost", "act", "settle", "rearm",
               "restarting", "finish", "drained", "drainfail"}

StartPlace == {"launch", "health", "healthy", "registering", "register", "open", "serve", "fail"}

\* What the service is at that place, in the copy.
ServiceAt(pc, svc) ==
    /\ pc \in {"launch", "health", "healthy"}   => svc = "STARTING"
    /\ pc = "restarting"                        => svc = "FAILED"
    /\ pc = "registering"                       => svc = "HEALTHY"
    /\ pc \in {"register", "open", "serve"}     => svc \in {"REGISTERING", "SERVING"}
    /\ pc = "fail"                              => svc # "DRAINING"
    /\ pc \in {"drained", "drainfail"}          => svc = "DRAINING"
    /\ pc = "draincommit"                       => svc \notin {"NONE", "DRAINING"}

\* Only the reconcile loop and Recover look at instances on their own account;
\* elsewhere a start belongs to the planner.
Local(t, x) ==
    /\ x.pc \in RoundPlace \/ (x.why \in {"reclaim", "retry", "resume"} /\ x.pc # "prepare")
          => Rounds(t)
    /\ x.pc \in StartPlace \cup {"start"} /\ ~Rounds(t) => x.why = "planner"
    /\ x.pc = "start" => x.why \in {"planner", "retry", "resume"}
    /\ x.pc = "fail" /\ ~Rounds(t) => x.copy.svc \in LiveService
    /\ x.pc \in {"prepared", "prepfail"} => x.copy.inst = "PREPARING"
    /\ x.pc = "allocate" => x.copy.inst = "ALLOCATING"
    /\ ServiceAt(x.pc, x.copy.svc)

LocalInv == \A t \in Thread : Local(t, thread[t])

LEMMA LocalIdle == \A t : Local(t, Idle)
  BY DEF Local, ServiceAt, Idle, RoundPlace, StartPlace

\* A step of one goroutine keeps the others where they are.
LEMMA LocalStep ==
    ASSUME IInv, LocalInv, NEW t \in Thread, NEW x, Local(t, x),
           thread' = [thread EXCEPT ![t] = x] \/ thread' = Outdated(t, x)
    PROVE  LocalInv'
  <1>1. ASSUME NEW u \in Thread
        PROVE  Local(u, thread'[u])
    <2>1. CASE u = t
      BY <2>1 DEF IInv, ControlOK, Outdated
    <2>2. CASE u # t /\ thread' = [thread EXCEPT ![t] = x]
      <3>1. thread'[u] = thread[u]
        BY <2>2
      <3>. QED BY <3>1 DEF LocalInv
    <2>3. CASE u # t /\ thread' = Outdated(t, x)
      <3>1. PICK y \in Goroutine : y = thread[u]
        BY DEF IInv, ControlOK
      <3>2. thread'[u] = [y EXCEPT !.fresh = FALSE]
        BY <2>3, <3>1 DEF Outdated
      <3>3. thread'[u].pc = y.pc /\ thread'[u].copy = y.copy /\ thread'[u].why = y.why
        BY <3>2 DEF Goroutine, Busy, Resting
      <3>4. Local(u, y)
        BY <3>1 DEF LocalInv
      <3>. QED BY <3>3, <3>4 DEF Local
    <2>. QED BY <2>1, <2>2, <2>3
  <1>. QED BY <1>1 DEF LocalInv

LEMMA LocalEnds ==
    ASSUME IInv, LocalInv, NEW t \in Thread, End(t) \/ WriteEnd(t)
    PROVE  LocalInv'
  BY LocalIdle, LocalStep DEF End, WriteEnd

LEMMA LocalGoes ==
    ASSUME IInv, LocalInv, NEW t \in Thread, NEW pc, NEW copy, NEW why,
           \/ Goto(t, pc, copy, why) \/ Hold(t, pc, copy, why)
           \/ WriteGoto(t, pc, copy, why) \/ WriteHold(t, pc, copy, why),
           pc \in RoundPlace \/ (why \in {"reclaim", "retry", "resume"} /\ pc # "prepare")
              => Rounds(t),
           pc \in StartPlace \cup {"start"} /\ ~Rounds(t) => why = "planner",
           pc = "start" => why \in {"planner", "retry", "resume"},
           pc = "fail" /\ ~Rounds(t) => copy.svc \in LiveService,
           pc \in {"prepared", "prepfail"} => copy.inst = "PREPARING",
           pc = "allocate" => copy.inst = "ALLOCATING",
           ServiceAt(pc, copy.svc)
    PROVE  LocalInv'
  <1>1. Local(t, At(pc, copy, why))
    BY DEF Local, At
  <1>. QED BY <1>1, LocalStep DEF Goto, Hold, WriteGoto, WriteHold

LEMMA PrepareLocal ==
    ASSUME IInv, LocalInv, NEW t \in Thread, Prepare(t)
    PROVE  LocalInv'
  <1>1. \/ End(t)
        \/ row.inst = "PREPARING" /\ \E why \in Phase \cup {""} :
              Hold(t, "prepared", row, why) \/ Hold(t, "prepfail", row, why)
    BY DEF Prepare, IInv, NodeOK, RowOK, LeaseRow
  <1>2. ServiceAt("prepared", row.svc) /\ ServiceAt("prepfail", row.svc)
    BY DEF ServiceAt
  <1>. QED BY <1>1, <1>2, LocalEnds, LocalGoes DEF RoundPlace, StartPlace, Phase

LEMMA StartServiceLocal ==
    ASSUME IInv, LocalInv, NEW t \in Thread, StartService(t)
    PROVE  LocalInv'
  <1>. DEFINE next == [row EXCEPT !.role = thread[t].copy.role, !.svc = "STARTING", !.start = @ + 1]
  <1>1. Local(t, thread[t]) /\ thread[t].pc = "start"
    BY DEF LocalInv, StartService
  <1>2. End(t) \/ WriteHold(t, "launch", next, thread[t].why)
    BY DEF StartService
  <1>3. ServiceAt("launch", next.svc)
    BY DEF ServiceAt, IInv, RowOK, LeaseRow, Row
  <1>. HIDE DEF next
  <1>4. /\ thread[t].why \in {"reclaim", "retry", "resume"} => Rounds(t)
        /\ ~Rounds(t) => thread[t].why = "planner"
    BY <1>1 DEF Local, StartPlace
  <1>. QED BY <1>2, <1>3, <1>4, LocalEnds, LocalGoes DEF RoundPlace

\* A start goes from place to place with the copy it has, or one it has advanced.
LEMMA StartLocal ==
    ASSUME IInv, LocalInv, NEW t \in Thread, thread[t].pc \in StartPlace \cup {"restarting"},
           NEW pc \in StartPlace, NEW copy, NEW why,
           why = thread[t].why \/ (Rounds(t) /\ why \notin {"reclaim", "retry", "resume"}),
           Goto(t, pc, copy, why) \/ WriteGoto(t, pc, copy, why),
           copy.svc \in LiveService \/ (Rounds(t) /\ pc = "fail"), ServiceAt(pc, copy.svc)
    PROVE  LocalInv'
  <1>1. Local(t, thread[t])
    BY DEF LocalInv
  <1>2. /\ why \in {"reclaim", "retry", "resume"} => Rounds(t)
        /\ ~Rounds(t) => why = "planner"
    BY <1>1 DEF Local, StartPlace, RoundPlace
  <1>. QED BY <1>2, LocalGoes DEF RoundPlace, StartPlace

LEMMA StartStepsLocal ==
    ASSUME IInv, LocalInv, NEW t \in Thread, Launch(t) \/ Health(t) \/ Advance(t)
    PROVE  LocalInv'
  <1>. DEFINE c == thread[t].copy
              next == [c EXCEPT !.svc = NextService(thread[t].pc)]
  <1>1. ServiceAt(thread[t].pc, c.svc) /\ thread[t].pc \in StartPlace \cup {"restarting"}
    BY DEF LocalInv, Local, Launch, Health, Advance, StartPlace
  <1>2. CASE Launch(t) \/ Health(t)
    <2>1. c.svc = "STARTING"
      BY <1>1, <1>2 DEF ServiceAt, Launch, Health
    <2>2. \E pc \in {"health", "healthy", "fail"} : Goto(t, pc, c, thread[t].why)
      BY <1>2 DEF Launch, Health
    <2>. QED BY <1>1, <2>1, <2>2, StartLocal DEF ServiceAt, StartPlace, LiveService
  <1>3. CASE Advance(t)
    <2>1. PICK pc, svc : pc = NextPlace(thread[t].pc) /\ svc = NextService(thread[t].pc)
      OBVIOUS
    <2>2. svc \in LiveService /\ ServiceAt(pc, svc) /\ pc \in StartPlace
      BY <1>3, <2>1 DEF Advance, NextPlace, NextService, LiveService, ServiceAt, StartPlace
    <2>3. c \in Row
      BY <1>3, SelfType DEF IInv, LeaseRow, Advance
    <2>4. next.svc = svc
      BY <2>1, <2>3 DEF Row
    <2>5. End(t) \/ WriteGoto(t, pc, next, thread[t].why)
      BY <1>3, <2>1 DEF Advance
    <2>. HIDE DEF next
    <2>. QED BY <1>1, <2>2, <2>4, <2>5, LocalEnds, StartLocal
  <1>. QED BY <1>2, <1>3

LEMMA RegisterStepsLocal ==
    ASSUME IInv, LocalInv, NEW t \in Thread, Register(t) \/ Open(t) \/ Serve(t) \/ FailStart(t)
    PROVE  LocalInv'
  <1>. DEFINE c == thread[t].copy
              registered == [c EXCEPT !.worker = WorkerId(c.ident)]
  <1>1. CASE Serve(t) \/ FailStart(t)
    BY <1>1, LocalEnds DEF Serve, FailStart
  <1>2. CASE Register(t) \/ Open(t)
    <2>1. /\ c.svc \in {"REGISTERING", "SERVING"} /\ thread[t].pc \in StartPlace
          /\ c \in Row
      BY <1>2, SelfType DEF LocalInv, Local, ServiceAt, Register, Open, StartPlace, IInv, LeaseRow
    <2>2. registered.svc = c.svc
      BY <2>1 DEF Row
    <2>. HIDE DEF registered
    <2>3. \/ End(t) \/ Goto(t, "serve", c, thread[t].why)
          \/ Goto(t, "open", registered, thread[t].why)
          \/ thread[t].why = "settle" /\ Goto(t, "open", registered, "settled")
          \/ Goto(t, "fail", c, RouterFailure(thread[t].why))
      BY <1>2 DEF Register, Open, registered
    <2>4. /\ thread[t].why = "settle" => Rounds(t)
          /\ \/ RouterFailure(thread[t].why) = thread[t].why
             \/ Rounds(t) /\ RouterFailure(thread[t].why) = "reg"
      <3>1. ~Rounds(t) => thread[t].why = "planner"
        BY <2>1 DEF LocalInv, Local
      <3>. QED BY <3>1 DEF RouterFailure
    <2>. QED BY <2>1, <2>2, <2>3, <2>4, LocalEnds, StartLocal DEF ServiceAt, StartPlace, LiveService
  <1>. QED BY <1>1, <1>2

LEMMA DrainStepsLocal ==
    ASSUME IInv, LocalInv, NEW t \in Thread,
           BeginDrain(t) \/ DrainCommit(t) \/ ReclaimErr(t) \/ FinishDrain(t) \/ Drained(t) \/ DrainFail(t)
    PROVE  LocalInv'
  <1>1. Local(t, thread[t])
    BY DEF LocalInv
  <1>2. thread[t].pc # "prepare" /\ (thread[t].why = "reclaim" => Rounds(t))
        /\ (thread[t].why \in {"reclaim", "retry", "resume"} => Rounds(t))
    BY <1>1 DEF Local, BeginDrain, DrainCommit, ReclaimErr, FinishDrain, Drained, DrainFail
  <1>3. ASSUME NEW copy, DrainError(t, copy, thread[t].why)
        PROVE  LocalInv'
    <2>1. ServiceAt("reclaimerr", copy.svc)
      BY DEF ServiceAt
    <2>. QED BY <1>2, <1>3, <2>1, LocalEnds, LocalGoes DEF DrainError, RoundPlace, StartPlace
  <1>4. CASE BeginDrain(t)
    <2>. DEFINE copy == [row EXCEPT !.worker = ResolvedWorker(row)]
    <2>1. copy.svc = row.svc
      BY DEF IInv, RowOK, LeaseRow, Row
    <2>. HIDE DEF copy
    <2>2. \/ End(t) \/ DrainError(t, row, thread[t].why)
          \/ Hold(t, "release", row, thread[t].why)
          \/ row.svc \notin {"NONE", "DRAINING"} /\ Hold(t, "draincommit", copy, thread[t].why)
      BY <1>4 DEF BeginDrain, copy
    <2>3. ServiceAt("release", row.svc)
          /\ (row.svc \notin {"NONE", "DRAINING"} => ServiceAt("draincommit", copy.svc))
      BY <2>1 DEF ServiceAt
    <2>. QED BY <1>2, <1>3, <2>2, <2>3, LocalEnds, LocalGoes DEF RoundPlace, StartPlace
  <1>5. CASE DrainCommit(t)
    <2>1. \/ WriteEnd(t) \/ DrainError(t, row, thread[t].why)
          \/ thread[t].why = "reclaim" /\ \E copy : WriteHold(t, "finish", copy, "reclaim")
      BY <1>5 DEF DrainCommit
    <2>2. \A copy : ServiceAt("finish", copy.svc)
      BY DEF ServiceAt
    <2>. QED BY <1>2, <1>3, <2>1, <2>2, LocalEnds, LocalGoes DEF RoundPlace, StartPlace
  <1>6. CASE ReclaimErr(t) \/ DrainFail(t)
    BY <1>6, LocalEnds DEF ReclaimErr, DrainFail
  <1>7. CASE FinishDrain(t)
    <2>1. Rounds(t)
      BY <1>1, <1>7 DEF Local, FinishDrain, RoundPlace
    <2>2. \/ End(t)
          \/ row.svc = "DRAINING" /\ \E pc \in {"drained", "drainfail"} : Hold(t, pc, row, thread[t].why)
      BY <1>7 DEF FinishDrain
    <2>3. row.svc = "DRAINING" => ServiceAt("drained", row.svc) /\ ServiceAt("drainfail", row.svc)
      BY DEF ServiceAt
    <2>. QED BY <2>1, <2>2, <2>3, LocalEnds, LocalGoes DEF RoundPlace, StartPlace
  <1>8. CASE Drained(t)
    <2>1. Rounds(t)
      BY <1>1, <1>8 DEF Local, Drained, RoundPlace
    <2>2. End(t) \/ WriteEnd(t) \/ WriteHold(t, "release", row', "reclaim")
      BY <1>8 DEF Drained
    <2>3. ServiceAt("release", row'.svc)
      BY DEF ServiceAt
    <2>. QED BY <2>1, <2>2, <2>3, LocalEnds, LocalGoes DEF RoundPlace, StartPlace
  <1>. QED BY <1>4, <1>5, <1>6, <1>7, <1>8

LEMMA ReleaseStepsLocal ==
    ASSUME IInv, LocalInv, NEW t \in Thread,
           BeginRelease(t) \/ Releasing(t) \/ Return(t) \/ Returned(t)
    PROVE  LocalInv'
  <1>1. thread[t].why \in {"reclaim", "retry", "resume"} => Rounds(t)
    BY DEF LocalInv, Local, BeginRelease, Releasing, Return, Returned
  <1>2. PICK pc, copy :
          /\ pc \in Leaving
          /\ \/ End(t) \/ WriteEnd(t)
             \/ Goto(t, pc, copy, thread[t].why) \/ WriteGoto(t, pc, copy, thread[t].why)
    <2>. USE DEF Leaving, Returning
    <2>1. CASE BeginRelease(t)
      BY <2>1 DEF BeginRelease
    <2>2. CASE Releasing(t)
      BY <2>2 DEF Releasing
    <2>3. CASE Return(t)
      BY <2>3 DEF Return
    <2>4. CASE Returned(t)
      BY <2>4 DEF Returned
    <2>. QED BY <2>1, <2>2, <2>3, <2>4
  <1>3. ServiceAt(pc, copy.svc)
    BY <1>2 DEF ServiceAt, Leaving, Returning
  <1>. QED BY <1>1, <1>2, <1>3, LocalEnds, LocalGoes DEF RoundPlace, StartPlace, Leaving, Returning

\* A round goes on by itself.
LEMMA RoundLocal ==
    ASSUME IInv, LocalInv, NEW t \in Thread, Rounds(t), NEW pc, NEW copy, NEW why,
           \/ Goto(t, pc, copy, why) \/ Hold(t, pc, copy, why)
           \/ WriteGoto(t, pc, copy, why) \/ WriteHold(t, pc, copy, why),
           pc \notin {"prepared", "prepfail", "allocate"},
           pc = "start" => why \in {"planner", "retry", "resume"},
           ServiceAt(pc, copy.svc)
    PROVE  LocalInv'
  BY LocalGoes

\* Going where the service of the copy does not matter.
LEMMA AnyService ==
    ASSUME NEW pc \in {"prepare", "settle", "rearm", "start", "lost", "finish", "drain", "release", "reclaimerr"},
           NEW svc
    PROVE  ServiceAt(pc, svc)
  BY DEF ServiceAt

LEMMA RoundStepsLocal ==
    ASSUME IInv, LocalInv, NEW t \in Thread,
           \/ ReclaimStep(t) \/ UpdateStep(t) \/ Probe(t) \/ Unreach(t) \/ Lost(t)
           \/ ActExited(t) \/ ActLost(t) \/ ActFailed(t) \/ ActStarting(t) \/ ActOn(t)
           \/ Settle(t) \/ Rearm(t)
    PROVE  LocalInv'
  <1>. DEFINE c == thread[t].copy
  <1>1. Local(t, thread[t])
    BY DEF LocalInv
  <1>2. Rounds(t)
    BY <1>1 DEF Local, RoundPlace, ReclaimStep, UpdateStep, Probe, Unreach, Lost,
          Answered, ActExited, ActLost, ActFailed, ActStarting, ActOn, Settle, Rearm
  <1>3. CASE ReclaimStep(t) /\ Rounds(t)
    <2>1. End(t) \/ \E pc \in {"release", "finish", "drain"} : Hold(t, pc, row, "reclaim")
      BY <1>3 DEF ReclaimStep
    <2>. QED BY <1>3, <2>1, LocalEnds, RoundLocal, AnyService
  <1>4. CASE UpdateStep(t) /\ Rounds(t)
    <2>1. End(t) \/ Hold(t, "drain", row, "plain")
      BY <1>4 DEF UpdateStep
    <2>. QED BY <1>4, <2>1, LocalEnds, RoundLocal, AnyService
  <1>5. CASE Probe(t) /\ Rounds(t)
    <2>1. PICK x \in Busy : x = thread[t]
      BY <1>5, SelfType DEF Probe, IInv
    <2>2. ASSUME NEW z, z.pc \in {"act", "unreach"}
          PROVE  Local(t, z)
      BY <1>5, <2>2 DEF Local, ServiceAt, StartPlace
    <2>3. CASE thread' = [thread EXCEPT ![t].pc = "act", ![t].why = proc[c.ident].phase]
      <3>1. PICK w : w = proc[c.ident].phase
        OBVIOUS
      <3>2. PICK z : z = [x EXCEPT !.pc = "act", !.why = w]
        OBVIOUS
      <3>3. thread' = [thread EXCEPT ![t] = z]
        BY <2>1, <2>3, <3>1, <3>2 DEF IInv, ControlOK
      <3>4. z.pc = "act"
        BY <3>2 DEF Busy
      <3>5. Local(t, z)
        BY <2>2, <3>4
      <3>. QED BY <3>3, <3>5, LocalStep
    <2>4. CASE thread' = [thread EXCEPT ![t].pc = "unreach"]
      <3>1. PICK z : z = [x EXCEPT !.pc = "unreach"]
        OBVIOUS
      <3>2. thread' = [thread EXCEPT ![t] = z]
        BY <2>1, <2>4, <3>1 DEF IInv, ControlOK
      <3>3. z.pc = "unreach"
        BY <3>1 DEF Busy
      <3>4. Local(t, z)
        BY <2>2, <3>3
      <3>. QED BY <3>2, <3>4, LocalStep
    <2>. QED BY <1>5, <2>3, <2>4 DEF Probe
  <1>6. CASE Unreach(t) /\ Rounds(t)
    <2>1. End(t) \/ \E why : Hold(t, "lost", c, why)
      BY <1>6 DEF Unreach
    <2>. QED BY <1>6, <2>1, LocalEnds, RoundLocal, AnyService
  <1>7. CASE (ActExited(t) \/ ActStarting(t)) /\ Rounds(t)
    <2>1. \/ End(t) \/ (c.svc # "DRAINING" /\ Hold(t, "fail", c, ""))
          \/ (row.svc = "STARTING" /\ Hold(t, "health", row, "resume"))
      <3>1. CASE ActExited(t)
        BY <3>1 DEF ActExited, ExitedService
      <3>2. CASE ActStarting(t)
        BY <3>2 DEF ActStarting
      <3>. QED BY <1>7, <3>1, <3>2
    <2>2. /\ c.svc # "DRAINING" => ServiceAt("fail", c.svc)
          /\ row.svc = "STARTING" => ServiceAt("health", row.svc)
      BY DEF ServiceAt
    <2>. HIDE DEF c
    <2>3. CASE c.svc # "DRAINING" /\ Hold(t, "fail", c, "")
      BY <1>7, <2>2, <2>3, RoundLocal
    <2>4. CASE row.svc = "STARTING" /\ Hold(t, "health", row, "resume")
      BY <1>7, <2>2, <2>4, RoundLocal
    <2>. QED BY <2>1, <2>3, <2>4, LocalEnds
  <1>8. CASE (ActLost(t) \/ ActFailed(t) \/ ActOn(t)) /\ Rounds(t)
    <2>1. \/ End(t)
          \/ \E pc \in {"finish", "prepare", "settle", "rearm"} : Goto(t, pc, c, "")
          \/ Goto(t, "start", c, "retry")
          \/ \E copy : WriteGoto(t, "prepare", copy, "")
      <3>1. CASE ActLost(t)
        BY <3>1 DEF ActLost
      <3>2. CASE ActFailed(t)
        BY <3>2 DEF ActFailed
      <3>3. CASE ActOn(t)
        BY <3>3 DEF ActOn
      <3>. QED BY <1>8, <3>1, <3>2, <3>3
    <2>. QED BY <1>8, <2>1, LocalEnds, RoundLocal, AnyService
  <1>9. CASE Settle(t) /\ Rounds(t)
    <2>1. \/ End(t) \/ Hold(t, "drain", row, "plain")
          \/ row.svc \in {"FAILED", "HEALTHY", "REGISTERING", "SERVING"} /\ Hold(t, "fail", row, "settle")
          \/ row.svc = "FAILED" /\ Hold(t, "restarting", row, "settle")
          \/ row.svc = "HEALTHY" /\ Hold(t, "registering", row, "settle")
          \/ row.svc \in {"REGISTERING", "SERVING"} /\ Hold(t, "register", row, "settle")
      BY <1>9 DEF Settle
    <2>2. /\ row.svc \in {"FAILED", "HEALTHY", "REGISTERING", "SERVING"} => ServiceAt("fail", row.svc)
          /\ row.svc = "FAILED" => ServiceAt("restarting", row.svc)
          /\ row.svc = "HEALTHY" => ServiceAt("registering", row.svc)
          /\ row.svc \in {"REGISTERING", "SERVING"} => ServiceAt("register", row.svc)
      BY DEF ServiceAt
    <2>. QED BY <1>9, <2>1, <2>2, LocalEnds, RoundLocal, AnyService
  <1>10. CASE Rearm(t) \/ Lost(t)
    BY <1>10, LocalEnds DEF Rearm, Lost
  <1>. QED BY <1>2, <1>3, <1>4, <1>5, <1>6, <1>7, <1>8, <1>9, <1>10

LEMMA OtherStepsLocal ==
    ASSUME IInv, LocalInv, NEW t \in Thread,
           PrepareCommit(t) \/ Revoked(t) \/ Allocate(t) \/ Cancel(t)
    PROVE  LocalInv'
  <1>1. \/ End(t) \/ WriteEnd(t) \/ Hold(t, "drain", row, "revoke")
        \/ \E copy : WriteGoto(t, "prepare", copy, "resume")
    BY DEF PrepareCommit, Revoked, Allocate, Cancel
  <1>. QED BY <1>1, LocalEnds, LocalGoes, AnyService DEF RoundPlace, StartPlace

LEMMA StartsLocal ==
    ASSUME Serialised, IInv, LocalInv, NEW t \in Thread, Start(t)
    PROVE  LocalInv'
  <1>1. CASE Reconcile(t)
    <2>1. PICK pc \in {"reclaim", "update", "release", "probe"} :
            thread' = [thread EXCEPT ![t] = [At(pc, row, "") EXCEPT !.fresh = TRUE]]
      BY <1>1 DEF Reconcile
    <2>2. PICK x : x = [At(pc, row, "") EXCEPT !.fresh = TRUE]
      OBVIOUS
    <2>3. x.pc = pc /\ x.why = ""
      BY <2>2 DEF At
    <2>4. Local(t, x)
      BY <1>1, <2>3 DEF Reconcile, Rounds, Local, ServiceAt, StartPlace
    <2>. QED BY <2>1, <2>2, <2>4, LocalStep
  <1>2. CASE ResumeAdd(t) \/ Reoffer(t)
    <2>1. PICK copy : /\ Hold(t, "allocate", copy, "") \/ WriteHold(t, "allocate", copy, "")
                      /\ copy.inst = "ALLOCATING"
      <3>1. CASE ResumeAdd(t)
        BY <3>1 DEF ResumeAdd
      <3>2. CASE Reoffer(t)
        <4>1. WriteHold(t, "allocate", row', "") /\ row' = Reoffered(row, FreshRow(issued))
          BY <3>2 DEF Reoffer
        <4>2. row'.inst = "ALLOCATING"
          BY <4>1 DEF Reoffered, FreshRow
        <4>. QED BY <4>1, <4>2
      <3>. QED BY <1>2, <3>1, <3>2
    <2>2. ServiceAt("allocate", copy.svc)
      BY DEF ServiceAt
    <2>. QED BY <2>1, <2>2, LocalGoes DEF RoundPlace, StartPlace
  <1>3. CASE PlannerStart(t)
    <2>1. \E copy : Goto(t, "start", copy, "planner")
      BY <1>3 DEF PlannerStart
    <2>. QED BY <2>1, LocalGoes, AnyService DEF RoundPlace
  <1>4. CASE PlainDrain(t) \/ CapacityUpdated(t)
    <2>1. WriteEnd(t) \/ \E copy : Goto(t, "drain", copy, "plain") \/ WriteHold(t, "drain", copy, "plain")
      BY <1>4 DEF PlainDrain, CapacityUpdated
    <2>. QED BY <2>1, LocalEnds, LocalGoes, AnyService DEF RoundPlace, StartPlace
  <1>5. CASE Revoke(t)
    <2>1. Local(t, At("revoked", row, "revoke"))
      BY DEF Local, At, ServiceAt, RoundPlace, StartPlace
    <2>. QED BY <1>5, <2>1, LocalStep DEF Revoke
  <1>. QED BY <1>1, <1>2, <1>3, <1>4, <1>5 DEF Start, OperatorRelease, Begin, Serialised

LEMMA RecoveryLocal ==
    ASSUME IInv, LocalInv, Recovery
    PROVE  LocalInv'
  <1>1. CASE Crash
    BY <1>1, LocalIdle DEF Crash, LocalInv
  <1>2. CASE Listen
    BY <1>2 DEF Listen, LocalInv
  <1>3. ASSUME NEW kind \in OpKind, ResumeOpenOperation(kind)
        PROVE  LocalInv'
    <2>1. CASE thread' = thread
      BY <2>1 DEF LocalInv
    <2>2. CASE Goto(Reconciler, ResumePlace(kind), row, "resume")
      <3>1. ResumePlace(kind) \in {"prepare", "start", "finish", "release"}
        BY DEF ResumePlace, OpKind
      <3>. QED BY <2>2, <3>1, LifecycleAssumption, RoundLocal, AnyService DEF Rounds
    <2>. QED BY <1>3, <2>1, <2>2 DEF ResumeOpenOperation
  <1>. QED BY <1>1, <1>2, <1>3 DEF Recovery

LEMMA OutdatedLocal ==
    ASSUME IInv, LocalInv, OutdateAll
    PROVE  LocalInv'
  <1>1. ASSUME NEW u \in Thread
        PROVE  Local(u, thread'[u])
    <2>1. PICK y \in Goroutine : y = thread[u]
      BY DEF IInv, ControlOK
    <2>2. thread'[u] = [y EXCEPT !.fresh = FALSE]
      BY <2>1 DEF OutdateAll
    <2>3. thread'[u].pc = y.pc /\ thread'[u].copy = y.copy /\ thread'[u].why = y.why
      BY <2>2 DEF Goroutine, Busy, Resting
    <2>4. Local(u, y)
      BY <2>1 DEF LocalInv
    <2>. QED BY <2>3, <2>4 DEF Local
  <1>. QED BY <1>1 DEF LocalInv

\* What the world does moves no goroutine and writes no row.
LEMMA WorldStands ==
    ASSUME World \/ Rest \/ UNCHANGED vars
    PROVE  row' = row /\ lock' = lock /\ thread' = thread /\ boot' = boot
  BY DEF World, Clock, Partition, Heal, Loaded, Degrades, Dies, RouterRestarts, PartnerMoves,
         PartnerOffers, PartnerDeletes, DeadlinePasses, CooldownPasses, RetryPasses, Rest,
         worldUnchanged, vars, dbVars, ctlVars

LEMMA NextLocal ==
    ASSUME Serialised, IInv, LocalInv, [Next]_vars
    PROVE  LocalInv'
  <1>1. ASSUME NEW t \in Thread, Continue(t) \/ Start(t) \/ Cancel(t)
        PROVE  LocalInv'
    BY <1>1, PrepareLocal, StartServiceLocal, StartStepsLocal, RegisterStepsLocal, DrainStepsLocal,
       ReleaseStepsLocal, RoundStepsLocal, OtherStepsLocal, StartsLocal DEF Continue
  <1>2. CASE Operator
    BY <1>2, OutdatedLocal DEF Operator, RequeueService, RequestReclaim
  <1>3. CASE Recovery
    BY <1>3, RecoveryLocal
  <1>4. CASE World \/ Rest \/ UNCHANGED vars
    BY <1>4, WorldStands DEF LocalInv
  <1>. QED BY <1>1, <1>2, <1>3, <1>4 DEF Next

LEMMA InitLocal == Init => LocalInv
  BY LocalIdle DEF Init, LocalInv

-----------------------------------------------------------------------------
(***************************************************************************)
(* The theorem.                                                            *)
(***************************************************************************)

\* Every step keeps the invariant of the lock.
LEMMA NextLocks ==
    ASSUME Serialised, IInv, LocalInv, LockInv, [Next]_vars
    PROVE  LockInv'
  <1>1. ASSUME NEW t \in Thread, Continue(t)
        PROVE  LockInv'
    <2>1. Rounds(t) \/ thread[t].pc # "drained"
      BY DEF LocalInv, Local, RoundPlace
    <2>. QED
      BY <1>1, <2>1, PrepareLocks, PrepareCommitLocks, StartServiceLocks, LaunchLocks, HealthLocks,
         AdvanceLocks, RegisterLocks, OpenLocks, ServeLocks, FailStartLocks, BeginDrainLocks,
         DrainCommitLocks, ReclaimErrLocks, FinishDrainLocks, DrainedLocks, DrainFailLocks,
         BeginReleaseLocks, ReleasingLocks, ReturnLocks, ReturnedLocks, ReclaimStepLocks,
         UpdateStepLocks, ProbeLocks, UnreachLocks, LostLocks, ActExitedLocks, ActLostLocks,
         ActFailedLocks, ActStartingLocks, ActOnLocks, SettleLocks, RearmLocks, RevokedLocks,
         AllocateLocks DEF Continue
  <1>2. ASSUME NEW t \in Thread, Start(t)
        PROVE  LockInv'
    BY <1>2, ReconcileLocks, ResumeAddLocks, PlannerStartLocks, PlainDrainLocks, RevokeLocks,
       CapacityUpdatedLocks, ReofferLocks DEF Start, OperatorRelease, Begin, Serialised
  <1>3. ASSUME NEW t \in Thread, Cancel(t)
        PROVE  LockInv'
    BY <1>3, CancelLocks
  <1>4. CASE Operator \/ Recovery
    BY <1>4, OperatorLocks, RecoveryLocks
  <1>5. CASE World \/ Rest \/ UNCHANGED vars
    BY <1>5, WorldStands DEF LockInv
  <1>. QED BY <1>1, <1>2, <1>3, <1>4, <1>5 DEF Next

\* The copy of whoever is about to write from it stands for the row.
LEMMA OwnerStands == IInv /\ LockInv => OwnerIsCurrent
  <1>. SUFFICES ASSUME IInv, LockInv, NEW t \in Thread, Owning(t)
                PROVE  Carried(thread[t].copy) = Carried(row)
    BY DEF OwnerIsCurrent
  <1>1. Holding(thread[t])
    BY DEF Owning, Holding, Owner
  <1>2. Stands(thread[t].copy, row)
    BY <1>1 DEF LockInv, Fits
  <1>. QED BY <1>2 DEF Stands, Same, Carried

LEMMA LocksHeld == Serialised => (Spec => [](IInv /\ LocalInv /\ LockInv))
  <1>. SUFFICES ASSUME Serialised
                PROVE  Spec => [](IInv /\ LocalInv /\ LockInv)
    OBVIOUS
  <1>1. Init => LocalInv /\ LockInv
    BY InitLocal, InitLocks
  <1>2. IInv /\ LocalInv /\ LockInv /\ [Next]_vars => LocalInv' /\ LockInv'
    BY NextLocal, NextLocks
  <1>. QED BY <1>1, <1>2, LifecycleInvariant, PTL DEF Spec

\* While a goroutine holds the instance lock and is about to write the row from
\* its copy (instanceOperation(id)), the copy is true of the row: the write erases
\* nothing, whatever calls it made in between and whoever else was at work.
THEOREM LifecycleOwnerIsCurrent == Serialised => (Spec => []OwnerIsCurrent)
  <1>. SUFFICES ASSUME Serialised
                PROVE  Spec => []OwnerIsCurrent
    OBVIOUS
  <1>. QED BY LocksHeld, OwnerStands, PTL
(***************************************************************************)
(* The setting of the budget.  Every container that exists answers, so an  *)
(* instance is LOST only when its container is gone; one that is found     *)
(* again keeps its start attempts, and the planner may start it beyond     *)
(* them.  And one goroutine runs the rounds: of two that overlap, each may *)
(* start the instance on its own count.                                    *)
(***************************************************************************)
Steady ==
    /\ Serialised
    /\ "round" \notin Caller
    /\ {"partition", "bootstrap"} \cap Fault = {}

\* A row as it is stored, and as it is copied, while n is the newest identity.
Shaped(r, n) ==
    /\ r.svc = "NONE" <=> r.role = NoRole
    /\ r.svc = "NONE" => r.start = 0 /\ ~HasUpdate(r)
    /\ r.start <= StartMaxAttempts /\ r.rearms <= StartRetryMaxRearms
    /\ r.inst \in {"ALLOCATING", "PREPARING"} => r.svc = "NONE" /\ r.worker = NoWorker
    /\ HasUpdate(r) => r.ident < r.pu.ident /\ r.pu.ident <= n
    /\ r.ident <= n

\* A container without a service has run nothing yet; a lost one is gone.
Contained(r, p) ==
    /\ \A i \in Ident : i > r.ident => p[i].phase \in {"IDLE", "GONE"}
    /\ r.inst \in {"ALLOCATING", "PREPARING"} => p[r.ident].phase \in {"IDLE", "GONE"}
    /\ r.inst = "LOST" => p[r.ident].phase = "GONE"

Reachable == \A i \in Ident : reach[i] <=> proc[i].phase # "GONE"

\* What a goroutine at x knows of the containers and of the row, whoever was at
\* work since it looked.
Knows(x, r, p, n, b) ==
    /\ x.pc # "start" => Shaped(x.copy, n)
    /\ x.pc \in {"unreach", "lost", "prepfail"} => p[x.copy.ident].phase = "GONE"
    /\ x.pc = "probe" /\ x.copy.inst = "LOST" => p[x.copy.ident].phase = "GONE"
    /\ x.pc = "act" => x.copy.inst # "LOST"
    /\ x.pc = "prepared" => x.why = "IDLE"
    /\ x.pc = "fail" => x.copy.svc # "NONE"
    /\ (x.pc \in {"probe", "act"} \/ (x.pc = "fail" /\ x.why = "")) /\ x.copy.svc # "NONE"
          => r.svc # "NONE" /\ r.ident = x.copy.ident
    /\ x.pc \in {"probe", "act"} /\ x.copy.svc = "FAILED"
          => r.svc \in {"FAILED", "DRAINING"} /\ r.start <= x.copy.start
    /\ x.pc = "start" /\ x.why = "planner" => r.svc = "NONE"
    /\ x.pc = "start" /\ x.why = "retry"
          => r.svc \in {"FAILED", "DRAINING"} /\ r.start < StartMaxAttempts
    /\ x.pc = "start" /\ x.why = "resume" => b # {} /\ r.start < StartMaxAttempts

\* reserveStart: one start of the planner at a time.
OnePlanner ==
    \A t, u \in Thread : thread[t].why = "planner" /\ thread[u].why = "planner" => t = u

Known ==
    /\ Shaped(row, issued) /\ Contained(row, proc) /\ Reachable /\ OnePlanner
    /\ \A t \in Thread : Knows(thread[t], row, proc, issued, boot)

-----------------------------------------------------------------------------
(***************************************************************************)
(* What a step of one goroutine has to show.                               *)
(***************************************************************************)

\* The copy it goes on with, when nothing else is asked of its new place.
Plain(x) ==
    \/ x.pc \notin {"unreach", "lost", "prepfail", "probe", "act", "prepared", "fail", "start"}
    \/ x.pc = "fail" /\ x.why # "" /\ x.copy.svc # "NONE"

LEMMA PlainKnows ==
    ASSUME NEW x, Plain(x), NEW r, NEW p, NEW n, NEW b, Shaped(x.copy, n)
    PROVE  Knows(x, r, p, n, b)
  BY DEF Knows, Plain

\* Leaving the containers that are gone alone, and letting no identity go back.
ContainersMove ==
    /\ issued \in Nat /\ issued' \in Nat /\ issued <= issued'
    /\ \A i \in Ident : i <= issued /\ proc[i].phase = "GONE" => proc'[i].phase = "GONE"

\* What the reconcile loop believes stays true while t writes, and what a start
\* of the planner believes while somebody else does.
RowKeeps(t) ==
    /\ t # Reconciler =>
          /\ boot = {}
          /\ row.svc # "NONE" => row'.svc # "NONE" /\ row'.ident = row.ident
          /\ row.svc \in {"FAILED", "DRAINING"} =>
                row'.svc \in {"FAILED", "DRAINING"} /\ row'.start <= row.start
    /\ row.svc = "NONE" /\ row'.svc # "NONE" => thread[t].why = "planner" \/ boot # {}

LEMMA ShapedLater ==
    ASSUME NEW r, NEW n \in Nat, NEW m \in Nat, n <= m, r.ident \in Nat, r.pu.ident \in Nat, Shaped(r, n)
    PROVE  Shaped(r, m)
  BY DEF Shaped

LEMMA CopyTyped ==
    ASSUME IInv, NEW t \in Thread
    PROVE  /\ thread[t].copy \in Row
           /\ thread[t].copy.ident \in Nat /\ thread[t].copy.pu.ident \in Nat
           /\ thread[t].copy.svc \in ServiceState
           /\ thread[t].copy.start \in Nat
           /\ thread[t].pc # "idle" => thread[t].copy \in LeaseRow /\ thread[t].copy.ident \in Ident
  <1>1. thread[t] \in Goroutine
    BY DEF IInv, ControlOK
  <1>2. NoCopy \in Row
    BY DEF NoCopy, FreshRow, Row, NoUpdate, NoWorker, InstanceState, ServiceState, AnyRole
  <1>3. thread[t].copy \in Row /\ (thread[t].pc # "idle" => thread[t].copy \in LeaseRow)
    BY <1>1, <1>2 DEF Goroutine, Busy, Resting, Idle, LeaseRow
  <1>. QED BY <1>3 DEF Row, LeaseRow

LEMMA OthersKnow ==
    ASSUME Steady, IInv, LocalInv, LockInv, Known, NEW t, NEW u \in Thread, u # t,
           t \in Thread \/ (row.svc = "NONE" => row'.svc = "NONE"),
           NEW y, y.pc = thread[u].pc, y.copy = thread[u].copy, y.why = thread[u].why,
           ContainersMove, RowKeeps(t), boot' = boot, row'.start \in Nat, row.start \in Nat
    PROVE  Knows(y, row', proc', issued', boot')
  <1>. DEFINE x == thread[u]
  <1>1. PICK c : c = x.copy
    OBVIOUS
  <1>2. /\ Knows(x, row, proc, issued, boot) /\ Local(u, x) /\ Fits(u, x, lock, boot, row)
        /\ c \in Row /\ c.ident \in Nat /\ c.pu.ident \in Nat /\ c.start \in Nat
        /\ x.pc # "idle" => c.ident \in Ident
        /\ y.copy = c /\ x.copy = c
    BY <1>1, CopyTyped DEF Known, LocalInv, LockInv
  <1>3. ~Rounds(u) => u # Reconciler
    BY DEF Rounds
  <1>4. Rounds(u) => u = Reconciler
    BY DEF Rounds, Steady
  <1>. HIDE DEF x
  <1>5. x.pc # "start" => Shaped(c, issued')
    BY <1>2, ShapedLater DEF Knows, ContainersMove
  <1>6. x.pc \in {"unreach", "lost", "prepfail", "probe"} /\ proc[c.ident].phase = "GONE"
           => proc'[c.ident].phase = "GONE"
    BY <1>2 DEF Knows, ContainersMove, Shaped
  <1>7. /\ x.pc \in {"probe", "act"} => u = Reconciler
        /\ x.pc = "fail" /\ x.why = "" => u = Reconciler
        /\ x.pc = "start" /\ x.why \in {"retry", "resume"} => u = Reconciler
    BY <1>2, <1>4 DEF Local, RoundPlace, StartPlace
  <1>8. u = Reconciler =>
          /\ boot = {}
          /\ row.svc # "NONE" => row'.svc # "NONE" /\ row'.ident = row.ident
          /\ row.svc \in {"FAILED", "DRAINING"} =>
                row'.svc \in {"FAILED", "DRAINING"} /\ row'.start <= row.start
    BY DEF RowKeeps
  <1>9. x.pc = "start" /\ x.why = "planner" => row'.svc = "NONE"
    <2>. SUFFICES ASSUME x.pc = "start", x.why = "planner", row'.svc # "NONE"
                  PROVE  FALSE
      OBVIOUS
    <2>1. row.svc = "NONE"
      BY <1>2 DEF Knows
    <2>2. thread[t].why # "planner"
      <3>1. t \in Thread
        BY <2>1
      <3>. QED BY <3>1 DEF Known, OnePlanner, x
    <2>3. boot # {}
      BY <2>1, <2>2 DEF RowKeeps
    <2>4. u = Reconciler /\ t = Reconciler
      BY <1>2, <2>3 DEF Fits, RowKeeps
    <2>. QED BY <2>4
  <1>10. (x.pc \in {"probe", "act"} \/ (x.pc = "fail" /\ x.why = "")) /\ c.svc # "NONE"
            => row'.svc # "NONE" /\ row'.ident = c.ident
    BY <1>2, <1>7, <1>8 DEF Knows
  <1>11. x.pc \in {"probe", "act"} /\ c.svc = "FAILED"
            => row'.svc \in {"FAILED", "DRAINING"} /\ row'.start <= c.start
    <2>1. x.pc \in {"probe", "act"} /\ c.svc = "FAILED"
             => u = Reconciler /\ row.svc \in {"FAILED", "DRAINING"} /\ row.start <= c.start
      BY <1>2, <1>7 DEF Knows
    <2>2. u = Reconciler /\ row.svc \in {"FAILED", "DRAINING"} /\ row.start <= c.start
             => row'.svc \in {"FAILED", "DRAINING"} /\ row'.start <= c.start
      BY <1>2, <1>8
    <2>. QED BY <2>1, <2>2
  <1>12. x.pc = "start" /\ x.why = "retry"
            => row'.svc \in {"FAILED", "DRAINING"} /\ row'.start < StartMaxAttempts
    BY <1>2, <1>7, <1>8, LifecycleAssumption DEF Knows
  <1>13. ~(x.pc = "start" /\ x.why = "resume")
    <2>1. x.pc = "start" /\ x.why = "resume" => boot # {}
      BY <1>2 DEF Knows
    <2>2. x.pc = "start" /\ x.why = "resume" => boot = {}
      BY <1>7, <1>8
    <2>. QED BY <2>1, <2>2
  <1>14. y.pc = x.pc /\ y.why = x.why
    BY DEF x
  <1>15. /\ x.pc \in {"unreach", "lost", "prepfail"} => proc[c.ident].phase = "GONE"
         /\ x.pc = "probe" /\ c.inst = "LOST" => proc[c.ident].phase = "GONE"
         /\ x.pc = "act" => c.inst # "LOST"
         /\ x.pc = "prepared" => x.why = "IDLE"
         /\ x.pc = "fail" => c.svc # "NONE"
    BY <1>2 DEF Knows
  <1>. QED BY <1>2, <1>5, <1>6, <1>9, <1>10, <1>11, <1>12, <1>13, <1>14, <1>15 DEF Knows

LEMMA OnePlannerStays ==
    ASSUME OnePlanner, NEW t \in Thread, NEW x, x.why = "planner" => thread[t].why = "planner",
           IInv, thread' = [thread EXCEPT ![t] = x] \/ thread' = Outdated(t, x)
    PROVE  OnePlanner'
  <1>1. ASSUME NEW u \in Thread
        PROVE  thread'[u].why = "planner" => thread[u].why = "planner"
    <2>1. CASE u = t
      BY <2>1 DEF IInv, ControlOK, Outdated
    <2>2. CASE u # t /\ thread' = [thread EXCEPT ![t] = x]
      BY <2>2
    <2>3. CASE u # t /\ thread' = Outdated(t, x)
      <3>1. PICK y \in Goroutine : y = thread[u]
        BY DEF IInv, ControlOK
      <3>2. thread'[u] = [y EXCEPT !.fresh = FALSE]
        BY <2>3, <3>1 DEF Outdated
      <3>3. thread'[u].why = y.why
        BY <3>2 DEF Goroutine, Busy, Resting
      <3>. QED BY <3>1, <3>3
    <2>. QED BY <2>1, <2>2, <2>3
  <1>. QED BY <1>1 DEF OnePlanner

\* Every step of one goroutine, but for the planner's.
LEMMA KnownStep ==
    ASSUME Steady, IInv, IInv', LocalInv, LockInv, Known, NEW t \in Thread, NEW x,
           thread' = [thread EXCEPT ![t] = x] \/ thread' = Outdated(t, x),
           OnePlanner', boot' = boot, ContainersMove, RowKeeps(t),
           Shaped(row', issued'), Contained(row', proc'), Reachable',
           Knows(x, row', proc', issued', boot')
    PROVE  Known'
  <1>1. row.start \in Nat /\ row'.start \in Nat
    BY DEF IInv, RowOK, LeaseRow, Row
  <1>2. ASSUME NEW u \in Thread
        PROVE  Knows(thread'[u], row', proc', issued', boot')
    <2>1. CASE u = t
      BY <2>1 DEF IInv, ControlOK, Outdated
    <2>2. CASE u # t /\ thread' = [thread EXCEPT ![t] = x]
      <3>1. thread'[u] = thread[u]
        BY <2>2
      <3>. QED BY <1>1, <2>2, <3>1, OthersKnow
    <2>3. CASE u # t /\ thread' = Outdated(t, x)
      <3>1. PICK y \in Goroutine : y = thread[u]
        BY DEF IInv, ControlOK
      <3>2. thread'[u] = [y EXCEPT !.fresh = FALSE]
        BY <2>3, <3>1 DEF Outdated
      <3>3. thread'[u].pc = y.pc /\ thread'[u].copy = y.copy /\ thread'[u].why = y.why
        BY <3>2 DEF Goroutine, Busy, Resting
      <3>. QED BY <1>1, <2>3, <3>1, <3>3, OthersKnow
    <2>. QED BY <2>1, <2>2, <2>3
  <1>. QED BY <1>2 DEF Known

\* A step that only moves the goroutine: nothing it believes is at stake.
LEMMA StillKnown ==
    ASSUME Steady, IInv, IInv', LocalInv, LockInv, Known, NEW t \in Thread, NEW x,
           thread' = [thread EXCEPT ![t] = x] \/ thread' = Outdated(t, x),
           t # Reconciler => boot = {}, x.why = "planner" => thread[t].why = "planner",
           boot' = boot, row' = row, proc' = proc, reach' = reach, issued' = issued,
           Knows(x, row, proc, issued, boot)
    PROVE  Known'
  <1>1. OnePlanner'
    BY OnePlannerStays DEF Known
  <1>2. ContainersMove /\ RowKeeps(t)
    BY DEF ContainersMove, RowKeeps, IInv, NodeOK, Ident, RowOK, LeaseRow, Row
  <1>3. Shaped(row', issued') /\ Contained(row', proc') /\ Reachable'
    BY DEF Known, Reachable
  <1>. QED BY <1>1, <1>2, <1>3, KnownStep

LEMMA IdleKnows ==
    ASSUME Steady, NEW r, NEW p, NEW n \in Nat, NEW b
    PROVE  Knows(Idle, r, p, n, b)
  <1>1. Shaped(NoCopy, n)
    BY LifecycleAssumption DEF Shaped, NoCopy, FreshRow, HasUpdate
  <1>. QED BY <1>1, PlainKnows DEF Plain, Idle

\* When it ends.
LEMMA EndKnown ==
    ASSUME Steady, IInv, IInv', LocalInv, LockInv, Known, NEW t \in Thread,
           End(t) \/ WriteEnd(t), t # Reconciler => boot = {},
           boot' = boot, row' = row, proc' = proc, reach' = reach, issued' = issued
    PROVE  Known'
  <1>1. issued \in Nat
    BY DEF IInv, NodeOK, Ident
  <1>2. Knows(Idle, row, proc, issued, boot)
    BY <1>1, IdleKnows
  <1>3. Idle.why # "planner"
    BY DEF Idle
  <1>. QED BY <1>2, <1>3, StillKnown DEF End, WriteEnd

\* When it goes on at a place that asks nothing but a copy in shape.
LEMMA GoesKnown ==
    ASSUME Steady, IInv, IInv', LocalInv, LockInv, Known, NEW t \in Thread,
           NEW pc, NEW copy, NEW why,
           \/ Goto(t, pc, copy, why) \/ Hold(t, pc, copy, why)
           \/ WriteGoto(t, pc, copy, why) \/ WriteHold(t, pc, copy, why),
           Plain(At(pc, copy, why)), Shaped(copy, issued),
           t # Reconciler => boot = {}, why = "planner" => thread[t].why = "planner",
           boot' = boot, row' = row, proc' = proc, reach' = reach, issued' = issued
    PROVE  Known'
  <1>1. PICK x : x = At(pc, copy, why)
    OBVIOUS
  <1>2. x.copy = copy /\ x.why = why
    BY <1>1 DEF At
  <1>3. Knows(x, row, proc, issued, boot)
    BY <1>1, <1>2, PlainKnows
  <1>4. thread' = [thread EXCEPT ![t] = x] \/ thread' = Outdated(t, x)
    BY <1>1 DEF Goto, Hold, WriteGoto, WriteHold
  <1>. QED BY <1>2, <1>3, <1>4, StillKnown

\* When it goes on at a place that asks more.
LEMMA MovesKnown ==
    ASSUME Steady, IInv, IInv', LocalInv, LockInv, Known, NEW t \in Thread,
           NEW pc, NEW copy, NEW why,
           \/ Goto(t, pc, copy, why) \/ Hold(t, pc, copy, why)
           \/ WriteGoto(t, pc, copy, why) \/ WriteHold(t, pc, copy, why),
           Knows(At(pc, copy, why), row, proc, issued, boot),
           t # Reconciler => boot = {}, why = "planner" => thread[t].why = "planner",
           boot' = boot, row' = row, proc' = proc, reach' = reach, issued' = issued
    PROVE  Known'
  <1>1. PICK x : x = At(pc, copy, why)
    OBVIOUS
  <1>2. x.why = why
    BY <1>1 DEF At
  <1>3. Knows(x, row, proc, issued, boot)
    BY <1>1
  <1>4. thread' = [thread EXCEPT ![t] = x] \/ thread' = Outdated(t, x)
    BY <1>1 DEF Goto, Hold, WriteGoto, WriteHold
  <1>. QED BY <1>2, <1>3, <1>4, StillKnown
-----------------------------------------------------------------------------
(***************************************************************************)
(* Writes.                                                                 *)
(***************************************************************************)

\* Merging keeps the shape of rows.
LEMMA MergedShaped ==
    ASSUME NEW r \in Row, NEW s \in Row, NEW n, Shaped(r, n), Shaped(s, n),
           s.ident = r.ident \/ ~HasUpdate(r),
           s.svc = "NONE" => ~HasUpdate(r) \/ r.pr
    PROVE  Shaped(Merged(r, s), n)
  <1>1. PICK m : m = Merged(r, s)
    OBVIOUS
  <1>2. /\ m.inst = s.inst /\ m.svc = s.svc /\ m.role = s.role /\ m.ident = s.ident
        /\ m.start = s.start /\ m.rearms = s.rearms /\ m.worker = s.worker
        /\ m.pu = KeptUpdate(r, s, UnderReclaim(r, s) \/ s.pr)
    BY <1>1 DEF Merged, Row
  <1>3. /\ m.pu \in {NoUpdate, s.pu} \/ (m.pu = r.pu /\ HasUpdate(r))
        /\ r.pr => m.pu = NoUpdate
    BY <1>2 DEF KeptUpdate, UnderReclaim
  <1>4. HasUpdate(m) => m.ident < m.pu.ident /\ m.pu.ident <= n
    BY <1>2, <1>3 DEF Shaped, HasUpdate
  <1>5. m.svc = "NONE" => ~HasUpdate(m)
    BY <1>2, <1>3 DEF Shaped, HasUpdate
  <1>. QED BY <1>1, <1>2, <1>4, <1>5 DEF Shaped

\* What an owner writes: the row it asks for, merged.
MayStore(t, next) ==
    /\ next \in Row /\ Shaped(next, issued) /\ Contained(next, proc)
    /\ next.ident = row.ident \/ ~HasUpdate(row)
    /\ next.svc = "NONE" => ~HasUpdate(row) \/ row.pr
    /\ t # Reconciler =>
          /\ boot = {}
          /\ row.svc # "NONE" => next.svc # "NONE" /\ next.ident = row.ident
          /\ row.svc \in {"FAILED", "DRAINING"} =>
                next.svc \in {"FAILED", "DRAINING"} /\ next.start <= row.start
    /\ row.svc = "NONE" /\ next.svc # "NONE" => thread[t].why = "planner" \/ boot # {}

LEMMA StoresKnown ==
    ASSUME Steady, IInv, IInv', LocalInv, LockInv, Known, NEW t \in Thread, NEW x,
           NEW next, NEW o, Commit(next, o), MayStore(t, next),
           thread' = Outdated(t, x), x.why = "planner" => thread[t].why = "planner",
           boot' = boot, proc' = proc, reach' = reach, issued' = issued,
           Knows(x, row', proc, issued, boot)
    PROVE  Known'
  <1>1. row \in Row /\ next \in Row /\ row' = Merged(row, next)
    BY DEF IInv, RowOK, LeaseRow, Commit, MayStore
  <1>2. /\ row'.inst = next.inst /\ row'.svc = next.svc /\ row'.ident = next.ident
        /\ row'.start = next.start
    BY <1>1 DEF Merged, Row
  <1>3. Shaped(row', issued')
    BY <1>1, MergedShaped DEF Known, MayStore
  <1>4. Contained(row', proc') /\ Reachable'
    BY <1>2 DEF MayStore, Contained, Known, Reachable
  <1>5. OnePlanner'
    BY OnePlannerStays DEF Known
  <1>6. ContainersMove
    BY DEF ContainersMove, IInv, NodeOK, Ident
  <1>7. RowKeeps(t)
    BY <1>2 DEF RowKeeps, MayStore
  <1>. QED BY <1>3, <1>4, <1>5, <1>6, <1>7, KnownStep

LEMMA StoreEndKnown ==
    ASSUME Steady, IInv, IInv', LocalInv, LockInv, Known, NEW t \in Thread,
           NEW next, NEW o, Commit(next, o), MayStore(t, next), WriteEnd(t),
           boot' = boot, proc' = proc, reach' = reach, issued' = issued
    PROVE  Known'
  <1>1. issued \in Nat /\ Idle.why # "planner"
    BY DEF IInv, NodeOK, Ident, Idle
  <1>2. Knows(Idle, row', proc, issued, boot)
    BY <1>1, IdleKnows
  <1>. QED BY <1>1, <1>2, StoresKnown DEF WriteEnd

LEMMA StoreGoesKnown ==
    ASSUME Steady, IInv, IInv', LocalInv, LockInv, Known, NEW t \in Thread,
           NEW next, NEW o, Commit(next, o), MayStore(t, next),
           NEW pc, NEW copy, NEW why, WriteGoto(t, pc, copy, why) \/ WriteHold(t, pc, copy, why),
           copy = next \/ copy = row', Plain(At(pc, copy, why)),
           why = "planner" => thread[t].why = "planner",
           boot' = boot, proc' = proc, reach' = reach, issued' = issued
    PROVE  Known'
  <1>1. PICK x : x = At(pc, copy, why)
    OBVIOUS
  <1>2. x.copy = copy /\ x.why = why
    BY <1>1 DEF At
  <1>3. Shaped(copy, issued)
    <2>1. row \in Row /\ next \in Row /\ row' = Merged(row, next)
      BY DEF IInv, RowOK, LeaseRow, Commit, MayStore
    <2>. QED BY <2>1, MergedShaped DEF Known, MayStore
  <1>4. Knows(x, row', proc, issued, boot)
    BY <1>1, <1>2, <1>3, PlainKnows
  <1>5. thread' = Outdated(t, x)
    BY <1>1 DEF WriteGoto, WriteHold
  <1>. QED BY <1>2, <1>4, <1>5, StoresKnown
-----------------------------------------------------------------------------
(***************************************************************************)
(* Preparation and start.                                                  *)
(***************************************************************************)

\* A bootstrap that answers is there, and one that does not is gone.
LEMMA Answers ==
    ASSUME Steady, Reachable, NEW i \in Ident
    PROVE  /\ BootstrapAnswers(i) => reach[i] /\ proc[i].phase # "GONE"
           /\ BootstrapError(i) => ~reach[i] /\ proc[i].phase = "GONE"
  BY DEF Steady, Reachable, BootstrapAnswers, BootstrapError, Fails

\* What a goroutine at work has.
LEMMA SelfKnows ==
    ASSUME IInv, LocalInv, LockInv, Known, NEW t \in Thread, thread[t].pc # "idle"
    PROVE  /\ Knows(thread[t], row, proc, issued, boot) /\ Local(t, thread[t])
           /\ t # Reconciler => boot = {}
           /\ thread[t].copy \in LeaseRow /\ thread[t].copy \in Row /\ thread[t].copy.ident \in Ident
           /\ thread[t].pc # "start" => Shaped(thread[t].copy, issued)
           /\ Holding(thread[t]) => /\ thread[t].copy.ident = row.ident /\ thread[t].copy.svc = row.svc
                                    /\ thread[t].copy.inst = row.inst /\ thread[t].copy.start = row.start
                                    /\ thread[t].copy.pr => row.pr
                                    /\ thread[t].copy.pu = row.pu \/ row.pr
           /\ Shaped(row, issued) /\ Contained(row, proc) /\ Reachable
           /\ row \in LeaseRow /\ row \in Row /\ row.ident \in Ident /\ issued \in Nat
  <1>1. /\ Knows(thread[t], row, proc, issued, boot) /\ Local(t, thread[t])
        /\ Shaped(row, issued) /\ Contained(row, proc) /\ Reachable
    BY DEF Known, LocalInv
  <1>2. Fits(t, thread[t], lock, boot, row) /\ row \in LeaseRow /\ row \in Row
        /\ thread[t].copy \in LeaseRow /\ thread[t].copy \in Row
    BY SelfFits
  <1>3. t # Reconciler => boot = {}
    BY <1>2 DEF Fits
  <1>4. Holding(thread[t]) => Stands(thread[t].copy, row)
    BY <1>2 DEF Fits
  <1>5. thread[t].pc # "start" => Shaped(thread[t].copy, issued)
    BY <1>1 DEF Knows
  <1>6. issued \in Nat
    BY DEF IInv, NodeOK, Ident
  <1>. QED BY <1>1, <1>2, <1>3, <1>4, <1>5, <1>6 DEF Stands, Same, LeaseRow

LEMMA PrepareKnown ==
    ASSUME Steady, IInv, IInv', LocalInv, LockInv, Known, NEW t \in Thread, Prepare(t)
    PROVE  Known'
  <1>1. /\ boot' = boot /\ row' = row /\ proc' = proc /\ reach' = reach /\ issued' = issued
        /\ thread[t].pc # "idle"
    BY DEF Prepare, dbVars, nodeVars
  <1>2. /\ Shaped(row, issued) /\ Contained(row, proc) /\ Reachable /\ row.ident \in Ident
        /\ t # Reconciler => boot = {}
    BY <1>1, SelfKnows
  <1>3. PICK i \in Ident : i = row.ident
    BY <1>2
  <1>4. CASE End(t)
    BY <1>1, <1>2, <1>4, EndKnown
  <1>5. CASE row.inst = "PREPARING" /\ BootstrapAnswers(i) /\ Hold(t, "prepared", row, proc[i].phase)
    <2>1. proc[i].phase = "IDLE"
      BY <1>2, <1>3, <1>5, Answers DEF Contained
    <2>2. Knows(At("prepared", row, "IDLE"), row, proc, issued, boot)
      BY <1>2 DEF Knows, At
    <2>3. Hold(t, "prepared", row, "IDLE")
      BY <1>5, <2>1
    <2>. QED BY <1>1, <1>2, <2>2, <2>3, MovesKnown
  <1>6. CASE row.inst = "PREPARING" /\ Hold(t, "prepfail", row, "") /\ proc[i].phase = "GONE"
    <2>1. Knows(At("prepfail", row, ""), row, proc, issued, boot)
      BY <1>2, <1>3, <1>6 DEF Knows, At
    <2>. QED BY <1>1, <1>2, <1>6, <2>1, MovesKnown
  <1>7. row.inst = "PREPARING" /\ ~BootstrapOk(i) => proc[i].phase = "GONE"
    BY <1>2, <1>3 DEF Contained, BootstrapOk
  <1>8. BootstrapError(i) => proc[i].phase = "GONE"
    BY <1>2, Answers
  <1>. QED BY <1>3, <1>4, <1>5, <1>6, <1>7, <1>8 DEF Prepare

\* A write of a row without a service, over one without.
LEMMA StoresUnserved ==
    ASSUME NEW t, NEW s \in Row, Shaped(s, issued), Contained(s, proc), s.svc = "NONE",
           row.svc = "NONE", ~HasUpdate(row), t # Reconciler => boot = {}
    PROVE  MayStore(t, s)
  BY DEF MayStore

LEMMA PrepareCommitKnown ==
    ASSUME Steady, IInv, IInv', LocalInv, LockInv, Known, NEW t \in Thread, PrepareCommit(t)
    PROVE  Known'
  <1>1. /\ boot' = boot /\ proc' = proc /\ reach' = reach /\ issued' = issued
        /\ thread[t].pc \in {"prepared", "prepfail"} /\ thread[t].pc # "idle"
    BY DEF PrepareCommit, nodeVars
  <1>2. PICK c : c = thread[t].copy
    OBVIOUS
  <1>3. /\ c \in Row /\ c \in LeaseRow /\ c.ident \in Ident /\ c.inst = "PREPARING" /\ Shaped(c, issued)
        /\ c.svc = "NONE" /\ c.role = NoRole
        /\ c.ident = row.ident /\ c.svc = row.svc /\ c.inst = row.inst
        /\ t # Reconciler => boot = {}
        /\ thread[t].pc = "prepared" => thread[t].why = "IDLE"
        /\ thread[t].pc = "prepfail" => proc[c.ident].phase = "GONE"
    BY <1>1, <1>2, SelfKnows DEF Knows, Local, Holding, Owner, Shaped
  <1>4. Contained(row, proc) /\ row.svc = "NONE" /\ row.inst = "PREPARING" /\ ~HasUpdate(row)
    BY <1>1, <1>3, SelfKnows DEF Shaped
  <1>5. ASSUME NEW s \in Row, s.svc = "NONE", s.role = NoRole, s.ident = c.ident, s.start = c.start,
               s.rearms = c.rearms, s.pu = c.pu, s.worker = c.worker,
               \/ s.inst = "IDLE" \/ s.inst = "PREPARING"
               \/ s.inst = "LOST" /\ proc[c.ident].phase = "GONE"
        PROVE  MayStore(t, s)
    <2>1. Shaped(s, issued)
      BY <1>3, <1>5 DEF Shaped, HasUpdate
    <2>2. Contained(s, proc)
      BY <1>3, <1>4, <1>5 DEF Contained
    <2>. QED BY <1>3, <1>4, <1>5, <2>1, <2>2, StoresUnserved
  <1>6. MayStore(t, PreparedRow(c, "IDLE"))
    <2>1. PICK s : s = PreparedRow(c, "IDLE")
      OBVIOUS
    <2>2. s \in Row
      BY <1>3, <2>1, BuiltRows DEF LeaseRow
    <2>3. /\ s.inst = "IDLE" /\ s.svc = "NONE" /\ s.role = NoRole /\ s.ident = c.ident
          /\ s.start = c.start /\ s.rearms = c.rearms /\ s.pu = c.pu /\ s.worker = c.worker
      BY <1>3, <2>1 DEF PreparedRow, Row
    <2>. QED BY <1>5, <2>1, <2>2, <2>3
  <1>7. thread[t].pc = "prepfail" => MayStore(t, PrepareFailedRow(c))
    <2>1. PICK s : s = PrepareFailedRow(c)
      OBVIOUS
    <2>2. s \in Row
      BY <1>3, <2>1, BuiltRows DEF LeaseRow
    <2>3. /\ s.inst \in {"PREPARING", "LOST"} /\ s.svc = c.svc /\ s.role = c.role /\ s.ident = c.ident
          /\ s.start = c.start /\ s.rearms = c.rearms /\ s.pu = c.pu /\ s.worker = c.worker
      BY <1>3, <2>1 DEF PrepareFailedRow, Row
    <2>. QED BY <1>3, <1>5, <2>1, <2>2, <2>3
  <1>8. PICK next : next = IF thread[t].pc = "prepared" THEN PreparedRow(c, thread[t].why)
                           ELSE PrepareFailedRow(c)
    OBVIOUS
  <1>9. MayStore(t, next)
    BY <1>1, <1>3, <1>6, <1>7, <1>8
  <1>10. (\E o : Commit(next, o) /\ WriteEnd(t)) \/ (row' = row /\ End(t))
    BY <1>2, <1>8 DEF PrepareCommit, Refused, dbVars
  <1>11. CASE \E o : Commit(next, o) /\ WriteEnd(t)
    BY <1>1, <1>9, <1>11, StoreEndKnown
  <1>12. CASE row' = row /\ End(t)
    BY <1>1, <1>3, <1>12, EndKnown
  <1>. QED BY <1>10, <1>11, <1>12

\* A write of a row with a service, over one with a service.
LEMMA StoresServed ==
    ASSUME NEW t, NEW s \in Row, Shaped(s, issued), Contained(s, proc), s.svc # "NONE",
           s.ident = row.ident, row.svc # "NONE", t # Reconciler => boot = {},
           t # Reconciler /\ row.svc \in {"FAILED", "DRAINING"}
              => s.svc \in {"FAILED", "DRAINING"} /\ s.start <= row.start
    PROVE  MayStore(t, s)
  BY DEF MayStore

\* Who starts, and what he found.
LEMMA StartKnows ==
    ASSUME Steady, IInv, LocalInv, LockInv, Known, NEW t \in Thread, thread[t].pc = "start"
    PROVE  /\ t # Reconciler => row.svc = "NONE"
           /\ row.svc = "NONE" => thread[t].why = "planner" \/ boot # {}
           /\ row.start < StartMaxAttempts
  <1>1. /\ Knows(thread[t], row, proc, issued, boot) /\ Local(t, thread[t]) /\ Shaped(row, issued)
    BY SelfKnows
  <1>2. Rounds(t) => t = Reconciler
    BY DEF Rounds, Steady
  <1>3. thread[t].why = "planner" => row.svc = "NONE" /\ row.start < StartMaxAttempts
    BY <1>1, LifecycleAssumption DEF Knows, Shaped
  <1>4. thread[t].why = "retry" => row.svc # "NONE" /\ row.start < StartMaxAttempts
    BY <1>1 DEF Knows
  <1>5. thread[t].why = "resume" => boot # {} /\ row.start < StartMaxAttempts
    BY <1>1 DEF Knows
  <1>6. thread[t].why \in {"planner", "retry", "resume"} /\ (~Rounds(t) => thread[t].why = "planner")
    BY <1>1 DEF Local
  <1>. QED BY <1>2, <1>3, <1>4, <1>5, <1>6

LEMMA StartServiceKnown ==
    ASSUME Steady, IInv, IInv', LocalInv, LockInv, Known, NEW t \in Thread, StartService(t)
    PROVE  Known'
  <1>1. /\ boot' = boot /\ proc' = proc /\ reach' = reach /\ issued' = issued
        /\ thread[t].pc = "start" /\ thread[t].pc # "idle"
    BY DEF StartService, nodeVars
  <1>2. /\ t # Reconciler => boot = {} /\ row.svc = "NONE"
        /\ row.svc = "NONE" => thread[t].why = "planner" \/ boot # {}
        /\ row.start < StartMaxAttempts
        /\ row \in Row /\ row \in LeaseRow /\ row.start \in Nat /\ thread[t].copy.role \in AnyRole
        /\ Shaped(row, issued) /\ Contained(row, proc)
    BY <1>1, SelfKnows, StartKnows DEF Row
  <1>3. PICK role : role = thread[t].copy.role
    OBVIOUS
  <1>4. PICK next : next = [row EXCEPT !.role = role, !.svc = "STARTING", !.start = @ + 1]
    OBVIOUS
  <1>5. \/ row' = row /\ End(t)
        \/ /\ row.inst = "IDLE" /\ ~HasUpdate(row)
           /\ \E o : Commit(next, o)
           /\ WriteHold(t, "launch", next, thread[t].why)
    BY <1>3, <1>4 DEF StartService, dbVars
  <1>6. CASE row' = row /\ End(t)
    BY <1>1, <1>2, <1>6, EndKnown
  <1>7. ASSUME NEW o, Commit(next, o), row.inst = "IDLE", ~HasUpdate(row),
               WriteHold(t, "launch", next, thread[t].why)
        PROVE  Known'
    <2>1. /\ next.inst = "IDLE" /\ next.svc = "STARTING" /\ next.role = role /\ next.ident = row.ident
          /\ next.start = row.start + 1 /\ next.rearms = row.rearms /\ next.pu = row.pu
          /\ next \in Row
      <3>1. row.start + 1 \in Nat /\ role \in AnyRole /\ "STARTING" \in ServiceState
        BY <1>2, <1>3 DEF ServiceState
      <3>. QED BY <1>2, <1>4, <1>7, <3>1 DEF Row
    <2>2. next.role # NoRole
      BY <1>7, <2>1, RoleAssumption DEF Commit, Accepts, CheckCombination, LiveService
    <2>3. next.start <= StartMaxAttempts
      BY <1>2, <2>1, LifecycleAssumption
    <2>4. Shaped(next, issued)
      BY <1>2, <1>7, <2>1, <2>2, <2>3 DEF Shaped, HasUpdate
    <2>5. Contained(next, proc)
      BY <1>2, <2>1 DEF Contained
    <2>6. MayStore(t, next)
      BY <1>2, <2>1, <2>4, <2>5 DEF MayStore
    <2>7. Plain(At("launch", next, thread[t].why))
      BY DEF Plain, At
    <2>. QED BY <1>1, <1>7, <2>6, <2>7, StoreGoesKnown
  <1>. QED BY <1>5, <1>6, <1>7

\* Whoever holds a copy of a row with a service may find that the start failed.
LEMMA HolderKnows ==
    ASSUME IInv, LocalInv, LockInv, Known, NEW t \in Thread, thread[t].pc # "idle",
           Holding(thread[t]), thread[t].copy.svc # "NONE", NEW why
    PROVE  \A p : Knows(At("fail", thread[t].copy, why), row, p, issued, boot)
  <1>1. PICK c : c = thread[t].copy
    OBVIOUS
  <1>2. thread[t].pc # "start"
    BY DEF Holding, Owner, Returning
  <1>3. /\ Shaped(c, issued) /\ c.ident = row.ident /\ c.svc = row.svc
        /\ c.svc # "NONE"
    BY <1>1, <1>2, SelfKnows
  <1>4. \A p : Knows(At("fail", c, why), row, p, issued, boot)
    BY <1>3 DEF Knows, At
  <1>. QED BY <1>1, <1>4

\* A holder of a copy with a service goes on with it.
LEMMA HolderGoesKnown ==
    ASSUME Steady, IInv, IInv', LocalInv, LockInv, Known, NEW t \in Thread, thread[t].pc # "idle",
           Holding(thread[t]), thread[t].copy.svc # "NONE", NEW pc, NEW copy, NEW why,
           Goto(t, pc, copy, why), why = "planner" => thread[t].why = "planner",
           boot' = boot, row' = row, proc' = proc, reach' = reach, issued' = issued,
           \/ pc = "fail" /\ copy = thread[t].copy
           \/ pc \in {"health", "healthy", "open", "serve"} /\ Shaped(copy, issued)
    PROVE  Known'
  <1>1. t # Reconciler => boot = {}
    BY SelfKnows
  <1>2. CASE pc = "fail" /\ copy = thread[t].copy
    <2>1. Knows(At(pc, copy, why), row, proc, issued, boot)
      BY <1>2, HolderKnows
    <2>. QED BY <1>1, <2>1, MovesKnown
  <1>3. CASE pc \in {"health", "healthy", "open", "serve"} /\ Shaped(copy, issued)
    <2>1. Plain(At(pc, copy, why))
      BY <1>3 DEF Plain, At
    <2>. QED BY <1>1, <1>3, <2>1, GoesKnown
  <1>. QED BY <1>2, <1>3

\* The container of a service that is driven changes, but is still there.
LEMMA ServiceMoves ==
    ASSUME IInv, Known, NEW i, i = row.ident, NEW p, p.phase # "GONE", reach[i],
           row.svc # "NONE", row' = row, issued' = issued, reach' = reach,
           proc' = [proc EXCEPT ![i] = p]
    PROVE  /\ ContainersMove /\ Shaped(row', issued') /\ Contained(row', proc') /\ Reachable'
           /\ \A t \in Thread : (t # Reconciler => boot = {}) => RowKeeps(t)
  <1>1. /\ issued \in Nat /\ row.ident \in Ident /\ i \in Ident
        /\ Shaped(row, issued) /\ Contained(row, proc) /\ Reachable
        /\ row.start \in Nat /\ row.ident \in Nat
    BY DEF IInv, NodeOK, Ident, RowOK, LeaseRow, Row, Known
  <1>2. proc[i].phase # "GONE"
    BY <1>1 DEF Reachable
  <1>3. \A j \in Ident : proc'[j] = IF j = i THEN p ELSE proc[j]
    BY DEF IInv, NodeOK
  <1>4. ContainersMove
    BY <1>1, <1>2, <1>3 DEF ContainersMove
  <1>5. Contained(row, proc')
    BY <1>1, <1>2, <1>3 DEF Contained, Shaped, Ident
  <1>6. Reachable'
    BY <1>1, <1>3 DEF Reachable
  <1>7. \A t \in Thread : (t # Reconciler => boot = {}) => RowKeeps(t)
    BY <1>1 DEF RowKeeps
  <1>8. Shaped(row', issued') /\ Contained(row', proc')
    BY <1>1, <1>5
  <1>. QED BY <1>4, <1>6, <1>7, <1>8

LEMMA LaunchKnown ==
    ASSUME Steady, IInv, IInv', LocalInv, LockInv, Known, NEW t \in Thread, Launch(t)
    PROVE  Known'
  <1>1. /\ boot' = boot /\ row' = row /\ reach' = reach /\ issued' = issued
        /\ thread[t].pc = "launch" /\ thread[t].pc # "idle"
    BY DEF Launch, dbVars
  <1>2. Holding(thread[t]) /\ thread[t].copy.svc = "STARTING"
    BY <1>1, SelfKnows DEF Holding, Owner, Local, ServiceAt
  <1>3. PICK i \in Ident : i = thread[t].copy.ident
    BY <1>1, SelfKnows
  <1>4. /\ t # Reconciler => boot = {}
        /\ i = row.ident /\ row.svc = "STARTING" /\ Shaped(thread[t].copy, issued)
    BY <1>1, <1>2, <1>3, SelfKnows
  <1>5. PICK pc \in {"health", "fail"} : Goto(t, pc, thread[t].copy, thread[t].why)
    BY DEF Launch
  <1>6. \/ proc' = proc
        \/ reach[i] /\ \E p : p.phase \in {"RUNNING", "FAILED"} /\ proc' = [proc EXCEPT ![i] = p]
    <2>1. Running(thread[t].copy.role).phase = "RUNNING"
          /\ Exited(Running(thread[t].copy.role)).phase = "FAILED"
      BY DEF Running, Exited
    <2>. QED BY <1>3, <2>1 DEF Launch, BootstrapAnswers
  <1>7. CASE proc' = proc
    BY <1>1, <1>2, <1>4, <1>5, <1>7, HolderGoesKnown
  <1>8. ASSUME NEW p, p.phase \in {"RUNNING", "FAILED"}, proc' = [proc EXCEPT ![i] = p], reach[i]
        PROVE  Known'
    <2>1. /\ ContainersMove /\ Shaped(row', issued') /\ Contained(row', proc') /\ Reachable'
          /\ RowKeeps(t)
      BY <1>1, <1>4, <1>8, ServiceMoves
    <2>2. PICK x : x = At(pc, thread[t].copy, thread[t].why)
      OBVIOUS
    <2>3. Knows(x, row, proc', issued, boot)
      <3>1. CASE pc = "fail"
        BY <1>1, <1>2, <2>2, <3>1, HolderKnows
      <3>2. CASE pc = "health"
        <4>1. Plain(x) /\ x.copy = thread[t].copy
          BY <2>2, <3>2 DEF Plain, At
        <4>. QED BY <1>4, <4>1, PlainKnows
      <3>. QED BY <3>1, <3>2
    <2>4. thread' = [thread EXCEPT ![t] = x] /\ x.why = thread[t].why
      BY <1>5, <2>2 DEF Goto, At
    <2>5. OnePlanner'
      BY <2>4, OnePlannerStays DEF Known
    <2>6. Knows(x, row', proc', issued', boot')
      BY <1>1, <2>3
    <2>. QED BY <1>1, <2>1, <2>4, <2>5, <2>6, KnownStep
  <1>. QED BY <1>6, <1>7, <1>8

LEMMA HealthKnown ==
    ASSUME Steady, IInv, IInv', LocalInv, LockInv, Known, NEW t \in Thread, Health(t)
    PROVE  Known'
  <1>1. /\ boot' = boot /\ row' = row /\ proc' = proc /\ reach' = reach /\ issued' = issued
        /\ thread[t].pc = "health" /\ thread[t].pc # "idle"
    BY DEF Health, dbVars, nodeVars
  <1>2. Holding(thread[t]) /\ thread[t].copy.svc = "STARTING" /\ Shaped(thread[t].copy, issued)
    BY <1>1, SelfKnows DEF Holding, Owner, Local, ServiceAt
  <1>3. \E pc \in {"healthy", "fail"} : Goto(t, pc, thread[t].copy, thread[t].why)
    BY DEF Health
  <1>. QED BY <1>1, <1>2, <1>3, HolderGoesKnown

LEMMA AdvanceKnown ==
    ASSUME Steady, IInv, IInv', LocalInv, LockInv, Known, NEW t \in Thread, Advance(t)
    PROVE  Known'
  <1>1. /\ boot' = boot /\ proc' = proc /\ reach' = reach /\ issued' = issued
        /\ thread[t].pc \in {"restarting", "healthy", "registering"} /\ thread[t].pc # "idle"
    BY DEF Advance, nodeVars
  <1>2. PICK c, s, place : c = thread[t].copy /\ s = NextService(thread[t].pc) /\ place = NextPlace(thread[t].pc)
    OBVIOUS
  <1>3. s \in LiveService /\ s \in ServiceState /\ place \in {"healthy", "registering", "register"}
    BY <1>1, <1>2 DEF NextService, NextPlace, LiveService, ServiceState
  <1>4. /\ c \in Row /\ Shaped(c, issued) /\ c.ident = row.ident /\ c.inst = row.inst /\ c.svc = row.svc
        /\ row.svc \in {"STARTING", "HEALTHY", "FAILED"}
        /\ row.svc = "FAILED" => t = Reconciler
        /\ t # Reconciler => boot = {}
        /\ Contained(row, proc)
    <2>1. Holding(thread[t]) /\ thread[t].pc # "start"
      BY <1>1 DEF Holding, Owner
    <2>2. Local(t, thread[t])
      BY <1>1, SelfKnows
    <2>3. /\ thread[t].copy.svc \in {"STARTING", "HEALTHY", "FAILED"}
          /\ thread[t].copy.svc = "FAILED" => Rounds(t)
      BY <1>1, <2>2 DEF Local, ServiceAt, RoundPlace
    <2>4. Rounds(t) => t = Reconciler
      BY DEF Rounds, Steady
    <2>. QED BY <1>1, <1>2, <2>1, <2>3, <2>4, SelfKnows
  <1>5. PICK next : next = [c EXCEPT !.svc = s]
    OBVIOUS
  <1>6. \/ row' = row /\ End(t)
        \/ Commit(next, ops) /\ WriteGoto(t, place, next, thread[t].why)
    BY <1>2, <1>5 DEF Advance, Refused, dbVars
  <1>7. CASE row' = row /\ End(t)
    BY <1>1, <1>4, <1>7, EndKnown
  <1>8. CASE Commit(next, ops) /\ WriteGoto(t, place, next, thread[t].why)
    <2>1. /\ next.inst = c.inst /\ next.svc = s /\ next.role = c.role /\ next.ident = c.ident
          /\ next.start = c.start /\ next.rearms = c.rearms /\ next.pu = c.pu /\ next.worker = c.worker
          /\ next \in Row
      BY <1>3, <1>4, <1>5 DEF Row
    <2>2. next.role # NoRole /\ next.svc # "NONE"
      BY <1>3, <1>8, <2>1, RoleAssumption DEF Commit, Accepts, CheckCombination, LiveService
    <2>3. Shaped(next, issued)
      BY <1>4, <2>1, <2>2 DEF Shaped, HasUpdate
    <2>4. Contained(next, proc)
      BY <1>4, <2>1 DEF Contained
    <2>5. MayStore(t, next)
      BY <1>4, <2>1, <2>2, <2>3, <2>4, StoresServed
    <2>6. Plain(At(place, next, thread[t].why))
      BY <1>3 DEF Plain, At
    <2>. QED BY <1>1, <1>8, <2>5, <2>6, StoreGoesKnown
  <1>. QED BY <1>6, <1>7, <1>8

\* A holder that stores what it has and ends, or is refused and ends.
LEMMA HolderStoresKnown ==
    ASSUME Steady, IInv, IInv', LocalInv, LockInv, Known, NEW t \in Thread, thread[t].pc # "idle",
           NEW next, MayStore(t, next),
           (\E o : Commit(next, o) /\ WriteEnd(t)) \/ (row' = row /\ End(t)),
           boot' = boot, proc' = proc, reach' = reach, issued' = issued
    PROVE  Known'
  <1>1. t # Reconciler => boot = {}
    BY SelfKnows
  <1>2. CASE \E o : Commit(next, o) /\ WriteEnd(t)
    BY <1>2, StoreEndKnown
  <1>3. CASE row' = row /\ End(t)
    BY <1>1, <1>3, EndKnown
  <1>. QED BY <1>2, <1>3

LEMMA RegisterKnown ==
    ASSUME Steady, IInv, IInv', LocalInv, LockInv, Known, NEW t \in Thread, Register(t)
    PROVE  Known'
  <1>1. /\ boot' = boot /\ row' = row /\ proc' = proc /\ reach' = reach /\ issued' = issued
        /\ thread[t].pc = "register" /\ thread[t].pc # "idle"
    BY DEF Register, dbVars, nodeVars
  <1>2. /\ Holding(thread[t]) /\ thread[t].copy.svc # "NONE" /\ Shaped(thread[t].copy, issued)
        /\ thread[t].copy \in Row
    BY <1>1, SelfKnows DEF Holding, Owner, Local, ServiceAt
  <1>3. PICK copy : copy = [thread[t].copy EXCEPT !.worker = WorkerId(thread[t].copy.ident)]
    OBVIOUS
  <1>4. Shaped(copy, issued)
    BY <1>2, <1>3 DEF Shaped, HasUpdate, Row
  <1>5. \/ \E why \in {"settled", thread[t].why} : Goto(t, "open", copy, why)
        \/ Goto(t, "fail", thread[t].copy, RouterFailure(thread[t].why))
    BY <1>3 DEF Register
  <1>6. RouterFailure(thread[t].why) = "planner" => thread[t].why = "planner"
    BY DEF RouterFailure
  <1>7. CASE Goto(t, "fail", thread[t].copy, RouterFailure(thread[t].why))
    BY <1>1, <1>2, <1>6, <1>7, HolderGoesKnown
  <1>8. ASSUME NEW why \in {"settled", thread[t].why}, Goto(t, "open", copy, why)
        PROVE  Known'
    BY <1>1, <1>2, <1>4, <1>8, HolderGoesKnown
  <1>. QED BY <1>5, <1>7, <1>8

LEMMA OpenKnown ==
    ASSUME Steady, IInv, IInv', LocalInv, LockInv, Known, NEW t \in Thread, Open(t)
    PROVE  Known'
  <1>1. /\ boot' = boot /\ row' = row /\ proc' = proc /\ reach' = reach /\ issued' = issued
        /\ thread[t].pc = "open" /\ thread[t].pc # "idle"
    BY DEF Open, dbVars, nodeVars
  <1>2. /\ Holding(thread[t]) /\ thread[t].copy.svc # "NONE" /\ Shaped(thread[t].copy, issued)
        /\ t # Reconciler => boot = {}
    BY <1>1, SelfKnows DEF Holding, Owner, Local, ServiceAt
  <1>3. RouterFailure(thread[t].why) = "planner" => thread[t].why = "planner"
    BY DEF RouterFailure
  <1>4. CASE End(t)
    BY <1>1, <1>2, <1>4, EndKnown
  <1>5. CASE Goto(t, "serve", thread[t].copy, thread[t].why)
    BY <1>1, <1>2, <1>5, HolderGoesKnown
  <1>6. CASE Goto(t, "fail", thread[t].copy, RouterFailure(thread[t].why))
    BY <1>1, <1>2, <1>3, <1>6, HolderGoesKnown
  <1>. QED BY <1>4, <1>5, <1>6 DEF Open

LEMMA ServeKnown ==
    ASSUME Steady, IInv, IInv', LocalInv, LockInv, Known, NEW t \in Thread, Serve(t)
    PROVE  Known'
  <1>1. /\ boot' = boot /\ proc' = proc /\ reach' = reach /\ issued' = issued
        /\ thread[t].pc = "serve" /\ thread[t].pc # "idle"
    BY DEF Serve, nodeVars
  <1>2. PICK c : c = thread[t].copy
    OBVIOUS
  <1>3. /\ c \in Row /\ c \in LeaseRow /\ Shaped(c, issued) /\ c.ident = row.ident /\ c.inst = row.inst
        /\ c.svc = row.svc /\ c.svc \in {"REGISTERING", "SERVING"}
        /\ Contained(row, proc)
        /\ t # Reconciler => boot = {}
    BY <1>1, <1>2, SelfKnows DEF Holding, Owner, Local, ServiceAt
  <1>4. PICK next : next = ServingRow(c)
    OBVIOUS
  <1>5. /\ next \in Row /\ next.svc = "SERVING" /\ next.role = c.role /\ next.inst = c.inst
        /\ next.ident = c.ident /\ next.pu = c.pu
        /\ next.start \in {c.start, 0} /\ next.rearms \in {c.rearms, 0}
    <2>1. next \in Row
      BY <1>3, <1>4, BuiltRows DEF LeaseRow
    <2>2. CASE c.svc = "SERVING"
      BY <1>3, <1>4, <2>1, <2>2 DEF ServingRow
    <2>3. CASE c.svc # "SERVING"
      BY <1>3, <1>4, <2>1, <2>3 DEF ServingRow, Row
    <2>. QED BY <2>2, <2>3
  <1>6. Shaped(next, issued)
    BY <1>3, <1>5, LifecycleAssumption DEF Shaped, HasUpdate
  <1>7. Contained(next, proc)
    <2>1. next.ident = row.ident /\ next.inst = row.inst /\ Contained(row, proc)
      BY <1>3, <1>5
    <2>. QED BY <2>1 DEF Contained
  <1>8. MayStore(t, next)
    <2>1. /\ next \in Row /\ next.svc # "NONE" /\ next.ident = row.ident /\ row.svc # "NONE"
          /\ row.svc \notin {"FAILED", "DRAINING"}
          /\ t # Reconciler => boot = {}
      BY <1>3, <1>5
    <2>. QED BY <1>6, <1>7, <2>1, StoresServed
  <1>9. (\E o : Commit(next, o) /\ WriteEnd(t)) \/ (row' = row /\ End(t))
    BY <1>2, <1>4 DEF Serve, Refused, dbVars
  <1>. QED BY <1>1, <1>8, <1>9, HolderStoresKnown

LEMMA FailStartKnown ==
    ASSUME Steady, IInv, IInv', LocalInv, LockInv, Known, NEW t \in Thread, FailStart(t)
    PROVE  Known'
  <1>1. /\ boot' = boot /\ proc' = proc /\ reach' = reach /\ issued' = issued
        /\ thread[t].pc = "fail" /\ thread[t].pc # "idle"
    BY DEF FailStart, nodeVars
  <1>2. PICK c : c = thread[t].copy
    OBVIOUS
  <1>3. /\ c \in Row /\ c \in LeaseRow /\ Shaped(c, issued) /\ c.svc # "NONE"
        /\ row.svc # "NONE" /\ row.ident = c.ident
        /\ Contained(row, proc)
        /\ t # Reconciler => boot = {}
        /\ t # Reconciler => row.svc \in LiveService
        /\ c.inst \in {"IDLE", row.inst}
    <2>1. Knows(thread[t], row, proc, issued, boot) /\ Local(t, thread[t])
          /\ Fits(t, thread[t], lock, boot, row)
      BY <1>1, SelfKnows, SelfFits
    <2>2. c.inst \in {"IDLE", row.inst}
      BY <1>1, <1>2, <2>1 DEF Fits, Stands, Same
    <2>3. Rounds(t) => t = Reconciler
      BY DEF Rounds, Steady
    <2>4. CASE thread[t].why = ""
      <3>1. t = Reconciler
        BY <1>1, <2>1, <2>3, <2>4 DEF Local, StartPlace
      <3>. QED BY <1>1, <1>2, <2>1, <2>2, <2>4, <3>1, SelfKnows DEF Knows
    <2>5. CASE thread[t].why # ""
      <3>1. Holding(thread[t])
        BY <1>1, <2>5 DEF Holding
      <3>2. c.svc # "NONE" /\ (t # Reconciler => c.svc \in LiveService)
        BY <1>1, <1>2, <2>1, <2>3 DEF Local, Knows
      <3>. QED BY <1>1, <1>2, <2>2, <3>1, <3>2, SelfKnows
    <2>. QED BY <2>4, <2>5
  <1>4. PICK next : next = FailedRow(c)
    OBVIOUS
  <1>5. /\ next \in Row /\ next.svc = "FAILED" /\ next.role = c.role /\ next.inst = c.inst
        /\ next.ident = c.ident /\ next.pu = c.pu /\ next.start = c.start /\ next.rearms = c.rearms
    <2>1. next \in Row
      BY <1>3, <1>4, BuiltRows DEF LeaseRow
    <2>. QED BY <1>3, <1>4, <2>1 DEF FailedRow, Row
  <1>6. Shaped(next, issued)
    BY <1>3, <1>5 DEF Shaped, HasUpdate
  <1>7. Contained(next, proc)
    <2>1. /\ next.ident = row.ident /\ next.inst \in {"IDLE", row.inst} /\ next.svc # "NONE"
          /\ Contained(row, proc)
      BY <1>3, <1>5
    <2>. QED BY <2>1 DEF Contained
  <1>8. MayStore(t, next)
    <2>1. /\ next \in Row /\ next.svc # "NONE" /\ next.ident = row.ident /\ row.svc # "NONE"
          /\ t # Reconciler => boot = {} /\ row.svc \notin {"FAILED", "DRAINING"}
      BY <1>3, <1>5 DEF LiveService
    <2>. QED BY <1>6, <1>7, <2>1, StoresServed
  <1>9. (\E o : Commit(next, o) /\ WriteEnd(t)) \/ (row' = row /\ End(t))
    BY <1>2, <1>4 DEF FailStart, Refused, dbVars
  <1>. QED BY <1>1, <1>8, <1>9, HolderStoresKnown

-----------------------------------------------------------------------------
(***************************************************************************)
(* Draining and releasing.                                                 *)
(***************************************************************************)

\* A goroutine takes the row as its copy, or goes on with the copy it has.
LEMMA RowGoesKnown ==
    ASSUME Steady, IInv, IInv', LocalInv, LockInv, Known, NEW t \in Thread,
           NEW pc, NEW copy, NEW why,
           Goto(t, pc, copy, why) \/ Hold(t, pc, copy, why),
           pc \notin {"unreach", "lost", "prepfail", "probe", "act", "prepared", "fail", "start"},
           copy = row \/ Shaped(copy, issued),
           t # Reconciler => boot = {}, why = "planner" => thread[t].why = "planner",
           boot' = boot, row' = row, proc' = proc, reach' = reach, issued' = issued
    PROVE  Known'
  <1>1. Plain(At(pc, copy, why))
    BY DEF Plain, At
  <1>2. Shaped(copy, issued)
    BY DEF Known
  <1>. QED BY <1>1, <1>2, GoesKnown

LEMMA DrainErrorKnown ==
    ASSUME Steady, IInv, IInv', LocalInv, LockInv, Known, NEW t \in Thread, thread[t].pc # "idle",
           DrainError(t, row, thread[t].why),
           boot' = boot, row' = row, proc' = proc, reach' = reach, issued' = issued
    PROVE  Known'
  <1>1. t # Reconciler => boot = {}
    BY SelfKnows
  <1>2. CASE End(t)
    BY <1>1, <1>2, EndKnown
  <1>3. CASE Hold(t, "reclaimerr", row, thread[t].why)
    BY <1>1, <1>3, RowGoesKnown
  <1>. QED BY <1>2, <1>3 DEF DrainError

LEMMA BeginDrainKnown ==
    ASSUME Steady, IInv, IInv', LocalInv, LockInv, Known, NEW t \in Thread, BeginDrain(t)
    PROVE  Known'
  <1>1. /\ boot' = boot /\ row' = row /\ proc' = proc /\ reach' = reach /\ issued' = issued
        /\ thread[t].pc # "idle"
    BY DEF BeginDrain, dbVars, nodeVars
  <1>2. /\ Shaped(row, issued) /\ row \in Row
        /\ t # Reconciler => boot = {}
    BY <1>1, SelfKnows
  <1>3. PICK copy : copy = [row EXCEPT !.worker = ResolvedWorker(row)]
    OBVIOUS
  <1>4. row.svc \notin {"NONE", "DRAINING"} => Shaped(copy, issued)
    BY <1>2, <1>3 DEF Shaped, HasUpdate, Row
  <1>5. \/ End(t)
        \/ Hold(t, "release", row, thread[t].why)
        \/ row.svc \notin {"NONE", "DRAINING"} /\ Hold(t, "draincommit", copy, thread[t].why)
        \/ DrainError(t, row, thread[t].why)
    BY <1>3 DEF BeginDrain
  <1>6. CASE End(t)
    BY <1>1, <1>2, <1>6, EndKnown
  <1>7. CASE Hold(t, "release", row, thread[t].why)
    BY <1>1, <1>2, <1>7, RowGoesKnown
  <1>8. CASE row.svc \notin {"NONE", "DRAINING"} /\ Hold(t, "draincommit", copy, thread[t].why)
    BY <1>1, <1>2, <1>4, <1>8, RowGoesKnown
  <1>9. CASE DrainError(t, row, thread[t].why)
    BY <1>1, <1>9, DrainErrorKnown
  <1>. QED BY <1>5, <1>6, <1>7, <1>8, <1>9

LEMMA DrainCommitKnown ==
    ASSUME Steady, IInv, IInv', LocalInv, LockInv, Known, NEW t \in Thread, DrainCommit(t)
    PROVE  Known'
  <1>1. /\ boot' = boot /\ proc' = proc /\ reach' = reach /\ issued' = issued
        /\ thread[t].pc = "draincommit" /\ thread[t].pc # "idle"
    BY DEF DrainCommit, nodeVars
  <1>2. PICK c : c = thread[t].copy
    OBVIOUS
  <1>3. /\ c \in Row /\ Shaped(c, issued) /\ c.ident = row.ident /\ c.inst = row.inst
        /\ c.start = row.start /\ c.svc # "NONE" /\ row.svc # "NONE" /\ Contained(row, proc)
        /\ t # Reconciler => boot = {}
    BY <1>1, <1>2, SelfKnows DEF Holding, Owner, Local, ServiceAt
  <1>4. PICK next : next = [c EXCEPT !.svc = "DRAINING", !.deadline = TRUE, !.pr = Releases(thread[t].why)]
    OBVIOUS
  <1>5. Releases(thread[t].why) \in BOOLEAN
    BY DEF Releases
  <1>6. /\ next \in Row /\ next.svc = "DRAINING" /\ next.role = c.role /\ next.inst = c.inst
        /\ next.ident = c.ident /\ next.pu = c.pu /\ next.start = c.start /\ next.rearms = c.rearms
    BY <1>3, <1>4, <1>5 DEF Row, ServiceState
  <1>7. Shaped(next, issued)
    BY <1>3, <1>6 DEF Shaped, HasUpdate
  <1>8. Contained(next, proc)
    <2>1. next.ident = row.ident /\ next.inst = row.inst /\ Contained(row, proc)
      BY <1>3, <1>6
    <2>. QED BY <2>1 DEF Contained
  <1>9. row.start \in Nat
    BY DEF IInv, RowOK, LeaseRow, Row
  <1>10. MayStore(t, next)
    BY <1>3, <1>6, <1>7, <1>8, <1>9, StoresServed
  <1>11. \/ \E o : Commit(next, o) /\ WriteHold(t, "finish", Merged(row, next), thread[t].why)
         \/ \E o : Commit(next, o) /\ WriteEnd(t)
         \/ row' = row /\ DrainError(t, row, thread[t].why)
    BY <1>2, <1>4 DEF DrainCommit, Refused, dbVars
  <1>12. ASSUME NEW o, Commit(next, o), WriteHold(t, "finish", Merged(row, next), thread[t].why)
         PROVE  Known'
    <2>1. Plain(At("finish", row', thread[t].why))
      BY DEF Plain, At
    <2>2. WriteHold(t, "finish", row', thread[t].why)
      BY <1>12 DEF Commit
    <2>. QED BY <1>1, <1>10, <1>12, <2>1, <2>2, StoreGoesKnown
  <1>13. CASE \E o : Commit(next, o) /\ WriteEnd(t)
    BY <1>1, <1>10, <1>13, HolderStoresKnown
  <1>14. CASE row' = row /\ DrainError(t, row, thread[t].why)
    BY <1>1, <1>14, DrainErrorKnown
  <1>. QED BY <1>11, <1>12, <1>13, <1>14

LEMMA ReclaimErrKnown ==
    ASSUME Steady, IInv, IInv', LocalInv, LockInv, Known, NEW t \in Thread, ReclaimErr(t)
    PROVE  Known'
  <1>1. /\ boot' = boot /\ proc' = proc /\ reach' = reach /\ issued' = issued
        /\ thread[t].pc # "idle"
    BY DEF ReclaimErr, nodeVars
  <1>2. /\ row \in Row /\ row.start \in Nat /\ Shaped(row, issued) /\ Contained(row, proc)
        /\ t # Reconciler => boot = {}
    BY <1>1, SelfKnows DEF Row
  <1>3. PICK next : next = [row EXCEPT !.svc = IF @ \in {"NONE", "DRAINING"} THEN @ ELSE "FAILED"]
    OBVIOUS
  <1>4. /\ next \in Row /\ next.role = row.role /\ next.inst = row.inst /\ next.worker = row.worker
        /\ next.ident = row.ident /\ next.pu = row.pu /\ next.start = row.start /\ next.rearms = row.rearms
        /\ next.svc = IF row.svc \in {"NONE", "DRAINING"} THEN row.svc ELSE "FAILED"
    BY <1>2, <1>3 DEF Row, ServiceState
  <1>5. Shaped(next, issued)
    BY <1>2, <1>4 DEF Shaped, HasUpdate
  <1>6. Contained(next, proc)
    BY <1>2, <1>4 DEF Contained
  <1>7. MayStore(t, next)
    BY <1>2, <1>4, <1>5, <1>6 DEF MayStore, Shaped
  <1>8. (\E o : Commit(next, o) /\ WriteEnd(t)) \/ (row' = row /\ End(t))
    BY <1>3 DEF ReclaimErr, dbVars
  <1>. QED BY <1>1, <1>7, <1>8, HolderStoresKnown

LEMMA FinishDrainKnown ==
    ASSUME Steady, IInv, IInv', LocalInv, LockInv, Known, NEW t \in Thread, FinishDrain(t)
    PROVE  Known'
  <1>1. /\ boot' = boot /\ row' = row /\ reach' = reach /\ issued' = issued
        /\ thread[t].pc # "idle"
    BY DEF FinishDrain, dbVars
  <1>2. /\ Shaped(row, issued)
        /\ t # Reconciler => boot = {}
    BY <1>1, SelfKnows
  <1>3. PICK i : i = row.ident
    OBVIOUS
  <1>4. \/ proc' = proc /\ End(t)
        \/ /\ \E pc \in {"drained", "drainfail"} : Hold(t, pc, row, thread[t].why)
           /\ proc' = proc \/ (reach[i] /\ row.svc = "DRAINING" /\ proc' = Stopped(i))
    BY <1>3 DEF FinishDrain, BootstrapAnswers
  <1>5. CASE proc' = proc /\ End(t)
    BY <1>1, <1>2, <1>5, EndKnown
  <1>6. ASSUME NEW pc \in {"drained", "drainfail"}, Hold(t, pc, row, thread[t].why), proc' = proc
        PROVE  Known'
    BY <1>1, <1>2, <1>6, RowGoesKnown
  <1>7. ASSUME NEW pc \in {"drained", "drainfail"}, Hold(t, pc, row, thread[t].why),
               reach[i], row.svc = "DRAINING", proc' = Stopped(i)
        PROVE  Known'
    <2>1. PICK p : p = [[proc[i] EXCEPT !.phase = "STOPPED"] EXCEPT !.ok = FALSE]
      OBVIOUS
    <2>2. i \in Ident /\ proc[i] \in [phase : Phase, role : AnyRole, ok : BOOLEAN]
          /\ proc \in [Ident -> [phase : Phase, role : AnyRole, ok : BOOLEAN]]
      BY <1>3 DEF IInv, RowOK, LeaseRow, NodeOK
    <2>3. p.phase = "STOPPED"
      BY <2>1, <2>2
    <2>4. proc' = [proc EXCEPT ![i] = p]
      BY <1>7, <2>1, <2>2 DEF Stopped
    <2>5. /\ ContainersMove /\ Shaped(row', issued') /\ Contained(row', proc') /\ Reachable'
          /\ RowKeeps(t)
      BY <1>1, <1>2, <1>3, <1>7, <2>3, <2>4, ServiceMoves
    <2>6. PICK x : x = At(pc, row, thread[t].why)
      OBVIOUS
    <2>7. thread' = [thread EXCEPT ![t] = x] /\ x.why = thread[t].why
      BY <1>7, <2>6 DEF Hold, At
    <2>8. Plain(x) /\ x.copy = row
      BY <2>6 DEF Plain, At
    <2>9. Knows(x, row', proc', issued', boot')
      BY <1>1, <1>2, <2>8, PlainKnows
    <2>10. OnePlanner'
      BY <2>7, OnePlannerStays DEF Known
    <2>. QED BY <1>1, <2>5, <2>7, <2>9, <2>10, KnownStep
  <1>. QED BY <1>4, <1>5, <1>6, <1>7

\* While a reclaim is pending, an update in the request makes no difference.
LEMMA ReclaimedCommit ==
    ASSUME row.pr, NEW next \in Row, NEW o, Commit(next, o)
    PROVE  Commit([next EXCEPT !.pu = NoUpdate], o)
  <1>1. PICK s : s = [next EXCEPT !.pu = NoUpdate]
    OBVIOUS
  <1>2. /\ s.inst = next.inst /\ s.svc = next.svc /\ s.role = next.role /\ s.ident = next.ident
        /\ s.pr = next.pr /\ s.seen = next.seen /\ s.deadline = next.deadline
    BY <1>1 DEF Row
  <1>3. Accepts(row, s)
    BY <1>2 DEF Commit, Accepts, UnderReclaim, ValidateTransition, CheckCombination
  <1>4. Merged(row, s) = Merged(row, next)
    <2>1. UnderReclaim(row, s) = UnderReclaim(row, next)
      BY <1>2 DEF UnderReclaim
    <2>2. \A pr : (pr <=> (UnderReclaim(row, next) \/ next.pr)) =>
             KeptUpdate(row, s, pr) = NoUpdate /\ KeptUpdate(row, next, pr) = NoUpdate
      BY <1>2 DEF KeptUpdate, UnderReclaim
    <2>3. PICK m : m = [next EXCEPT !.pr = UnderReclaim(row, next) \/ next.pr,
                                    !.deadline = IF UnderReclaim(row, next) THEN row.deadline ELSE next.deadline,
                                    !.pu = NoUpdate, !.seen = Later(next.seen, row.seen)]
      OBVIOUS
    <2>4. Merged(row, next) = m
      BY <2>2, <2>3 DEF Merged
    <2>5. Merged(row, s) = m
      BY <1>1, <1>2, <2>1, <2>2, <2>3 DEF Merged, Row
    <2>. QED BY <2>4, <2>5
  <1>. QED BY <1>1, <1>3, <1>4 DEF Commit

\* Only the reconcile loop and Recover finish drains.
LEMMA DrainerIs ==
    ASSUME Steady, IInv, LocalInv, LockInv, Known, NEW t \in Thread, thread[t].pc \in {"drained", "drainfail"}
    PROVE  /\ t = Reconciler /\ thread[t].pc # "idle"
           /\ thread[t].copy \in LeaseRow /\ thread[t].copy \in Row /\ Shaped(thread[t].copy, issued)
           /\ thread[t].copy.ident = row.ident /\ thread[t].copy.inst = row.inst
           /\ thread[t].copy.svc = "DRAINING" /\ row.svc = "DRAINING"
           /\ thread[t].copy.pr => row.pr
           /\ thread[t].copy.pu = row.pu \/ row.pr
           /\ Contained(row, proc) /\ Shaped(row, issued)
  <1>1. thread[t].pc # "idle" /\ Holding(thread[t]) /\ thread[t].pc # "start"
    BY DEF Holding, Owner
  <1>2. Local(t, thread[t])
    BY <1>1, SelfKnows
  <1>3. t = Reconciler /\ thread[t].copy.svc = "DRAINING"
    BY <1>2 DEF Local, ServiceAt, RoundPlace, Rounds, Steady
  <1>. QED BY <1>1, <1>3, SelfKnows

LEMMA DrainedKnown ==
    ASSUME Steady, IInv, IInv', LocalInv, LockInv, Known, NEW t \in Thread, Drained(t)
    PROVE  Known'
  <1>1. /\ boot' = boot /\ proc' = proc /\ reach' = reach /\ issued' = issued
        /\ thread[t].pc \in {"drained", "drainfail"} /\ thread[t].pc # "idle"
    BY DEF Drained, nodeVars
  <1>2. PICK c : c = thread[t].copy
    OBVIOUS
  <1>3. /\ t = Reconciler /\ c \in LeaseRow /\ c \in Row /\ Shaped(c, issued)
        /\ c.ident = row.ident /\ c.inst = row.inst /\ c.svc = "DRAINING" /\ row.svc = "DRAINING"
        /\ c.pr => row.pr
        /\ c.pu = row.pu \/ row.pr
    BY <1>1, <1>2, DrainerIs
  <1>4. Contained(row, proc) /\ Shaped(row, issued)
    BY <1>1, DrainerIs
  <1>5. /\ row \in Row /\ row.ident \in Nat /\ issued \in Nat
        /\ row.pu.ident \in Nat
    BY DEF IInv, RowOK, LeaseRow, Row, NodeOK, Ident
  <1>6. CASE row' = row /\ End(t)
    BY <1>1, <1>3, <1>6, EndKnown
  <1>7. PICK d : d = DrainedRow(c)
    OBVIOUS
  <1>8. d \in Row /\ /\ d.svc = "NONE" /\ d.role = NoRole /\ d.inst = c.inst /\ d.worker = c.worker
                     /\ d.ident = c.ident /\ d.pu = c.pu /\ d.start = 0 /\ d.rearms = 0
    <2>1. d \in Row
      BY <1>3, <1>7, BuiltRows DEF LeaseRow
    <2>. QED BY <1>3, <1>7, <2>1 DEF DrainedRow, Row
  <1>9. ASSUME ~(HasUpdate(c) /\ ~c.pr), NEW o, Commit(d, o),
               WriteHold(t, "release", row', "reclaim") \/ WriteEnd(t)
        PROVE  Known'
    <2>1. PICK s : s = [d EXCEPT !.pu = NoUpdate]
      OBVIOUS
    <2>2. /\ s.svc = "NONE" /\ s.role = NoRole /\ s.inst = c.inst
          /\ s.ident = c.ident /\ ~HasUpdate(s) /\ s.start = 0 /\ s.rearms = 0
          /\ s \in Row
      BY <1>8, <2>1 DEF Row, HasUpdate, NoUpdate
    <2>3. Commit(s, o)
      <3>1. CASE c.pr
        BY <1>3, <1>8, <1>9, <2>1, <3>1, ReclaimedCommit
      <3>2. CASE ~HasUpdate(c)
        BY <1>8, <1>9, <2>1, <3>2 DEF HasUpdate, Row
      <3>. QED BY <1>9, <3>1, <3>2
    <2>4. s.inst \notin {"ALLOCATING", "PREPARING"}
      BY <1>3, <2>2 DEF Shaped
    <2>5. Shaped(s, issued)
      BY <1>3, <2>2, <2>4, LifecycleAssumption DEF Shaped
    <2>6. Contained(s, proc)
      <3>1. s.ident = row.ident /\ s.inst = row.inst
        BY <1>3, <2>2
      <3>. QED BY <1>4, <3>1 DEF Contained
    <2>7. ~HasUpdate(row) \/ row.pr
      BY <1>3, <1>9 DEF HasUpdate
    <2>8. MayStore(t, s)
      BY <1>3, <2>2, <2>5, <2>6, <2>7 DEF MayStore
    <2>9. CASE WriteEnd(t)
      BY <1>1, <2>3, <2>8, <2>9, HolderStoresKnown
    <2>10. CASE WriteHold(t, "release", row', "reclaim")
      <3>1. Plain(At("release", row', "reclaim"))
        BY DEF Plain, At
      <3>. QED BY <1>1, <2>3, <2>8, <2>10, <3>1, StoreGoesKnown
    <2>. QED BY <1>9, <2>9, <2>10
  <1>10. ASSUME HasUpdate(c), ~c.pr, AcceptsUpdate(row, MovedRow(c)), row' = Updated(row, MovedRow(c)),
                WriteEnd(t)
         PROVE  Known'
    <2>1. PICK m : m = MovedRow(c)
      OBVIOUS
    <2>2. /\ m \in Row /\ m.svc = "NONE" /\ m.role = NoRole /\ m.inst = "PREPARING"
          /\ m.worker = NoWorker /\ m.start = 0 /\ m.rearms = 0
      <3>1. m \in Row
        BY <1>3, <1>10, <2>1, BuiltRows DEF LeaseRow
      <3>. QED BY <1>3, <2>1, <3>1 DEF MovedRow, DrainedRow, Row
    <2>3. /\ row'.svc = "NONE" /\ row'.role = NoRole /\ row'.inst = "PREPARING"
          /\ row'.worker = NoWorker /\ row'.start = 0 /\ row'.rearms = 0
          /\ row'.ident = row.pu.ident /\ ~HasUpdate(row')
      BY <1>10, <2>1, <2>2 DEF Updated, HasUpdate, Row
    <2>4. HasUpdate(row) /\ row.pu.ident <= issued /\ row.ident < row.pu.ident /\ row.pu.ident \in Ident
      BY <1>4, <1>10 DEF AcceptsUpdate, Shaped, IInv, RowOK, LeaseRow
    <2>5. Shaped(row', issued')
      BY <1>1, <2>3, <2>4, LifecycleAssumption DEF Shaped
    <2>6. Contained(row', proc')
      BY <1>1, <1>4, <1>5, <2>3, <2>4 DEF Contained, Ident
    <2>7. Reachable'
      BY <1>1 DEF Known, Reachable
    <2>8. ContainersMove
      BY <1>1, <1>5 DEF ContainersMove
    <2>9. RowKeeps(t)
      BY <1>3, <2>3 DEF RowKeeps
    <2>10. thread' = Outdated(t, Idle) /\ Idle.why # "planner"
      BY <1>10 DEF WriteEnd, Idle
    <2>11. Knows(Idle, row', proc', issued', boot')
      BY <1>1, <1>5, IdleKnows
    <2>12. OnePlanner'
      BY <2>10, OnePlannerStays DEF Known
    <2>. QED BY <1>1, <2>5, <2>6, <2>7, <2>8, <2>9, <2>10, <2>11, <2>12, KnownStep
  <1>. QED BY <1>2, <1>6, <1>7, <1>9, <1>10 DEF Drained, Commit, dbVars

LEMMA DrainFailKnown ==
    ASSUME Steady, IInv, IInv', LocalInv, LockInv, Known, NEW t \in Thread, DrainFail(t)
    PROVE  Known'
  <1>1. /\ boot' = boot /\ proc' = proc /\ reach' = reach /\ issued' = issued
        /\ thread[t].pc \in {"drained", "drainfail"} /\ thread[t].pc # "idle"
    BY DEF DrainFail, nodeVars
  <1>2. PICK c : c = thread[t].copy
    OBVIOUS
  <1>3. /\ t = Reconciler /\ c \in Row /\ Shaped(c, issued)
        /\ c.ident = row.ident /\ c.inst = row.inst /\ c.svc = "DRAINING" /\ row.svc = "DRAINING"
    BY <1>1, <1>2, DrainerIs
  <1>4. Contained(c, proc)
    <2>1. Contained(row, proc)
      BY <1>1, DrainerIs
    <2>. QED BY <1>3, <2>1 DEF Contained
  <1>5. MayStore(t, c)
    BY <1>3, <1>4 DEF MayStore
  <1>6. (\E o : Commit(c, o) /\ WriteEnd(t)) \/ (row' = row /\ End(t))
    BY <1>2 DEF DrainFail, Refused, dbVars
  <1>. QED BY <1>1, <1>5, <1>6, HolderStoresKnown

LEMMA BeginReleaseKnown ==
    ASSUME Steady, IInv, IInv', LocalInv, LockInv, Known, NEW t \in Thread, BeginRelease(t)
    PROVE  Known'
  <1>1. /\ boot' = boot /\ row' = row /\ proc' = proc /\ reach' = reach /\ issued' = issued
        /\ thread[t].pc # "idle"
    BY DEF BeginRelease, dbVars, nodeVars
  <1>2. t # Reconciler => boot = {}
    BY <1>1, SelfKnows
  <1>3. End(t) \/ Goto(t, "releasing", row, thread[t].why)
    BY DEF BeginRelease
  <1>4. CASE End(t)
    BY <1>1, <1>2, <1>4, EndKnown
  <1>5. CASE Goto(t, "releasing", row, thread[t].why)
    BY <1>1, <1>2, <1>5, RowGoesKnown
  <1>. QED BY <1>3, <1>4, <1>5

\* A write of the copy of a goroutine that is on the way to give the container
\* back leaves the service alone.
LEMMA ReturnerStores ==
    ASSUME IInv, LocalInv, LockInv, Known, NEW t \in Thread, thread[t].pc \in Returning,
           NEW s \in Row, s.svc = thread[t].copy.svc, s.ident = thread[t].copy.ident,
           s.start = thread[t].copy.start, Shaped(s, issued), s.inst \in {"RELEASING", "RELEASED", row.inst}
    PROVE  MayStore(t, s)
  <1>1. thread[t].pc # "idle" /\ Holding(thread[t])
    BY DEF Holding, Returning
  <1>2. /\ s.svc = row.svc /\ s.ident = row.ident /\ s.start = row.start /\ row.start \in Nat
        /\ Shaped(row, issued) /\ Contained(row, proc)
        /\ t # Reconciler => boot = {}
    BY <1>1, SelfKnows DEF Row
  <1>3. Contained(s, proc)
    BY <1>2 DEF Contained
  <1>4. s.svc = "NONE" => ~HasUpdate(row)
    BY <1>2 DEF Shaped
  <1>. QED BY <1>2, <1>3, <1>4 DEF MayStore

LEMMA ReleasingKnown ==
    ASSUME Steady, IInv, IInv', LocalInv, LockInv, Known, NEW t \in Thread, Releasing(t)
    PROVE  Known'
  <1>1. /\ boot' = boot /\ proc' = proc /\ reach' = reach /\ issued' = issued
        /\ thread[t].pc = "releasing" /\ thread[t].pc # "idle" /\ thread[t].pc \in Returning
    BY DEF Releasing, nodeVars, Returning
  <1>2. PICK c : c = thread[t].copy
    OBVIOUS
  <1>3. /\ c \in Row /\ Shaped(c, issued)
        /\ t # Reconciler => boot = {}
    BY <1>1, <1>2, SelfKnows
  <1>4. PICK next : next = [c EXCEPT !.inst = "RELEASING"]
    OBVIOUS
  <1>5. /\ next \in Row /\ next.svc = c.svc /\ next.role = c.role /\ next.inst = "RELEASING"
        /\ next.ident = c.ident /\ next.pu = c.pu /\ next.start = c.start /\ next.rearms = c.rearms
    BY <1>3, <1>4 DEF Row, InstanceState
  <1>6. Shaped(next, issued)
    BY <1>3, <1>5 DEF Shaped, HasUpdate
  <1>7. MayStore(t, next)
    BY <1>1, <1>2, <1>5, <1>6, ReturnerStores
  <1>8. \/ \E o : Commit(next, o) /\ WriteGoto(t, "return", next, thread[t].why)
        \/ row' = row /\ End(t)
        \/ row' = row /\ Goto(t, "reclaimerr", row, thread[t].why)
    BY <1>2, <1>4 DEF Releasing, Refused, dbVars
  <1>9. ASSUME NEW o, Commit(next, o), WriteGoto(t, "return", next, thread[t].why)
        PROVE  Known'
    <2>1. Plain(At("return", next, thread[t].why))
      BY DEF Plain, At
    <2>. QED BY <1>1, <1>7, <1>9, <2>1, StoreGoesKnown
  <1>10. CASE row' = row /\ End(t)
    BY <1>1, <1>3, <1>10, EndKnown
  <1>11. CASE row' = row /\ Goto(t, "reclaimerr", row, thread[t].why)
    BY <1>1, <1>3, <1>11, RowGoesKnown
  <1>. QED BY <1>8, <1>9, <1>10, <1>11

\* The partner takes the container of the newest identity away.
LEMMA GivesBack ==
    ASSUME IInv, Known, GiveBack, row' = row
    PROVE  /\ ContainersMove /\ Shaped(row', issued') /\ Contained(row', proc') /\ Reachable'
           /\ \A t \in Thread : (t # Reconciler => boot = {}) => RowKeeps(t)
  <1>1. /\ issued \in Nat /\ issued' = issued /\ row.ident \in Ident
        /\ Shaped(row, issued) /\ Contained(row, proc) /\ Reachable
        /\ row.start \in Nat
    BY DEF IInv, NodeOK, Ident, RowOK, LeaseRow, Row, Known, GiveBack
  <1>2. \A j \in Ident : proc'[j] = IF j = issued THEN NoContainer ELSE proc[j]
    BY DEF IInv, NodeOK, GiveBack
  <1>3. \A j \in Ident : reach'[j] = IF j = issued THEN FALSE ELSE reach[j]
    BY DEF IInv, NodeOK, GiveBack
  <1>4. NoContainer.phase = "GONE"
    BY DEF NoContainer
  <1>5. ContainersMove
    BY <1>1, <1>2, <1>4 DEF ContainersMove
  <1>6. Contained(row', proc')
    BY <1>1, <1>2, <1>4 DEF Contained
  <1>7. Reachable'
    BY <1>1, <1>2, <1>3, <1>4 DEF Reachable
  <1>8. \A t \in Thread : (t # Reconciler => boot = {}) => RowKeeps(t)
    BY <1>1 DEF RowKeeps
  <1>9. Shaped(row', issued')
    BY <1>1
  <1>. QED BY <1>5, <1>6, <1>7, <1>8, <1>9

LEMMA ReturnKnown ==
    ASSUME Steady, IInv, IInv', LocalInv, LockInv, Known, NEW t \in Thread, Return(t)
    PROVE  Known'
  <1>1. /\ boot' = boot /\ row' = row
        /\ thread[t].pc = "return" /\ thread[t].pc # "idle"
    BY DEF Return, dbVars
  <1>2. /\ Shaped(thread[t].copy, issued) /\ issued \in Nat
        /\ t # Reconciler => boot = {}
    BY <1>1, SelfKnows
  <1>3. PICK pc \in {"returned", "returnfail"} : Goto(t, pc, thread[t].copy, thread[t].why)
    BY DEF Return
  <1>4. UNCHANGED nodeVars \/ GiveBack
    BY DEF Return
  <1>5. CASE UNCHANGED nodeVars
    BY <1>1, <1>2, <1>3, <1>5, RowGoesKnown DEF nodeVars
  <1>6. CASE GiveBack
    <2>1. /\ ContainersMove /\ Shaped(row', issued') /\ Contained(row', proc') /\ Reachable'
          /\ RowKeeps(t)
      BY <1>1, <1>2, <1>6, GivesBack
    <2>2. PICK x : x = At(pc, thread[t].copy, thread[t].why)
      OBVIOUS
    <2>3. thread' = [thread EXCEPT ![t] = x] /\ x.why = thread[t].why
      BY <1>3, <2>2 DEF Goto, At
    <2>4. Plain(x) /\ x.copy = thread[t].copy /\ issued' = issued
      BY <1>3, <1>6, <2>2 DEF Plain, At, GiveBack
    <2>5. Knows(x, row', proc', issued', boot')
      BY <1>2, <2>4, PlainKnows
    <2>6. OnePlanner'
      BY <2>3, OnePlannerStays DEF Known
    <2>. QED BY <1>1, <2>1, <2>3, <2>5, <2>6, KnownStep
  <1>. QED BY <1>4, <1>5, <1>6

LEMMA ReturnedKnown ==
    ASSUME Steady, IInv, IInv', LocalInv, LockInv, Known, NEW t \in Thread, Returned(t)
    PROVE  Known'
  <1>1. /\ boot' = boot /\ proc' = proc /\ reach' = reach /\ issued' = issued
        /\ thread[t].pc \in {"returned", "returnfail"} /\ thread[t].pc # "idle"
        /\ thread[t].pc \in Returning
    BY DEF Returned, nodeVars, Returning
  <1>2. PICK c : c = thread[t].copy
    OBVIOUS
  <1>3. /\ c \in Row /\ Shaped(c, issued) /\ c.inst = row.inst
        /\ t # Reconciler => boot = {}
    BY <1>1, <1>2, SelfKnows DEF Holding, Returning
  <1>4. PICK f : f = [c EXCEPT !.inst = "RELEASED", !.pr = FALSE, !.deadline = FALSE, !.role = NoRole]
    OBVIOUS
  <1>5. /\ f \in Row /\ f.svc = c.svc /\ f.role = NoRole /\ f.inst = "RELEASED"
        /\ f.ident = c.ident /\ f.pu = c.pu /\ f.start = c.start /\ f.rearms = c.rearms
    BY <1>3, <1>4 DEF Row, InstanceState, AnyRole
  <1>6. ASSUME NEW o, Commit(f, o)
        PROVE  MayStore(t, f)
    <2>1. f.svc = "NONE"
      BY <1>5, <1>6 DEF Commit, Accepts, CheckCombination
    <2>2. Shaped(f, issued)
      BY <1>3, <1>5, <2>1 DEF Shaped, HasUpdate
    <2>. QED BY <1>1, <1>2, <1>5, <2>2, ReturnerStores
  <1>7. MayStore(t, c)
    BY <1>1, <1>2, <1>3, ReturnerStores
  <1>8. PICK next : next = IF thread[t].pc = "returned" THEN f ELSE c
    OBVIOUS
  <1>9. \A o : Commit(next, o) => MayStore(t, next)
    BY <1>6, <1>7, <1>8
  <1>10. \/ \E o : Commit(next, o) /\ WriteGoto(t, "reclaimerr", row', thread[t].why)
         \/ \E o : Commit(next, o) /\ WriteEnd(t)
         \/ row' = row /\ End(t)
         \/ row' = row /\ Goto(t, "reclaimerr", row, thread[t].why)
    BY <1>2, <1>4, <1>8 DEF Returned, Refused, dbVars
  <1>11. ASSUME NEW o, Commit(next, o), WriteGoto(t, "reclaimerr", row', thread[t].why)
         PROVE  Known'
    <2>1. Plain(At("reclaimerr", row', thread[t].why))
      BY DEF Plain, At
    <2>2. MayStore(t, next)
      BY <1>9, <1>11
    <2>. QED BY <1>1, <1>11, <2>1, <2>2, StoreGoesKnown
  <1>12. CASE \E o : Commit(next, o) /\ WriteEnd(t)
    BY <1>1, <1>9, <1>12, HolderStoresKnown
  <1>13. CASE row' = row /\ End(t)
    BY <1>1, <1>3, <1>13, EndKnown
  <1>14. CASE row' = row /\ Goto(t, "reclaimerr", row, thread[t].why)
    BY <1>1, <1>3, <1>14, RowGoesKnown
  <1>. QED BY <1>10, <1>11, <1>12, <1>13, <1>14

-----------------------------------------------------------------------------
(***************************************************************************)
(* The rounds of the reconcile loop.                                       *)
(***************************************************************************)

\* A goroutine ends, or takes the row or its copy to a place that asks no more.
LEMMA EndsOrGoesKnown ==
    ASSUME Steady, IInv, IInv', LocalInv, LockInv, Known, NEW t \in Thread, thread[t].pc # "idle",
           boot' = boot, row' = row, proc' = proc, reach' = reach, issued' = issued,
           NEW pc \in {"release", "finish", "drain", "prepare", "settle"},
           NEW why \in {"", "reclaim", "plain", "revoke"},
           \/ End(t) \/ Hold(t, pc, row, why)
           \/ thread[t].pc # "start" /\ Goto(t, pc, thread[t].copy, why)
    PROVE  Known'
  <1>1. t # Reconciler => boot = {}
    BY SelfKnows
  <1>2. CASE End(t)
    BY <1>1, <1>2, EndKnown
  <1>3. CASE Hold(t, pc, row, why)
    BY <1>1, <1>3, RowGoesKnown
  <1>4. CASE thread[t].pc # "start" /\ Goto(t, pc, thread[t].copy, why)
    <2>1. Shaped(thread[t].copy, issued)
      BY <1>4, SelfKnows
    <2>. QED BY <1>1, <1>4, <2>1, RowGoesKnown
  <1>. QED BY <1>2, <1>3, <1>4

LEMMA ReclaimStepKnown ==
    ASSUME Steady, IInv, IInv', LocalInv, LockInv, Known, NEW t \in Thread, ReclaimStep(t)
    PROVE  Known'
  <1>1. /\ boot' = boot /\ row' = row /\ proc' = proc /\ reach' = reach /\ issued' = issued
        /\ thread[t].pc # "idle"
    BY DEF ReclaimStep, dbVars, nodeVars
  <1>2. PICK pc \in {"release", "finish", "drain"} : End(t) \/ Hold(t, pc, row, "reclaim")
    BY DEF ReclaimStep
  <1>. QED BY <1>1, <1>2, EndsOrGoesKnown

LEMMA UpdateStepKnown ==
    ASSUME Steady, IInv, IInv', LocalInv, LockInv, Known, NEW t \in Thread, UpdateStep(t)
    PROVE  Known'
  <1>1. /\ boot' = boot /\ row' = row /\ proc' = proc /\ reach' = reach /\ issued' = issued
        /\ thread[t].pc # "idle"
    BY DEF UpdateStep, dbVars, nodeVars
  <1>2. End(t) \/ Hold(t, "drain", row, "plain")
    BY DEF UpdateStep
  <1>. QED BY <1>1, <1>2, EndsOrGoesKnown

LEMMA RevokedKnown ==
    ASSUME Steady, IInv, IInv', LocalInv, LockInv, Known, NEW t \in Thread, Revoked(t)
    PROVE  Known'
  <1>1. /\ boot' = boot /\ row' = row /\ proc' = proc /\ reach' = reach /\ issued' = issued
        /\ thread[t].pc # "idle"
    BY DEF Revoked, dbVars, nodeVars
  <1>2. End(t) \/ Hold(t, "drain", row, "revoke")
    BY DEF Revoked
  <1>. QED BY <1>1, <1>2, EndsOrGoesKnown

LEMMA ActOnKnown ==
    ASSUME Steady, IInv, IInv', LocalInv, LockInv, Known, NEW t \in Thread, ActOn(t)
    PROVE  Known'
  <1>1. /\ boot' = boot /\ row' = row /\ proc' = proc /\ reach' = reach /\ issued' = issued
        /\ thread[t].pc = "act" /\ thread[t].pc # "idle"
    BY DEF ActOn, Answered, dbVars, nodeVars
  <1>2. PICK pc \in {"prepare", "settle", "finish"} : End(t) \/ Goto(t, pc, thread[t].copy, "")
    BY DEF ActOn
  <1>. QED BY <1>1, <1>2, EndsOrGoesKnown

LEMMA ProbeKnown ==
    ASSUME Steady, IInv, IInv', LocalInv, LockInv, Known, NEW t \in Thread, Probe(t)
    PROVE  Known'
  <1>1. /\ boot' = boot /\ row' = row /\ proc' = proc /\ reach' = reach /\ issued' = issued
        /\ thread[t].pc = "probe" /\ thread[t].pc # "idle"
    BY DEF Probe, dbVars, nodeVars
  <1>2. PICK y, c, i : y = thread[t] /\ c = y.copy /\ i = c.ident
    OBVIOUS
  <1>3. /\ Knows(y, row, proc, issued, boot) /\ Reachable /\ i \in Ident
        /\ t # Reconciler => boot = {}
    BY <1>1, <1>2, SelfKnows
  <1>4. y \in Busy /\ thread \in [Thread -> Goroutine] /\ proc[i].phase \in Phase
    BY <1>1, <1>2, <1>3, SelfType DEF IInv, ControlOK, NodeOK
  <1>5. CASE BootstrapAnswers(i) /\ thread' = [thread EXCEPT ![t].pc = "act", ![t].why = proc[i].phase]
    <2>1. PICK x : x = [[y EXCEPT !.pc = "act"] EXCEPT !.why = proc[i].phase]
      OBVIOUS
    <2>2. x.pc = "act" /\ x.copy = c /\ x.why = proc[i].phase
      BY <1>2, <1>4, <2>1 DEF Busy
    <2>3. thread' = [thread EXCEPT ![t] = x]
      BY <1>2, <1>4, <1>5, <2>1
    <2>4. proc[i].phase # "GONE"
      BY <1>3, <1>5, Answers
    <2>5. Knows(x, row, proc, issued, boot)
      BY <1>1, <1>2, <1>3, <2>2, <2>4 DEF Knows
    <2>6. x.why # "planner"
      BY <1>4, <2>2 DEF Phase
    <2>. QED BY <1>1, <1>3, <2>3, <2>5, <2>6, StillKnown
  <1>6. CASE BootstrapError(i) /\ thread' = [thread EXCEPT ![t].pc = "unreach"]
    <2>1. PICK x : x = [y EXCEPT !.pc = "unreach"]
      OBVIOUS
    <2>2. x.pc = "unreach" /\ x.copy = c /\ x.why = y.why
      BY <1>2, <1>4, <2>1 DEF Busy
    <2>3. thread' = [thread EXCEPT ![t] = x]
      BY <1>2, <1>4, <1>6, <2>1
    <2>4. proc[i].phase = "GONE"
      BY <1>3, <1>6, Answers
    <2>5. Knows(x, row, proc, issued, boot)
      BY <1>1, <1>2, <1>3, <2>2, <2>4 DEF Knows
    <2>. QED BY <1>1, <1>2, <1>3, <2>2, <2>3, <2>5, StillKnown
  <1>. QED BY <1>2, <1>5, <1>6 DEF Probe

LEMMA UnreachKnown ==
    ASSUME Steady, IInv, IInv', LocalInv, LockInv, Known, NEW t \in Thread, Unreach(t)
    PROVE  Known'
  <1>1. /\ boot' = boot /\ row' = row /\ proc' = proc /\ reach' = reach /\ issued' = issued
        /\ thread[t].pc = "unreach" /\ thread[t].pc # "idle"
    BY DEF Unreach, dbVars, nodeVars
  <1>2. PICK c : c = thread[t].copy
    OBVIOUS
  <1>3. /\ Shaped(c, issued) /\ proc[c.ident].phase = "GONE"
        /\ t # Reconciler => boot = {}
    BY <1>1, <1>2, SelfKnows DEF Knows
  <1>4. CASE End(t)
    BY <1>1, <1>3, <1>4, EndKnown
  <1>5. ASSUME NEW why \in {"", "reg"}, Hold(t, "lost", c, why)
        PROVE  Known'
    <2>1. Knows(At("lost", c, why), row, proc, issued, boot)
      BY <1>3 DEF Knows, At
    <2>. QED BY <1>1, <1>3, <1>5, <2>1, MovesKnown
  <1>. QED BY <1>2, <1>4, <1>5 DEF Unreach

\* A write that leaves the service alone.
LEMMA StoresSame ==
    ASSUME Known, NEW t, t # Reconciler => boot = {}, NEW s \in Row, Shaped(s, issued), Contained(s, proc),
           s.svc = row.svc, s.ident = row.ident, s.start <= row.start
    PROVE  MayStore(t, s)
  BY DEF MayStore, Known, Shaped

LEMMA LostKnown ==
    ASSUME Steady, IInv, IInv', LocalInv, LockInv, Known, NEW t \in Thread, Lost(t)
    PROVE  Known'
  <1>1. /\ boot' = boot /\ proc' = proc /\ reach' = reach /\ issued' = issued
        /\ thread[t].pc = "lost" /\ thread[t].pc # "idle"
    BY DEF Lost, nodeVars
  <1>2. PICK c : c = thread[t].copy
    OBVIOUS
  <1>3. /\ c \in Row /\ Shaped(c, issued) /\ c.ident = row.ident /\ c.svc = row.svc /\ c.start = row.start
        /\ row.start \in Nat /\ Contained(row, proc) /\ proc[c.ident].phase = "GONE"
        /\ t # Reconciler => boot = {}
    BY <1>1, <1>2, SelfKnows DEF Holding, Owner, Knows, Row
  <1>4. PICK next : next = [c EXCEPT !.inst = "LOST"]
    OBVIOUS
  <1>5. /\ next \in Row /\ next.svc = c.svc /\ next.role = c.role /\ next.inst = "LOST"
        /\ next.ident = c.ident /\ next.pu = c.pu /\ next.start = c.start /\ next.rearms = c.rearms
    BY <1>3, <1>4 DEF Row, InstanceState
  <1>6. Shaped(next, issued)
    BY <1>3, <1>5 DEF Shaped, HasUpdate
  <1>7. Contained(next, proc)
    BY <1>3, <1>5 DEF Contained
  <1>8. MayStore(t, next)
    BY <1>3, <1>5, <1>6, <1>7, StoresSame
  <1>9. (\E o : Commit(next, o) /\ WriteEnd(t)) \/ (row' = row /\ End(t))
    BY <1>2, <1>4 DEF Lost, Refused, dbVars
  <1>. QED BY <1>1, <1>8, <1>9, HolderStoresKnown

\* A round condemns a service it believes in.
LEMMA CondemnKnows ==
    ASSUME IInv, LocalInv, LockInv, Known, NEW t \in Thread, thread[t].pc = "act",
           thread[t].copy.svc # "NONE"
    PROVE  Knows(At("fail", thread[t].copy, ""), row, proc, issued, boot)
  <1>1. PICK c : c = thread[t].copy
    OBVIOUS
  <1>2. /\ Shaped(c, issued) /\ c.svc # "NONE"
        /\ row.svc # "NONE" /\ row.ident = c.ident
    BY <1>1, SelfKnows DEF Knows
  <1>3. Knows(At("fail", c, ""), row, proc, issued, boot)
    BY <1>2 DEF Knows, At
  <1>. QED BY <1>1, <1>3

LEMMA ActExitedKnown ==
    ASSUME Steady, IInv, IInv', LocalInv, LockInv, Known, NEW t \in Thread, ActExited(t)
    PROVE  Known'
  <1>1. /\ boot' = boot /\ row' = row /\ proc' = proc /\ reach' = reach /\ issued' = issued
        /\ thread[t].pc = "act" /\ thread[t].pc # "idle"
    BY DEF ActExited, Answered, dbVars, nodeVars
  <1>2. /\ Shaped(thread[t].copy, issued)
        /\ t # Reconciler => boot = {}
    BY <1>1, SelfKnows
  <1>3. thread[t].copy.svc # "NONE"
    BY <1>2, RoleAssumption DEF ActExited, ExitedService, Shaped
  <1>4. End(t) \/ Hold(t, "fail", thread[t].copy, "")
    BY DEF ActExited
  <1>5. CASE End(t)
    BY <1>1, <1>2, <1>5, EndKnown
  <1>6. CASE Hold(t, "fail", thread[t].copy, "")
    <2>1. Knows(At("fail", thread[t].copy, ""), row, proc, issued, boot)
      BY <1>1, <1>3, CondemnKnows
    <2>2. PICK c : c = thread[t].copy
      OBVIOUS
    <2>3. Knows(At("fail", c, ""), row, proc, issued, boot) /\ Hold(t, "fail", c, "")
      BY <1>6, <2>1, <2>2
    <2>. QED BY <1>1, <1>2, <2>3, MovesKnown
  <1>. QED BY <1>4, <1>5, <1>6

LEMMA ActStartingKnown ==
    ASSUME Steady, IInv, IInv', LocalInv, LockInv, Known, NEW t \in Thread, ActStarting(t)
    PROVE  Known'
  <1>1. /\ boot' = boot /\ row' = row /\ proc' = proc /\ reach' = reach /\ issued' = issued
        /\ thread[t].pc = "act" /\ thread[t].pc # "idle" /\ thread[t].copy.svc = "STARTING"
    BY DEF ActStarting, Answered, dbVars, nodeVars
  <1>2. t # Reconciler => boot = {}
    BY <1>1, SelfKnows
  <1>3. End(t) \/ Hold(t, "health", row, "resume") \/ Hold(t, "fail", thread[t].copy, "")
    BY DEF ActStarting
  <1>4. CASE End(t)
    BY <1>1, <1>2, <1>4, EndKnown
  <1>5. CASE Hold(t, "health", row, "resume")
    BY <1>1, <1>2, <1>5, RowGoesKnown
  <1>6. CASE Hold(t, "fail", thread[t].copy, "")
    <2>1. Knows(At("fail", thread[t].copy, ""), row, proc, issued, boot)
      BY <1>1, CondemnKnows
    <2>2. PICK c : c = thread[t].copy
      OBVIOUS
    <2>3. Knows(At("fail", c, ""), row, proc, issued, boot) /\ Hold(t, "fail", c, "")
      BY <1>6, <2>1, <2>2
    <2>. QED BY <1>1, <1>2, <2>3, MovesKnown
  <1>. QED BY <1>3, <1>4, <1>5, <1>6

\* Nobody finds again what has been lost.
LEMMA ActLostKnown ==
    ASSUME IInv, LocalInv, LockInv, Known, NEW t \in Thread
    PROVE  ~ActLost(t)
  BY SelfKnows DEF ActLost, Answered, Knows

LEMMA ActFailedKnown ==
    ASSUME Steady, IInv, IInv', LocalInv, LockInv, Known, NEW t \in Thread, ActFailed(t)
    PROVE  Known'
  <1>1. /\ boot' = boot /\ row' = row /\ proc' = proc /\ reach' = reach /\ issued' = issued
        /\ thread[t].pc = "act" /\ thread[t].pc # "idle"
    BY DEF ActFailed, Answered, dbVars, nodeVars
  <1>2. PICK c : c = thread[t].copy
    OBVIOUS
  <1>3. /\ Shaped(c, issued) /\ c.start \in Nat /\ row.start \in Nat /\ c.svc = "FAILED"
        /\ row.svc \in {"FAILED", "DRAINING"} /\ row.start <= c.start
        /\ t # Reconciler => boot = {}
    <2>1. c.svc = "FAILED"
      BY <1>2 DEF ActFailed
    <2>. QED BY <1>1, <1>2, <2>1, SelfKnows DEF Knows, Row
  <1>4. \/ End(t) \/ Goto(t, "settle", c, "") \/ Goto(t, "rearm", c, "")
        \/ ~Spent(c) /\ Goto(t, "start", c, "retry")
    BY <1>2 DEF ActFailed
  <1>5. CASE End(t)
    BY <1>1, <1>3, <1>5, EndKnown
  <1>6. CASE Goto(t, "settle", c, "") \/ Goto(t, "rearm", c, "")
    BY <1>1, <1>3, <1>6, RowGoesKnown
  <1>7. CASE ~Spent(c) /\ Goto(t, "start", c, "retry")
    <2>1. row.start < StartMaxAttempts
      BY <1>3, <1>7, LifecycleAssumption DEF Spent
    <2>2. Knows(At("start", c, "retry"), row, proc, issued, boot)
      BY <1>3, <2>1 DEF Knows, At
    <2>. QED BY <1>1, <1>3, <1>7, <2>2, MovesKnown
  <1>. QED BY <1>4, <1>5, <1>6, <1>7

LEMMA SettleKnown ==
    ASSUME Steady, IInv, IInv', LocalInv, LockInv, Known, NEW t \in Thread, Settle(t)
    PROVE  Known'
  <1>1. /\ boot' = boot /\ row' = row /\ proc' = proc /\ reach' = reach /\ issued' = issued
        /\ thread[t].pc = "settle" /\ thread[t].pc # "idle"
    BY DEF Settle, dbVars, nodeVars
  <1>2. /\ Shaped(row, issued)
        /\ t # Reconciler => boot = {}
    BY <1>1, SelfKnows
  <1>3. \/ row.svc # "NONE" /\ Hold(t, "fail", row, "settle")
        \/ End(t)
        \/ Hold(t, "drain", row, "plain")
        \/ \E pc \in {"restarting", "registering", "register"} : Hold(t, pc, row, "settle")
    BY DEF Settle
  <1>4. CASE row.svc # "NONE" /\ Hold(t, "fail", row, "settle")
    <2>1. Plain(At("fail", row, "settle"))
      BY <1>4 DEF Plain, At
    <2>. QED BY <1>1, <1>2, <1>4, <2>1, GoesKnown
  <1>5. CASE End(t)
    BY <1>1, <1>2, <1>5, EndKnown
  <1>6. ASSUME NEW pc \in {"drain", "restarting", "registering", "register"},
               NEW why \in {"plain", "settle"}, Hold(t, pc, row, why)
        PROVE  Known'
    BY <1>1, <1>2, <1>6, RowGoesKnown
  <1>. QED BY <1>3, <1>4, <1>5, <1>6

LEMMA RearmKnown ==
    ASSUME Steady, IInv, IInv', LocalInv, LockInv, Known, NEW t \in Thread, Rearm(t)
    PROVE  Known'
  <1>1. /\ boot' = boot /\ proc' = proc /\ reach' = reach /\ issued' = issued
        /\ thread[t].pc = "rearm" /\ thread[t].pc # "idle"
    BY DEF Rearm, nodeVars
  <1>2. /\ row \in Row /\ row.start \in Nat /\ row.rearms \in Nat /\ Shaped(row, issued) /\ Contained(row, proc)
        /\ t # Reconciler => boot = {}
    BY <1>1, SelfKnows DEF Row
  <1>3. PICK next : next = [row EXCEPT !.start = 0, !.rearms = @ + 1, !.parked = FALSE]
    OBVIOUS
  <1>4. \/ row' = row /\ End(t)
        \/ row.rearms < StartRetryMaxRearms /\ Parked(row) /\ \E o : Commit(next, o) /\ WriteEnd(t)
    BY <1>3 DEF Rearm, dbVars
  <1>5. CASE row' = row /\ End(t)
    BY <1>1, <1>2, <1>5, EndKnown
  <1>6. CASE row.rearms < StartRetryMaxRearms /\ Parked(row) /\ \E o : Commit(next, o) /\ WriteEnd(t)
    <2>1. /\ next.svc = row.svc /\ next.role = row.role /\ next.inst = row.inst
          /\ next.ident = row.ident /\ next.pu = row.pu /\ next.start = 0 /\ next.rearms = row.rearms + 1
          /\ next.worker = row.worker /\ next \in Row
      <3>1. row.rearms + 1 \in Nat
        BY <1>2
      <3>. QED BY <1>2, <1>3, <3>1 DEF Row
    <2>2. next.rearms <= StartRetryMaxRearms /\ next.start <= row.start /\ next.start <= StartMaxAttempts
      BY <1>2, <1>6, <2>1, LifecycleAssumption
    <2>3. Shaped(next, issued)
      BY <1>2, <1>6, <2>1, <2>2 DEF Shaped, HasUpdate, Parked
    <2>4. Contained(next, proc)
      BY <1>2, <2>1 DEF Contained
    <2>5. MayStore(t, next)
      BY <1>2, <2>1, <2>2, <2>3, <2>4, StoresSame
    <2>. QED BY <1>1, <1>6, <2>5, HolderStoresKnown
  <1>. QED BY <1>4, <1>5, <1>6

LEMMA AllocateKnown ==
    ASSUME Steady, IInv, IInv', LocalInv, LockInv, Known, NEW t \in Thread, Allocate(t)
    PROVE  Known'
  <1>1. /\ boot' = boot /\ proc' = proc /\ reach' = reach /\ issued' = issued
        /\ thread[t].pc = "allocate" /\ thread[t].pc # "idle"
    BY DEF Allocate, nodeVars
  <1>2. PICK c : c = thread[t].copy
    OBVIOUS
  <1>3. /\ c \in Row /\ Shaped(c, issued) /\ c.ident = row.ident /\ c.svc = row.svc /\ c.start = row.start
        /\ row.start \in Nat /\ Contained(row, proc) /\ c.inst = "ALLOCATING" /\ row.inst = "ALLOCATING"
        /\ t # Reconciler => boot = {}
    BY <1>1, <1>2, SelfKnows DEF Holding, Owner, Local, Row
  <1>4. PICK next : next = [c EXCEPT !.inst = "PREPARING"]
    OBVIOUS
  <1>5. /\ next \in Row /\ next.svc = c.svc /\ next.role = c.role /\ next.inst = "PREPARING"
        /\ next.ident = c.ident /\ next.pu = c.pu /\ next.start = c.start /\ next.rearms = c.rearms
        /\ next.worker = c.worker
    BY <1>3, <1>4 DEF Row, InstanceState
  <1>6. Shaped(next, issued)
    BY <1>3, <1>5 DEF Shaped, HasUpdate
  <1>7. Contained(next, proc)
    BY <1>3, <1>5 DEF Contained
  <1>8. MayStore(t, next)
    BY <1>3, <1>5, <1>6, <1>7, StoresSame
  <1>9. \/ row' = row /\ End(t)
        \/ \E o : Commit(next, o) /\ WriteGoto(t, "prepare", next, "resume")
    BY <1>2, <1>4 DEF Allocate, dbVars
  <1>10. CASE row' = row /\ End(t)
    BY <1>1, <1>3, <1>10, EndKnown
  <1>11. ASSUME NEW o, Commit(next, o), WriteGoto(t, "prepare", next, "resume")
         PROVE  Known'
    <2>1. Plain(At("prepare", next, "resume"))
      BY DEF Plain, At
    <2>. QED BY <1>1, <1>8, <1>11, <2>1, StoreGoesKnown
  <1>. QED BY <1>9, <1>10, <1>11

-----------------------------------------------------------------------------
(***************************************************************************)
(* What begins a goroutine.                                                *)
(***************************************************************************)
LEMMA StartFinds ==
    ASSUME IInv, Known
    PROVE  /\ row \in Row /\ row \in LeaseRow /\ row.start \in Nat /\ row.ident \in Ident /\ row.ident \in Nat
           /\ issued \in Ident /\ issued \in Nat
           /\ Shaped(row, issued) /\ Contained(row, proc) /\ Reachable /\ OnePlanner
  BY DEF IInv, RowOK, LeaseRow, Row, NodeOK, Ident, Known

LEMMA NotMore == \A n \in Nat : n <= n
  OBVIOUS

LEMMA ReconcileKnown ==
    ASSUME Steady, IInv, IInv', LocalInv, LockInv, Known, NEW t \in Thread, Reconcile(t)
    PROVE  Known'
  <1>1. /\ boot' = boot /\ row' = row /\ proc' = proc /\ reach' = reach /\ issued' = issued
        /\ boot = {}
    BY DEF Reconcile, Booted, dbVars, nodeVars
  <1>2. PICK pc \in {"reclaim", "update", "release", "probe"} :
           thread' = [thread EXCEPT ![t] = [At(pc, row, "") EXCEPT !.fresh = TRUE]]
    BY DEF Reconcile
  <1>3. PICK x : x = [At(pc, row, "") EXCEPT !.fresh = TRUE]
    OBVIOUS
  <1>4. x.pc = pc /\ x.copy = row /\ x.why = ""
    BY <1>3 DEF At
  <1>5. row.start \in Nat /\ Shaped(row, issued) /\ Contained(row, proc)
    BY StartFinds
  <1>6. Knows(x, row, proc, issued, boot)
    <2>1. x.copy.inst = "LOST" => proc[x.copy.ident].phase = "GONE"
      BY <1>4, <1>5 DEF Contained
    <2>2. row.start <= x.copy.start
      <3>1. row.start <= row.start
        BY <1>5, NotMore
      <3>. QED BY <1>4, <3>1
    <2>4. Shaped(x.copy, issued)
      BY <1>4, <1>5 DEF Shaped, HasUpdate
    <2>3. x.pc \in {"reclaim", "update", "release", "probe"}
      BY <1>4
    <2>. QED BY <1>4, <2>1, <2>2, <2>3, <2>4 DEF Knows
  <1>7. x.why # "planner" /\ thread' = [thread EXCEPT ![t] = x]
    BY <1>2, <1>3, <1>4
  <1>. QED BY <1>1, <1>6, <1>7, StillKnown

LEMMA ResumeAddKnown ==
    ASSUME Steady, IInv, IInv', LocalInv, LockInv, Known, NEW t \in Thread, ResumeAdd(t)
    PROVE  Known'
  <1>1. /\ boot' = boot /\ row' = row /\ proc' = proc /\ reach' = reach /\ issued' = issued
        /\ boot = {} /\ Hold(t, "allocate", row, "")
    BY DEF ResumeAdd, Booted, dbVars, nodeVars
  <1>. QED BY <1>1, RowGoesKnown

LEMMA PlainDrainKnown ==
    ASSUME Steady, IInv, IInv', LocalInv, LockInv, Known, NEW t \in Thread, PlainDrain(t)
    PROVE  Known'
  <1>1. /\ boot' = boot /\ row' = row /\ proc' = proc /\ reach' = reach /\ issued' = issued
        /\ boot = {} /\ Goto(t, "drain", row, "plain")
    BY DEF PlainDrain, Begin, Booted, dbVars, nodeVars
  <1>. QED BY <1>1, RowGoesKnown

\* reserveStart: nobody else is starting for the planner.
LEMMA PlannerStartKnown ==
    ASSUME Steady, IInv, IInv', LocalInv, LockInv, Known, NEW t \in Thread, PlannerStart(t)
    PROVE  Known'
  <1>1. /\ boot' = boot /\ row' = row /\ proc' = proc /\ reach' = reach /\ issued' = issued
        /\ boot = {} /\ row.role = NoRole
        /\ \A u \in Thread : thread[u].why # "planner"
    BY DEF PlannerStart, Begin, Booted, dbVars, nodeVars
  <1>2. PICK role \in Role : Goto(t, "start", [row EXCEPT !.role = role], "planner")
    BY DEF PlannerStart
  <1>3. PICK x : x = At("start", [row EXCEPT !.role = role], "planner")
    OBVIOUS
  <1>4. x.pc = "start" /\ x.why = "planner" /\ thread' = [thread EXCEPT ![t] = x]
    BY <1>2, <1>3 DEF At, Goto
  <1>5. row.svc = "NONE" /\ row.start \in Nat /\ Shaped(row, issued) /\ Contained(row, proc) /\ Reachable
    BY <1>1, StartFinds DEF Shaped
  <1>6. Knows(x, row', proc', issued', boot')
    BY <1>1, <1>4, <1>5 DEF Knows
  <1>7. OnePlanner'
    <2>1. \A u \in Thread : thread'[u].why = "planner" => u = t
      BY <1>1, <1>4 DEF IInv, ControlOK
    <2>. QED BY <2>1 DEF OnePlanner
  <1>8. ContainersMove /\ RowKeeps(t)
    BY <1>1, <1>5, StartFinds DEF ContainersMove, RowKeeps
  <1>9. Shaped(row', issued') /\ Contained(row', proc') /\ Reachable'
    BY <1>1, <1>5 DEF Reachable
  <1>. QED BY <1>1, <1>4, <1>6, <1>7, <1>8, <1>9, KnownStep

\* A request to release leaves all but the request and the update as it was.
LEMMA RequestKnows ==
    ASSUME IInv, Known, row' = RequestRelease(row), issued' = issued, proc' = proc, reach' = reach
    PROVE  /\ Shaped(row', issued') /\ Contained(row', proc') /\ Reachable' /\ ContainersMove
           /\ \A t : (t # Reconciler => boot = {}) => RowKeeps(t)
           /\ row'.svc = row.svc /\ row'.start \in Nat /\ row.start \in Nat
  <1>1. /\ row'.inst = row.inst /\ row'.svc = row.svc /\ row'.role = row.role /\ row'.ident = row.ident
        /\ row'.start = row.start /\ row'.rearms = row.rearms /\ row'.worker = row.worker
        /\ row'.pu \in {row.pu, NoUpdate}
    BY StartFinds DEF RequestRelease, Row
  <1>2. Shaped(row', issued')
    BY <1>1, StartFinds DEF Shaped, HasUpdate
  <1>3. Contained(row', proc')
    BY <1>1, StartFinds DEF Contained
  <1>4. Reachable' /\ ContainersMove
    BY StartFinds DEF Reachable, ContainersMove
  <1>5. \A t : (t # Reconciler => boot = {}) => RowKeeps(t)
    BY <1>1, StartFinds DEF RowKeeps
  <1>. QED BY <1>1, <1>2, <1>3, <1>4, <1>5, StartFinds

LEMMA RevokeKnown ==
    ASSUME Steady, IInv, IInv', LocalInv, LockInv, Known, NEW t \in Thread, Revoke(t)
    PROVE  Known'
  <1>1. /\ boot' = boot /\ proc' = proc /\ reach' = reach /\ issued' = issued
        /\ boot = {} /\ row' = RequestRelease(row)
    BY DEF Revoke, Begin, Booted, nodeVars
  <1>2. /\ Shaped(row', issued') /\ Contained(row', proc') /\ Reachable' /\ ContainersMove
        /\ RowKeeps(t)
    BY <1>1, RequestKnows
  <1>3. PICK x : x = At("revoked", row, "revoke")
    OBVIOUS
  <1>4. thread' = [thread EXCEPT ![t] = x] \/ thread' = Outdated(t, x)
    BY <1>3 DEF Revoke
  <1>5. Plain(x) /\ x.copy = row /\ x.why # "planner"
    BY <1>3 DEF Plain, At
  <1>6. Knows(x, row', proc', issued', boot')
    BY <1>1, <1>5, StartFinds, PlainKnows
  <1>7. OnePlanner'
    BY <1>4, <1>5, OnePlannerStays, StartFinds
  <1>. QED BY <1>1, <1>2, <1>4, <1>6, <1>7, KnownStep

\* The identity moves on only to the newest, whose container has run nothing.
LEMMA CapacityUpdatedKnown ==
    ASSUME Steady, IInv, IInv', LocalInv, LockInv, Known, NEW t \in Thread, CapacityUpdated(t)
    PROVE  Known'
  <1>1. /\ boot' = boot /\ proc' = proc /\ reach' = reach /\ issued' = issued
        /\ boot = {} /\ issued # row.ident /\ row.inst \notin {"RELEASING", "RELEASED"}
    BY DEF CapacityUpdated, Begin, Booted, nodeVars
  <1>2. row.ident < issued
    BY <1>1, StartFinds DEF Shaped
  <1>3. PICK q : q = [row EXCEPT !.pu = [ident |-> issued, at |-> issued]]
    OBVIOUS
  <1>4. /\ q \in Row /\ q.inst = row.inst /\ q.svc = row.svc /\ q.role = row.role /\ q.ident = row.ident
        /\ q.start = row.start /\ q.rearms = row.rearms /\ q.worker = row.worker /\ q.pu.ident = issued
    BY <1>3, StartFinds DEF Row
  <1>5. HasService(row) => MayStore(t, q)
    <2>1. row.svc # "NONE" => Shaped(q, issued)
      BY <1>2, <1>4, StartFinds DEF Shaped
    <2>2. Contained(q, proc)
      BY <1>4, StartFinds DEF Contained
    <2>. QED BY <1>1, <1>4, <2>1, <2>2, StartFinds, StoresSame DEF HasService
  <1>6. PICK m : m = [[RebasedRow EXCEPT !.ident = issued] EXCEPT !.seen = issued]
    OBVIOUS
  <1>7. PICK next : next = IF row.inst \in {"IDLE", "LOST"}
                           THEN [m EXCEPT !.inst = "PREPARING", !.prep = 0, !.start = 0,
                                          !.rearms = 0, !.parked = FALSE, !.worker = NoWorker]
                           ELSE m
    OBVIOUS
  <1>8. ~HasService(row) => MayStore(t, next)
    <2>. SUFFICES ASSUME row.svc = "NONE"
                  PROVE  MayStore(t, next)
      BY DEF HasService
    <2>1. /\ ~HasUpdate(row) /\ row.role = NoRole /\ row.start = 0 /\ row.rearms <= StartRetryMaxRearms
          /\ row.inst \in {"ALLOCATING", "PREPARING"} => row.worker = NoWorker
      BY StartFinds DEF Shaped
    <2>2. /\ m \in Row /\ m.inst = row.inst /\ m.svc = "NONE" /\ m.role = NoRole /\ m.ident = issued
          /\ m.start = 0 /\ m.rearms = row.rearms /\ m.worker = row.worker /\ m.pu = row.pu
      BY <1>6, <2>1, StartFinds DEF RebasedRow, Row
    <2>3. next \in Row /\ next.svc = "NONE" /\ next.role = NoRole /\ next.ident = issued
          /\ next.start = 0 /\ next.pu = row.pu
      <3>1. NoWorker \in Nat \X Nat /\ "PREPARING" \in InstanceState
        BY DEF NoWorker, InstanceState
      <3>. QED BY <1>7, <2>2, <3>1 DEF Row
    <2>4. next.inst \in {"ALLOCATING", "PREPARING"} /\ next.worker = NoWorker
      BY <1>1, <1>7, <2>1, <2>2, StartFinds DEF Row, InstanceState
    <2>5. next.rearms \in {0, row.rearms}
      BY <1>7, <2>2 DEF Row
    <2>6. Shaped(next, issued)
      BY <2>1, <2>3, <2>4, <2>5, StartFinds, LifecycleAssumption DEF Shaped, HasUpdate
    <2>7. Contained(next, proc)
      BY <1>2, <2>3, <2>4, StartFinds DEF Contained, Ident
    <2>. QED BY <1>1, <2>1, <2>3, <2>6, <2>7 DEF MayStore
  <1>9. \/ HasService(row) /\ Commit(q, ops) /\ WriteHold(t, "drain", q, "plain")
        \/ ~HasService(row) /\ Commit(next, ops) /\ WriteEnd(t)
    BY <1>3, <1>6, <1>7 DEF CapacityUpdated
  <1>10. CASE HasService(row) /\ Commit(q, ops) /\ WriteHold(t, "drain", q, "plain")
    <2>1. Plain(At("drain", q, "plain"))
      BY DEF Plain, At
    <2>. QED BY <1>1, <1>5, <1>10, <2>1, StoreGoesKnown
  <1>11. CASE ~HasService(row) /\ Commit(next, ops) /\ WriteEnd(t)
    BY <1>1, <1>8, <1>11, StoreEndKnown
  <1>. QED BY <1>9, <1>10, <1>11

LEMMA ReofferKnown ==
    ASSUME Steady, IInv, IInv', LocalInv, LockInv, Known, NEW t \in Thread, Reoffer(t)
    PROVE  Known'
  <1>1. /\ boot' = boot /\ proc' = proc /\ reach' = reach /\ issued' = issued
        /\ boot = {} /\ AcceptsReoffer(row, FreshRow(issued)) /\ row' = Reoffered(row, FreshRow(issued))
        /\ WriteHold(t, "allocate", row', "")
    BY DEF Reoffer, Begin, Booted, nodeVars
  <1>11. PICK n \in Nat : n = issued
    BY StartFinds
  <1>12. PICK f : f = FreshRow(n)
    OBVIOUS
  <1>13. /\ f.svc = "NONE" /\ f.role = NoRole /\ f.inst = "ALLOCATING" /\ f.worker = NoWorker
         /\ f.ident = n /\ f.start = 0 /\ f.rearms = 0 /\ f.pu = NoUpdate
         /\ row' = [f EXCEPT !.seen = Later(f.seen, row.seen)]
    BY <1>1, <1>11, <1>12 DEF FreshRow, Reoffered
  <1>14. DOMAIN f = DOMAIN FreshRow(1)
    BY <1>12 DEF FreshRow
  <1>2. /\ row'.svc = "NONE" /\ row'.role = NoRole /\ row'.inst = "ALLOCATING" /\ row'.worker = NoWorker
        /\ row'.ident = issued /\ row'.start = 0 /\ row'.rearms = 0 /\ ~HasUpdate(row')
    BY <1>11, <1>13 DEF HasUpdate
  <1>3. row.svc = "NONE" /\ row.ident < issued
    <2>1. row.svc = "NONE" /\ f.ident # row.ident
      BY <1>1, <1>11, <1>12 DEF AcceptsReoffer
    <2>2. row.ident <= issued
      BY StartFinds DEF Shaped
    <2>. QED BY <1>11, <1>13, <2>1, <2>2, StartFinds
  <1>4. Shaped(row', issued')
    <2>1. row'.start <= StartMaxAttempts /\ row'.rearms <= StartRetryMaxRearms
      BY <1>2, LifecycleAssumption
    <2>2. row'.ident <= issued'
      <3>1. issued <= issued
        BY StartFinds, NotMore
      <3>. QED BY <1>1, <1>2, <3>1
    <2>. QED BY <1>2, <2>1, <2>2 DEF Shaped
  <1>5. Contained(row', proc')
    <2>1. /\ \A i \in Ident : i > issued => proc[i].phase \in {"IDLE", "GONE"}
          /\ proc[issued].phase \in {"IDLE", "GONE"}
      <3>1. issued \in Ident /\ row.ident \in Nat /\ Contained(row, proc)
        BY StartFinds
      <3>2. \A i \in Ident : i > row.ident => proc[i].phase \in {"IDLE", "GONE"}
        BY <3>1 DEF Contained
      <3>3. PICK k \in Nat : k = row.ident
        BY <3>1
      <3>4. k < issued
        BY <1>3, <3>3
      <3>5. \A i \in Ident : i \in Nat
        BY DEF Ident
      <3>6. \A i \in Ident : i > n => i > k
        BY <1>11, <3>4, <3>5
      <3>7. n > k
        BY <1>11, <3>4
      <3>. QED BY <1>11, <3>1, <3>2, <3>3, <3>6, <3>7
    <2>. QED BY <1>1, <1>2, <2>1 DEF Contained
  <1>6. Reachable' /\ ContainersMove /\ RowKeeps(t)
    <2>1. Reachable'
      BY <1>1, StartFinds DEF Reachable
    <2>2. ContainersMove
      <3>1. issued \in Nat /\ issued <= issued
        BY StartFinds, NotMore
      <3>. QED BY <1>1, <3>1 DEF ContainersMove
    <2>3. RowKeeps(t)
      BY <1>1, <1>2, <1>3 DEF RowKeeps
    <2>. QED BY <2>1, <2>2, <2>3
  <1>7. PICK x : x = At("allocate", row', "")
    OBVIOUS
  <1>8. thread' = Outdated(t, x) /\ Plain(x) /\ x.copy = row' /\ x.why # "planner"
    BY <1>1, <1>7 DEF WriteHold, Plain, At
  <1>9. Knows(x, row', proc', issued', boot')
    BY <1>4, <1>8, PlainKnows
  <1>10. OnePlanner'
    BY <1>8, OnePlannerStays, StartFinds
  <1>. QED BY <1>1, <1>4, <1>5, <1>6, <1>8, <1>9, <1>10, KnownStep
-----------------------------------------------------------------------------
(***************************************************************************)
(* Calls that end early, the operator, crashes and recovery.               *)
(***************************************************************************)
LEMMA CancelKnown ==
    ASSUME Steady, IInv, IInv', LocalInv, LockInv, Known, NEW t \in Thread, Cancel(t)
    PROVE  Known'
  <1>1. /\ boot' = boot /\ row' = row /\ proc' = proc /\ reach' = reach /\ issued' = issued
        /\ thread[t] # Idle /\ t # Reconciler /\ End(t)
    BY DEF Cancel, IdleThread, dbVars, nodeVars
  <1>2. thread[t].pc # "idle"
    <2>1. thread[t] \in Goroutine
      BY DEF IInv, ControlOK
    <2>2. ASSUME NEW y \in Resting
          PROVE  y = Idle
      <3>1. /\ y = [pc |-> y.pc, copy |-> y.copy, fresh |-> y.fresh, why |-> y.why]
            /\ y.pc = "idle" /\ y.copy = NoCopy /\ y.fresh = FALSE /\ y.why = ""
        BY DEF Resting
      <3>. QED BY <3>1 DEF Idle
    <2>3. \A y \in Busy : y.pc # "idle"
      BY DEF Busy
    <2>. QED BY <1>1, <2>1, <2>2, <2>3 DEF Goroutine
  <1>3. boot = {}
    BY <1>1, <1>2, SelfKnows
  <1>. QED BY <1>1, <1>3, EndKnown

\* A call of the operator is no goroutine's: all of them were elsewhere.
LEMMA OutdateAllKnown ==
    ASSUME Steady, IInv, IInv', LocalInv, LockInv, Known, OutdateAll,
           boot = {}, boot' = boot, ContainersMove, RowKeeps(NoThread), row'.svc = row.svc,
           Shaped(row', issued'), Contained(row', proc'), Reachable'
    PROVE  Known'
  <1>1. row.start \in Nat /\ row'.start \in Nat
    BY DEF IInv, RowOK, LeaseRow, Row
  <1>2. ASSUME NEW u \in Thread
        PROVE  thread'[u].pc = thread[u].pc /\ thread'[u].copy = thread[u].copy
               /\ thread'[u].why = thread[u].why
    <2>1. PICK y \in Goroutine : y = thread[u]
      BY DEF IInv, ControlOK
    <2>2. thread'[u] = [y EXCEPT !.fresh = FALSE]
      BY <2>1 DEF OutdateAll
    <2>. QED BY <2>1, <2>2 DEF Goroutine, Busy, Resting
  <1>3. ASSUME NEW u \in Thread
        PROVE  Knows(thread'[u], row', proc', issued', boot')
    <2>1. NoThread # u
      BY LifecycleAssumption
    <2>2. PICK y : y = thread'[u]
      OBVIOUS
    <2>3. y.pc = thread[u].pc /\ y.copy = thread[u].copy /\ y.why = thread[u].why
      BY <1>2, <2>2
    <2>4. Knows(y, row', proc', issued', boot')
      BY <1>1, <2>1, <2>3, OthersKnow
    <2>. QED BY <2>2, <2>4
  <1>4. OnePlanner'
    BY <1>2 DEF OnePlanner, Known
  <1>. QED BY <1>3, <1>4 DEF Known

LEMMA OperatorKnown ==
    ASSUME Steady, IInv, IInv', LocalInv, LockInv, Known, Operator
    PROVE  Known'
  <1>1. CASE RequestReclaim
    <2>1. /\ boot' = boot /\ proc' = proc /\ reach' = reach /\ issued' = issued
          /\ boot = {} /\ row' = RequestRelease(row) /\ OutdateAll
      BY <1>1 DEF RequestReclaim, Booted, nodeVars
    <2>2. /\ Shaped(row', issued') /\ Contained(row', proc') /\ Reachable' /\ ContainersMove
          /\ RowKeeps(NoThread) /\ row'.svc = row.svc
      BY <2>1, RequestKnows
    <2>. QED BY <2>1, <2>2, OutdateAllKnown
  <1>2. CASE RequeueService
    <2>1. PICK next : next = [row EXCEPT !.start = 0, !.rearms = 0, !.parked = FALSE]
      OBVIOUS
    <2>2. /\ boot' = boot /\ proc' = proc /\ reach' = reach /\ issued' = issued
          /\ boot = {} /\ OutdateAll /\ Parked(row)
          /\ Commit(next, Put("start", row.ident, "open"))
      BY <1>2, <2>1 DEF RequeueService, Booted, nodeVars
    <2>3. /\ next.svc = row.svc /\ next.role = row.role /\ next.inst = row.inst
          /\ next.ident = row.ident /\ next.pu = row.pu /\ next.start = 0 /\ next.rearms = 0
          /\ next.worker = row.worker /\ next \in Row
      BY <2>1, StartFinds DEF Row
    <2>4. next.rearms <= StartRetryMaxRearms /\ next.start <= row.start /\ next.start <= StartMaxAttempts
      BY <2>3, StartFinds, LifecycleAssumption
    <2>5. Shaped(next, issued)
      BY <2>2, <2>3, <2>4, StartFinds DEF Shaped, HasUpdate, Parked
    <2>6. row' = Merged(row, next) /\ Shaped(row', issued')
      BY <2>2, <2>3, <2>5, StartFinds, MergedShaped DEF Commit, Parked
    <2>7. row'.inst = next.inst /\ row'.svc = next.svc /\ row'.ident = next.ident /\ row'.start = next.start
      BY <2>3, <2>6, StartFinds DEF Merged, Row
    <2>8. Contained(row', proc') /\ Reachable'
      BY <2>2, <2>3, <2>7, StartFinds DEF Contained, Reachable
    <2>9. RowKeeps(NoThread)
      BY <2>2, <2>3, <2>4, <2>7 DEF RowKeeps
    <2>10. ContainersMove
      <3>1. issued \in Nat /\ issued <= issued
        BY StartFinds, NotMore
      <3>. QED BY <2>2, <3>1 DEF ContainersMove
    <2>. QED BY <2>2, <2>3, <2>6, <2>7, <2>8, <2>9, <2>10, OutdateAllKnown
  <1>. QED BY <1>1, <1>2 DEF Operator

\* After a crash, and between the operations that are resumed, nobody is at work.
LEMMA AllIdleKnown ==
    ASSUME Steady, IInv, Known, row' = row, proc' = proc, reach' = reach, issued' = issued,
           \A u \in Thread : thread'[u] = Idle
    PROVE  Known'
  <1>1. \A u \in Thread : Knows(thread'[u], row', proc', issued', boot')
    BY StartFinds, IdleKnows
  <1>2. OnePlanner'
    <2>1. ASSUME NEW u \in Thread
          PROVE  thread'[u].why # "planner"
      <3>1. Idle.why # "planner"
        BY DEF Idle
      <3>. QED BY <3>1
    <2>. QED BY <2>1 DEF OnePlanner
  <1>3. Shaped(row', issued') /\ Contained(row', proc') /\ Reachable'
    BY StartFinds DEF Reachable
  <1>. QED BY <1>1, <1>2, <1>3 DEF Known

LEMMA RecoveryKnown ==
    ASSUME Steady, IInv, IInv', LocalInv, LockInv, Known, Recovery
    PROVE  Known'
  <1>1. CASE Crash
    BY <1>1, AllIdleKnown DEF Crash, dbVars, nodeVars
  <1>2. CASE Listen
    BY <1>2, AllIdleKnown DEF Listen, IdleThread, dbVars, nodeVars
  <1>3. ASSUME NEW kind \in OpKind, ResumeOpenOperation(kind)
        PROVE  Known'
    <2>1. /\ row' = row /\ proc' = proc /\ reach' = reach /\ issued' = issued
          /\ \A u \in Thread : thread[u] = Idle
          /\ kind \in boot /\ boot' = boot \ {kind}
      BY <1>3 DEF ResumeOpenOperation, IdleThread, dbVars, nodeVars
    <2>2. CASE thread' = thread
      BY <2>1, <2>2, AllIdleKnown
    <2>3. CASE Resumable(kind) /\ Goto(Reconciler, ResumePlace(kind), row, "resume")
      <3>1. PICK x : x = At(ResumePlace(kind), row, "resume")
        OBVIOUS
      <3>2. /\ x.copy = row /\ x.why = "resume" /\ x.pc = ResumePlace(kind)
            /\ thread' = [thread EXCEPT ![Reconciler] = x]
        BY <2>3, <3>1 DEF Goto, At
      <3>3. x.pc \in {"prepare", "start", "finish", "release"} /\ (x.pc = "start" => kind = "start")
        BY <3>2 DEF ResumePlace, OpKind
      <3>4. boot' # {}
        BY <2>1 DEF LockInv, OpKind
      <3>5. x.pc = "start" => row'.start < StartMaxAttempts
        <4>1. x.pc = "start" => ~Spent(row)
          BY <2>3, <3>3 DEF Resumable
        <4>2. PICK n \in Nat : n = row.start
          BY StartFinds
        <4>3. StartMaxAttempts \in Nat
          BY LifecycleAssumption
        <4>. QED BY <2>1, <4>1, <4>2, <4>3 DEF Spent
      <3>6. Shaped(x.copy, issued')
        BY <2>1, <3>2, StartFinds
      <3>7. Knows(x, row', proc', issued', boot')
        BY <3>2, <3>3, <3>4, <3>5, <3>6 DEF Knows
      <3>8. ASSUME NEW u \in Thread
            PROVE  thread'[u] = x \/ thread'[u] = Idle
        BY <2>1, <3>2
      <3>9. Knows(Idle, row', proc', issued', boot')
        BY <2>1, StartFinds, IdleKnows
      <3>10. OnePlanner'
        <4>1. Idle.why # "planner" /\ x.why # "planner"
          BY <3>2 DEF Idle
        <4>2. \A u \in Thread : thread'[u].why # "planner"
          BY <3>8, <4>1
        <4>. QED BY <4>2 DEF OnePlanner
      <3>11. Shaped(row', issued') /\ Contained(row', proc') /\ Reachable'
        BY <2>1, StartFinds DEF Reachable
      <3>. QED BY <3>7, <3>8, <3>9, <3>10, <3>11 DEF Known
    <2>. QED BY <1>3, <2>2, <2>3 DEF ResumeOpenOperation
  <1>. QED BY <1>1, <1>2, <1>3 DEF Recovery

-----------------------------------------------------------------------------
(***************************************************************************)
(* The world.                                                              *)
(***************************************************************************)
LEMMA WorldMovesKnown ==
    ASSUME Steady, IInv, Known, row' = row, thread' = thread, boot' = boot,
           ContainersMove, Contained(row', proc'), Reachable'
    PROVE  Known'
  <1>1. /\ issued \in Nat /\ issued' \in Nat /\ issued <= issued'
        /\ row.ident \in Nat /\ row.pu.ident \in Nat
    BY StartFinds DEF ContainersMove, Row
  <1>2. Shaped(row', issued')
    BY <1>1, StartFinds, ShapedLater
  <1>3. ASSUME NEW u \in Thread
        PROVE  Knows(thread[u], row, proc', issued', boot)
    <2>1. PICK x : x = thread[u]
      OBVIOUS
    <2>2. Knows(x, row, proc, issued, boot)
      BY <2>1 DEF Known
    <2>3. PICK c : c = x.copy
      OBVIOUS
    <2>4. c.ident \in Nat /\ c.pu.ident \in Nat /\ (x.pc # "idle" => c.ident \in Ident)
      BY <2>1, <2>3, CopyTyped
    <2>5. x.pc # "start" => Shaped(c, issued) /\ Shaped(c, issued')
      BY <1>1, <2>2, <2>3, <2>4, ShapedLater DEF Knows
    <2>6. x.pc \in {"unreach", "lost", "prepfail", "probe"} /\ proc[c.ident].phase = "GONE"
             => proc'[c.ident].phase = "GONE"
      BY <2>4, <2>5 DEF ContainersMove, Shaped
    <2>. QED BY <2>1, <2>2, <2>3, <2>5, <2>6 DEF Knows
  <1>4. OnePlanner'
    BY DEF OnePlanner, Known
  <1>. QED BY <1>2, <1>3, <1>4 DEF Known

LEMMA ContainerKnown ==
    ASSUME Steady, IInv, Known, NEW i \in Ident,
           Partition(i) \/ Heal(i) \/ Loaded(i) \/ Degrades(i) \/ Dies(i)
    PROVE  Known'
  <1>1. /\ row' = row /\ thread' = thread /\ boot' = boot /\ issued' = issued
    BY DEF Partition, Heal, Loaded, Degrades, Dies, worldUnchanged, dbVars, ctlVars
  <1>2. ~Partition(i)
    BY DEF Partition, Fails, Steady
  <1>3. ~Heal(i)
    BY DEF Heal, Known, Reachable
  <1>4. reach' = reach
    BY <1>2, <1>3 DEF Loaded, Degrades, Dies
  <1>5. proc[i] \in [phase : Phase, role : AnyRole, ok : BOOLEAN] /\ proc[i].phase = "RUNNING"
    BY <1>2, <1>3 DEF Loaded, Degrades, Dies, IInv, NodeOK
  <1>6. PICK p : p = proc'[i]
    OBVIOUS
  <1>7. proc' = [proc EXCEPT ![i] = p] /\ p.phase \in {"RUNNING", "FAILED"}
    <2>1. PICK q \in [phase : Phase, role : AnyRole, ok : BOOLEAN] : q = proc[i]
      BY <1>5
    <2>2. i \in DOMAIN proc /\ q.phase = "RUNNING"
      BY <1>5, <2>1 DEF IInv, NodeOK
    <2>3. CASE Loaded(i) \/ Degrades(i)
      <3>1. PICK ok \in BOOLEAN : proc' = [proc EXCEPT ![i] = [q EXCEPT !.ok = ok]]
        BY <2>1, <2>3 DEF Loaded, Degrades
      <3>. QED BY <1>6, <2>2, <3>1
    <2>4. CASE Dies(i)
      <3>1. proc' = [proc EXCEPT ![i] = Exited(q)]
        BY <2>1, <2>4 DEF Dies
      <3>. QED BY <1>6, <2>2, <3>1 DEF Exited
    <2>. QED BY <1>2, <1>3, <2>3, <2>4
  <1>8. \A j \in Ident : proc'[j] = IF j = i THEN p ELSE proc[j]
    BY <1>7 DEF IInv, NodeOK
  <1>9. ContainersMove
    <2>1. issued \in Nat /\ issued <= issued
      BY StartFinds, NotMore
    <2>. QED BY <1>1, <1>5, <1>8, <2>1 DEF ContainersMove
  <1>10. Contained(row', proc')
    BY <1>1, <1>5, <1>8, StartFinds DEF Contained
  <1>11. Reachable'
    BY <1>4, <1>5, <1>7, <1>8, StartFinds DEF Reachable
  <1>. QED BY <1>1, <1>9, <1>10, <1>11, WorldMovesKnown

\* The new container has run nothing, and no row names it yet.
LEMMA PartnerKnown ==
    ASSUME Steady, IInv, IInv', Known, PartnerMoves \/ PartnerOffers \/ PartnerDeletes
    PROVE  Known'
  <1>1. row' = row /\ thread' = thread /\ boot' = boot
    BY DEF PartnerMoves, PartnerOffers, PartnerDeletes, worldUnchanged, dbVars, ctlVars
  <1>2. CASE PartnerDeletes
    BY <1>1, <1>2, GivesBack, WorldMovesKnown DEF PartnerDeletes
  <1>3. CASE PartnerMoves \/ PartnerOffers
    <2>1. PICK n \in Nat : n = issued
      BY StartFinds
    <2>2. issued' = n + 1 /\ issued' \in Ident
      BY <1>3, <2>1 DEF PartnerMoves, PartnerOffers, IInv, NodeOK
    <2>3. PICK gone \in {{}, {n}} :
            \A i \in Ident :
               /\ proc'[i] = IF i \in gone THEN NoContainer
                             ELSE IF i = n + 1 THEN FreshContainer ELSE proc[i]
               /\ reach'[i] <=> i = n + 1 \/ (reach[i] /\ i \notin gone)
      <3>1. CASE PartnerMoves
        BY <2>1, <3>1 DEF PartnerMoves
      <3>2. CASE PartnerOffers
        BY <2>1, <3>2 DEF PartnerOffers, IInv, NodeOK
      <3>. QED BY <1>3, <3>1, <3>2
    <2>4. NoContainer.phase = "GONE" /\ FreshContainer.phase = "IDLE" /\ n # n + 1
      BY DEF NoContainer, FreshContainer
    <2>5. row.ident <= n /\ row.ident \in Ident /\ \A i \in Ident : i \in Nat
      BY <2>1, StartFinds DEF Shaped, Ident
    <2>6. ContainersMove
      <3>1. issued' \in Nat /\ issued <= issued'
        BY <2>1, <2>2
      <3>2. \A i \in Ident : i <= issued => i # n + 1
        BY <2>1, <2>5
      <3>. QED BY <2>1, <2>3, <2>4, <3>1, <3>2 DEF ContainersMove
    <2>7. Contained(row', proc')
      <3>1. row.ident # n + 1
        BY <2>5
      <3>2. \A i \in Ident : proc'[i].phase = "GONE" \/ proc'[i].phase = "IDLE" \/ proc'[i] = proc[i]
        BY <2>3, <2>4
      <3>3. proc[row.ident].phase = "GONE" => proc'[row.ident].phase = "GONE"
        BY <2>3, <2>4, <2>5, <3>1
      <3>. QED BY <1>1, <2>5, <3>2, <3>3, StartFinds DEF Contained
    <2>8. Reachable'
      BY <2>3, <2>4, StartFinds DEF Reachable
    <2>. QED BY <1>1, <2>6, <2>7, <2>8, WorldMovesKnown
  <1>. QED BY <1>2, <1>3

\* Time, the Router and a step of nobody touch no container.
LEMMA StillsKnown ==
    ASSUME Steady, IInv, Known, RouterRestarts \/ Clock \/ Rest \/ UNCHANGED vars
    PROVE  Known'
  <1>1. row' = row /\ thread' = thread /\ boot' = boot
    BY WorldStands DEF World
  <1>2. proc' = proc /\ reach' = reach /\ issued' = issued
    BY DEF RouterRestarts, Clock, DeadlinePasses, CooldownPasses, RetryPasses, Rest, vars, nodeVars
  <1>3. ContainersMove
    <2>1. issued \in Nat /\ issued <= issued
      BY StartFinds, NotMore
    <2>. QED BY <1>2, <2>1 DEF ContainersMove
  <1>4. Contained(row', proc') /\ Reachable'
    BY <1>1, <1>2, StartFinds DEF Reachable
  <1>. QED BY <1>1, <1>3, <1>4, WorldMovesKnown
-----------------------------------------------------------------------------
(***************************************************************************)
(* The theorem.                                                            *)
(***************************************************************************)
LEMMA InitKnown == Steady /\ Init => Known
  <1>. SUFFICES ASSUME Steady, Init PROVE Known
    OBVIOUS
  <1>1. PICK r : r = FreshRow(1)
    OBVIOUS
  <1>2. /\ r.inst = "ALLOCATING" /\ r.svc = "NONE" /\ r.role = NoRole /\ r.ident = 1 /\ r.start = 0
        /\ r.rearms = 0 /\ r.worker = NoWorker /\ ~HasUpdate(r) /\ row = r /\ issued = 1
    BY <1>1 DEF FreshRow, HasUpdate, Init
  <1>3. Shaped(row, issued)
    <2>1. 0 <= StartMaxAttempts /\ 0 <= StartRetryMaxRearms /\ 1 <= 1
      BY LifecycleAssumption
    <2>. QED BY <1>2, <2>1 DEF Shaped
  <1>4. \A i \in Ident : /\ proc[i].phase = IF i = 1 THEN "IDLE" ELSE "GONE"
                         /\ reach[i] <=> i = 1
    BY DEF Init, FreshContainer, NoContainer
  <1>5. Contained(row, proc) /\ Reachable
    BY <1>2, <1>4, SomeIdent DEF Contained, Reachable
  <1>6. \A t \in Thread : Knows(thread[t], row, proc, issued, boot)
    <2>1. issued \in Nat
      BY <1>2
    <2>. QED BY <2>1, IdleKnows DEF Init
  <1>7. OnePlanner
    BY DEF Init, OnePlanner, Idle
  <1>. QED BY <1>3, <1>5, <1>6, <1>7 DEF Known

\* Every step keeps what is known of the containers.
LEMMA NextKnown ==
    ASSUME Steady, IInv, IInv', LocalInv, LockInv, Known, [Next]_vars
    PROVE  Known'
  <1>1. ASSUME NEW t \in Thread, Continue(t)
        PROVE  Known'
    BY <1>1, PrepareKnown, PrepareCommitKnown, StartServiceKnown, LaunchKnown, HealthKnown,
       AdvanceKnown, RegisterKnown, OpenKnown, ServeKnown, FailStartKnown, BeginDrainKnown,
       DrainCommitKnown, ReclaimErrKnown, FinishDrainKnown, DrainedKnown, DrainFailKnown,
       BeginReleaseKnown, ReleasingKnown, ReturnKnown, ReturnedKnown, ReclaimStepKnown,
       UpdateStepKnown, ProbeKnown, UnreachKnown, LostKnown, ActExitedKnown, ActLostKnown,
       ActFailedKnown, ActStartingKnown, ActOnKnown, SettleKnown, RearmKnown, RevokedKnown,
       AllocateKnown DEF Continue
  <1>2. ASSUME NEW t \in Thread, Start(t)
        PROVE  Known'
    BY <1>2, ReconcileKnown, ResumeAddKnown, PlannerStartKnown, PlainDrainKnown, RevokeKnown,
       CapacityUpdatedKnown, ReofferKnown DEF Start, OperatorRelease, Begin, Steady, Serialised
  <1>3. ASSUME NEW t \in Thread, Cancel(t)
        PROVE  Known'
    BY <1>3, CancelKnown
  <1>4. CASE Operator \/ Recovery
    BY <1>4, OperatorKnown, RecoveryKnown
  <1>5. CASE World
    BY <1>5, ContainerKnown, PartnerKnown, StillsKnown DEF World
  <1>6. CASE Rest \/ UNCHANGED vars
    BY <1>6, StillsKnown
  <1>. QED BY <1>1, <1>2, <1>3, <1>4, <1>5, <1>6 DEF Next

LEMMA AlwaysKnown == Steady => (Spec => []Known)
  <1>. SUFFICES ASSUME Steady
                PROVE  Spec => []Known
    OBVIOUS
  <1>1. Serialised
    BY DEF Steady
  <1>2. Spec => [](IInv /\ LocalInv /\ LockInv)
    BY <1>1, LocksHeld
  <1>3. Init => Known
    BY InitKnown
  <1>4. IInv /\ IInv' /\ LocalInv /\ LockInv /\ Known /\ [Next]_vars => Known'
    BY NextKnown
  <1>. QED BY <1>2, <1>3, <1>4, PTL DEF Spec

\* The start attempts and the rearms of an instance never pass their budgets
\* (StartServiceWithResult and rearmParkedInstance of lifecycle.go), whatever
\* crashes, cancelled calls, revokes, moves and operator calls happen between two
\* attempts, and however stale the copies of the callers were.
THEOREM LifecycleBudgetRespected == Steady => (Spec => []BudgetRespected)
  <1>. SUFFICES ASSUME Steady
                PROVE  Spec => []BudgetRespected
    OBVIOUS
  <1>1. Known => BudgetRespected
    BY DEF Known, Shaped, BudgetRespected
  <1>. QED BY <1>1, AlwaysKnown, PTL

-----------------------------------------------------------------------------
(***************************************************************************)
(* Processes.                                                              *)
(***************************************************************************)

\* The partner either recreates containers or deletes them behind the controller's
\* back.  If it may do both, the container it no longer lists need not be the one
\* that drains: finishDrain takes its service for gone while it runs on in the
\* container the partner left behind.
Apart == "move" \notin Caller \/ "delete" \notin Fault

Left == {"RELEASING", "RELEASED"}

Quiet(p) == \A i \in Ident : p[i].phase # "RUNNING"

\* A process runs only in the container of the row, for the service of the row.
Runs(r, p) == \A i \in Ident : p[i].phase = "RUNNING" => i = r.ident /\ r.svc # "NONE"

\* What the place of a goroutine at x says of the way the service ends.
Placed(x, p) ==
    /\ Apart /\ x.pc = "drained" => Quiet(p)
    /\ x.pc \in Returning => x.copy.svc = "NONE"
    /\ x.pc \in {"return", "returned", "returnfail"} => x.copy.inst = "RELEASING"
    /\ x.pc \in {"probe", "unreach", "lost"} => x.copy.inst \notin Left

\* What the partner holds, and under which identity.
Possessed ==
    /\ ~held => proc[issued].phase = "GONE"
    /\ "delete" \notin Fault /\ ~held => row.inst \in Left /\ row.svc = "NONE"
    /\ "move" \notin Caller => row.ident = issued \/ row.inst = "RELEASED"

Stops ==
    /\ Apart => Runs(row, proc)
    /\ \A t \in Thread : Placed(thread[t], proc)
    /\ Possessed

\* What a step keeps that neither stops nor moves anything.
RowCalm ==
    /\ row'.ident = row.ident
    /\ row.svc # "NONE" => row'.svc # "NONE"
    /\ row.inst \in Left => row'.inst \in Left

Calm(t, x) ==
    /\ thread' = [thread EXCEPT ![t] = x] \/ thread' = Outdated(t, x)
    /\ Placed(x, proc)
    /\ RowCalm
    /\ proc' = proc /\ reach' = reach /\ held' = held /\ issued' = issued

\* Where the place asks something of the copy.
Special == Returning \cup {"drained", "probe", "unreach", "lost"}

LEMMA CalmPlace ==
    ASSUME NEW x, x.pc \notin Special, NEW p
    PROVE  Placed(x, p)
  BY DEF Placed, Special, Returning

LEMMA IdlePlaced == \A p : Placed(Idle, p)
  BY DEF Placed, Idle, Returning

-----------------------------------------------------------------------------
(***************************************************************************)
(* What a step has to show.                                                *)
(***************************************************************************)

\* A row that is released, or on the way, gets no service.
LEMMA LeftStays ==
    ASSUME row \in Row, row' \in Row, Stored, row.inst \in Left, row.svc = "NONE", row'.inst \in Left
    PROVE  row'.svc = "NONE"
  <1>1. ASSUME NEW next \in Row, Accepts(row, next), row' = Merged(row, next)
        PROVE  row'.svc = "NONE"
    <2>1. next.inst = row'.inst /\ next.svc = row'.svc
      BY <1>1 DEF Merged, Row
    <2>2. next.svc \in {"NONE", "STARTING"}
      BY <1>1 DEF Accepts, ValidateTransition, CanTransitionService, serviceTransitions
    <2>3. next.svc \notin LiveService
      BY <1>1, <2>1, <2>2 DEF Accepts, CheckCombination, Left, LiveService
    <2>. QED BY <2>1, <2>2, <2>3 DEF LiveService
  <1>2. CASE row' = row \/ row' = RequestRelease(row)
    BY <1>2 DEF RequestRelease, Row
  <1>3. ASSUME NEW next \in Row, AcceptsReoffer(row, next), row' = Reoffered(row, next)
        PROVE  row'.svc = "NONE"
    BY <1>3 DEF AcceptsReoffer, Reoffered, Row
  <1>4. ASSUME NEW next \in Row, AcceptsUpdate(row, next)
        PROVE  FALSE
    BY <1>4 DEF AcceptsUpdate
  <1>. QED BY <1>1, <1>2, <1>3, <1>4 DEF Stored, LeaseRow

\* A released row that keeps its identity stays released.
LEMMA ReleasedStays ==
    ASSUME row \in Row, Stored, row.inst = "RELEASED", row'.ident = row.ident
    PROVE  row'.inst = "RELEASED"
  <1>1. ASSUME NEW next \in Row, Accepts(row, next), row' = Merged(row, next)
        PROVE  row'.inst = "RELEASED"
    <2>1. next.inst = row'.inst
      BY <1>1 DEF Merged, Row
    <2>2. next.inst = "RELEASED"
      BY <1>1 DEF Accepts, ValidateTransition, CanTransitionInstance, instanceTransitions
    <2>. QED BY <2>1, <2>2
  <1>2. CASE row' = row \/ row' = RequestRelease(row)
    BY <1>2 DEF RequestRelease, Row
  <1>3. ASSUME NEW next \in Row, AcceptsReoffer(row, next), row' = Reoffered(row, next)
        PROVE  FALSE
    <2>1. row'.ident = next.ident
      BY <1>3 DEF Reoffered, Row
    <2>. QED BY <1>3, <2>1 DEF AcceptsReoffer
  <1>4. ASSUME NEW next \in Row, AcceptsUpdate(row, next)
        PROVE  FALSE
    <2>1. row.svc = "DRAINING" /\ next.inst = "PREPARING"
      BY <1>4 DEF AcceptsUpdate
    <2>. QED BY <1>4, <2>1 DEF AcceptsUpdate, ValidateTransition, CanTransitionInstance, instanceTransitions
  <1>. QED BY <1>1, <1>2, <1>3, <1>4 DEF Stored, LeaseRow

\* The others stay where they are.
LEMMA PlacedStep ==
    ASSUME IInv, NEW t \in Thread, NEW x, \A u \in Thread : Placed(thread[u], proc), Placed(x, proc'),
           thread' = [thread EXCEPT ![t] = x] \/ thread' = Outdated(t, x),
           \A u \in Thread : u # t /\ thread[u].pc = "drained" /\ Apart /\ Quiet(proc) => Quiet(proc')
    PROVE  \A u \in Thread : Placed(thread'[u], proc')
  <1>. SUFFICES ASSUME NEW u \in Thread
                PROVE  Placed(thread'[u], proc')
    OBVIOUS
  <1>1. CASE u = t
    BY <1>1 DEF IInv, ControlOK, Outdated
  <1>2. CASE u # t
    <2>1. PICK y \in Goroutine : y = thread[u]
      BY DEF IInv, ControlOK
    <2>2. thread'[u] = y \/ thread'[u] = [y EXCEPT !.fresh = FALSE]
      <3>1. CASE thread' = [thread EXCEPT ![t] = x]
        BY <1>2, <2>1, <3>1
      <3>2. CASE thread' = Outdated(t, x)
        BY <1>2, <2>1, <3>2 DEF Outdated
      <3>. QED BY <3>1, <3>2
    <2>3. thread'[u].pc = y.pc /\ thread'[u].copy = y.copy
      BY <2>2 DEF Goroutine, Busy, Resting
    <2>4. Placed(y, proc) /\ (y.pc = "drained" /\ Apart /\ Quiet(proc) => Quiet(proc'))
      BY <1>2, <2>1
    <2>. QED BY <2>3, <2>4 DEF Placed
  <1>. QED BY <1>1, <1>2

LEMMA RunsCalm ==
    ASSUME Apart => Runs(row, proc), RowCalm,
           \A i \in Ident : proc'[i].phase = "RUNNING" => proc[i].phase = "RUNNING"
    PROVE  Apart => Runs(row', proc')
  BY DEF Runs, RowCalm

LEMMA PossessedCalm ==
    ASSUME IInv, IInv', Stored, Possessed, RowCalm, held' = held, issued' = issued,
           proc[issued].phase = "GONE" => proc'[issued].phase = "GONE"
    PROVE  Possessed'
  <1>1. row \in Row /\ row' \in Row
    BY DEF IInv, RowOK, LeaseRow
  <1>2. "delete" \notin Fault /\ ~held' => row'.inst \in Left /\ row'.svc = "NONE"
    BY <1>1, LeftStays DEF Possessed, RowCalm
  <1>3. "move" \notin Caller => row'.ident = issued' \/ row'.inst = "RELEASED"
    BY <1>1, ReleasedStays DEF Possessed, RowCalm
  <1>. QED BY <1>2, <1>3 DEF Possessed

LEMMA CalmStops ==
    ASSUME IInv, IInv', Stored, Stops, NEW t \in Thread, NEW x, Calm(t, x)
    PROVE  Stops'
  <1>1. \A u \in Thread : Placed(thread'[u], proc')
    BY PlacedStep DEF Stops, Calm
  <1>2. Apart => Runs(row', proc')
    BY RunsCalm DEF Stops, Calm
  <1>3. Possessed'
    BY PossessedCalm DEF Stops, Calm
  <1>. QED BY <1>1, <1>2, <1>3 DEF Stops

-----------------------------------------------------------------------------
(***************************************************************************)
(* The steps that only move a goroutine.                                   *)
(***************************************************************************)

\* A goroutine ends, or goes on at a place that asks nothing.
Strolls(t) ==
    \/ End(t) \/ WriteEnd(t)
    \/ \E pc \in Place \ Special : \E copy, why :
          \/ Goto(t, pc, copy, why) \/ Hold(t, pc, copy, why)
          \/ WriteGoto(t, pc, copy, why) \/ WriteHold(t, pc, copy, why)

LEMMA CalmWalks ==
    ASSUME NEW t, Strolls(t), RowCalm, UNCHANGED nodeVars
    PROVE  \E x : Calm(t, x)
  <1>1. CASE End(t) \/ WriteEnd(t)
    BY <1>1, IdlePlaced DEF Calm, End, WriteEnd, nodeVars
  <1>2. ASSUME NEW pc \in Place \ Special, NEW copy, NEW why,
               \/ Goto(t, pc, copy, why) \/ Hold(t, pc, copy, why)
               \/ WriteGoto(t, pc, copy, why) \/ WriteHold(t, pc, copy, why)
        PROVE  \E x : Calm(t, x)
    <2>1. PICK x : x = At(pc, copy, why)
      OBVIOUS
    <2>2. Placed(x, proc)
      BY <2>1, CalmPlace DEF At
    <2>3. thread' = [thread EXCEPT ![t] = x] \/ thread' = Outdated(t, x)
      BY <1>2, <2>1 DEF Goto, Hold, WriteGoto, WriteHold
    <2>. QED BY <2>2, <2>3 DEF Calm, nodeVars
  <1>. QED BY <1>1, <1>2 DEF Strolls

LEMMA CalmMoves ==
    ASSUME NEW t, NEW pc, NEW copy, NEW why, Placed(At(pc, copy, why), proc),
           \/ Goto(t, pc, copy, why) \/ Hold(t, pc, copy, why)
           \/ WriteGoto(t, pc, copy, why) \/ WriteHold(t, pc, copy, why),
           RowCalm, UNCHANGED nodeVars
    PROVE  \E x : Calm(t, x)
  <1>1. PICK x : x = At(pc, copy, why)
    OBVIOUS
  <1>2. Placed(x, proc)
    BY <1>1
  <1>3. thread' = [thread EXCEPT ![t] = x] \/ thread' = Outdated(t, x)
    BY <1>1 DEF Goto, Hold, WriteGoto, WriteHold
  <1>. QED BY <1>2, <1>3 DEF Calm, nodeVars

LEMMA SameCalm == row' = row => RowCalm
  BY DEF RowCalm

LEMMA MovesCalm ==
    ASSUME Steady, IInv, LocalInv, LockInv, Known, NEW t \in Thread,
           \/ Prepare(t) \/ Health(t) \/ Register(t) \/ Open(t) \/ BeginDrain(t) \/ ReclaimStep(t)
           \/ UpdateStep(t) \/ ActExited(t) \/ ActFailed(t) \/ ActStarting(t) \/ ActOn(t)
           \/ Settle(t) \/ Revoked(t) \/ ResumeAdd(t) \/ PlannerStart(t) \/ PlainDrain(t) \/ Cancel(t)
    PROVE  \E x : Calm(t, x)
  <1>1. row' = row /\ UNCHANGED nodeVars
    BY DEF Prepare, Health, Register, Open, BeginDrain, ReclaimStep, UpdateStep, ActExited, ActFailed,
           ActStarting, ActOn, Settle, Revoked, ResumeAdd, PlannerStart, PlainDrain, Cancel, dbVars
  <1>2. Strolls(t)
    <2>. USE DEF Strolls, Place, Special, Returning
    <2>1. CASE Prepare(t)
      BY <2>1 DEF Prepare
    <2>2. CASE Health(t)
      BY <2>2 DEF Health
    <2>3. CASE Register(t)
      BY <2>3 DEF Register
    <2>4. CASE Open(t)
      BY <2>4 DEF Open
    <2>5. CASE BeginDrain(t)
      BY <2>5 DEF BeginDrain, DrainError
    <2>6. CASE ReclaimStep(t)
      BY <2>6 DEF ReclaimStep
    <2>7. CASE UpdateStep(t)
      BY <2>7 DEF UpdateStep
    <2>8. CASE ActExited(t)
      BY <2>8 DEF ActExited
    <2>9. CASE ActFailed(t)
      BY <2>9 DEF ActFailed
    <2>10. CASE ActStarting(t)
      BY <2>10 DEF ActStarting
    <2>11. CASE ActOn(t)
      BY <2>11 DEF ActOn
    <2>12. CASE Settle(t)
      BY <2>12 DEF Settle
    <2>13. CASE Revoked(t)
      BY <2>13 DEF Revoked
    <2>14. CASE ResumeAdd(t)
      BY <2>14 DEF ResumeAdd
    <2>15. CASE PlannerStart(t)
      BY <2>15 DEF PlannerStart
    <2>16. CASE PlainDrain(t)
      BY <2>16 DEF PlainDrain
    <2>17. CASE Cancel(t)
      BY <2>17 DEF Cancel
    <2>. QED BY <2>1, <2>2, <2>3, <2>4, <2>5, <2>6, <2>7, <2>8, <2>9, <2>10, <2>11, <2>12, <2>13,
                <2>14, <2>15, <2>16, <2>17
  <1>. QED BY <1>1, <1>2, SameCalm, CalmWalks

LEMMA ProbeCalm ==
    ASSUME IInv, Stops, NEW t \in Thread, Probe(t)
    PROVE  \E x : Calm(t, x)
  <1>1. row' = row /\ UNCHANGED nodeVars /\ thread[t].pc = "probe"
    BY DEF Probe, dbVars
  <1>2. PICK y \in Busy : y = thread[t]
    BY <1>1, SelfType DEF IInv
  <1>3. y.copy.inst \notin Left
    BY <1>1, <1>2 DEF Stops, Placed
  <1>4. PICK w : w = proc[y.copy.ident].phase
    OBVIOUS
  <1>5. PICK x : /\ thread' = [thread EXCEPT ![t] = x]
                 /\ x.pc \in {"act", "unreach"} /\ x.copy = y.copy
    <2>1. CASE thread' = [thread EXCEPT ![t].pc = "act", ![t].why = w]
      <3>1. PICK x : x = [y EXCEPT !.pc = "act", !.why = w]
        OBVIOUS
      <3>2. thread' = [thread EXCEPT ![t] = x]
        BY <1>2, <2>1, <3>1 DEF IInv, ControlOK
      <3>3. x.pc = "act" /\ x.copy = y.copy
        BY <1>2, <3>1 DEF Busy
      <3>. QED BY <3>2, <3>3
    <2>2. CASE thread' = [thread EXCEPT ![t].pc = "unreach"]
      <3>1. PICK x : x = [y EXCEPT !.pc = "unreach"]
        OBVIOUS
      <3>2. thread' = [thread EXCEPT ![t] = x]
        BY <1>2, <2>2, <3>1 DEF IInv, ControlOK
      <3>3. x.pc = "unreach" /\ x.copy = y.copy
        BY <1>2, <3>1 DEF Busy
      <3>. QED BY <3>2, <3>3
    <2>. QED BY <1>2, <1>4, <2>1, <2>2 DEF Probe
  <1>6. Placed(x, proc)
    BY <1>3, <1>5 DEF Placed, Returning
  <1>. QED BY <1>1, <1>5, <1>6, SameCalm DEF Calm, nodeVars

LEMMA UnreachCalm ==
    ASSUME Stops, NEW t \in Thread, Unreach(t)
    PROVE  \E x : Calm(t, x)
  <1>1. row' = row /\ UNCHANGED nodeVars /\ thread[t].pc = "unreach"
    BY DEF Unreach, dbVars
  <1>2. PICK c : c = thread[t].copy
    OBVIOUS
  <1>3. End(t) \/ \E why : Hold(t, "lost", c, why)
    BY <1>2 DEF Unreach
  <1>4. \A why : Placed(At("lost", c, why), proc)
    BY <1>1, <1>2 DEF Stops, Placed, At, Returning
  <1>. QED BY <1>1, <1>3, <1>4, SameCalm, CalmWalks, CalmMoves DEF Strolls

LEMMA ReconcileCalm ==
    ASSUME IInv, NEW t \in Thread, Reconcile(t)
    PROVE  \E x : Calm(t, x)
  <1>1. row' = row /\ UNCHANGED nodeVars
    BY DEF Reconcile, dbVars
  <1>2. PICK pc \in {"reclaim", "update", "release", "probe"} :
           /\ thread' = [thread EXCEPT ![t] = [At(pc, row, "") EXCEPT !.fresh = TRUE]]
           /\ pc = "probe" => row.inst \notin Left
    BY DEF Reconcile, Left
  <1>3. PICK x : x = [At(pc, row, "") EXCEPT !.fresh = TRUE]
    OBVIOUS
  <1>4. x.pc = pc /\ x.copy = row
    BY <1>3 DEF At
  <1>5. Placed(x, proc)
    BY <1>2, <1>4 DEF Placed, Returning
  <1>6. thread' = [thread EXCEPT ![t] = x]
    BY <1>2, <1>3
  <1>. QED BY <1>1, <1>5, <1>6, SameCalm DEF Calm, nodeVars

LEMMA BeginReleaseCalm ==
    ASSUME NEW t \in Thread, BeginRelease(t)
    PROVE  \E x : Calm(t, x)
  <1>1. row' = row /\ UNCHANGED nodeVars
    BY DEF BeginRelease, dbVars
  <1>2. End(t) \/ (row.svc = "NONE" /\ Goto(t, "releasing", row, thread[t].why))
    BY DEF BeginRelease, HasService
  <1>3. row.svc = "NONE" => Placed(At("releasing", row, thread[t].why), proc)
    BY DEF Placed, At, Returning
  <1>. QED BY <1>1, <1>2, <1>3, SameCalm, CalmWalks, CalmMoves DEF Strolls
-----------------------------------------------------------------------------
(***************************************************************************)
(* The steps that write the row.                                           *)
(***************************************************************************)
LEMMA CommitCalm ==
    ASSUME row \in Row, NEW next \in Row, NEW o, Commit(next, o), next.ident = row.ident,
           row.svc # "NONE" => next.svc # "NONE",
           next.inst # "LOST" \/ row.inst \notin Left
    PROVE  RowCalm
  <1>1. row'.ident = next.ident /\ row'.svc = next.svc /\ row'.inst = next.inst
    BY DEF Commit, Merged, Row
  <1>2. row.inst \in Left => next.inst \in Left \cup {"LOST"}
    BY DEF Commit, Accepts, ValidateTransition, CanTransitionInstance, instanceTransitions, Left
  <1>. QED BY <1>1, <1>2 DEF RowCalm

\* Whoever writes the copy he holds.
LEMMA HolderCalm ==
    ASSUME IInv, LocalInv, LockInv, Known, NEW t \in Thread, thread[t].pc # "idle", Holding(thread[t]),
           NEW next \in Row, NEW o, Commit(next, o), next.ident = thread[t].copy.ident,
           thread[t].copy.svc # "NONE" => next.svc # "NONE",
           next.inst # "LOST" \/ thread[t].copy.inst \notin Left \/ next.inst = thread[t].copy.inst
    PROVE  RowCalm
  <1>1. /\ row \in Row /\ next.ident = row.ident
        /\ thread[t].copy.svc = row.svc /\ thread[t].copy.inst = row.inst
    BY SelfKnows
  <1>2. next.inst = "LOST" => row.inst \notin Left
    BY <1>1 DEF Left
  <1>. QED BY <1>1, <1>2, CommitCalm

\* The request and the rows that keep it.
LEMMA RequestCalm ==
    ASSUME row \in Row, row' = RequestRelease(row)
    PROVE  RowCalm
  BY DEF RowCalm, RequestRelease, Row

LEMMA PrepareCommitCalm ==
    ASSUME Steady, IInv, LocalInv, LockInv, Known, NEW t \in Thread, PrepareCommit(t)
    PROVE  \E x : Calm(t, x)
  <1>1. UNCHANGED nodeVars /\ thread[t].pc \in {"prepared", "prepfail"} /\ thread[t].pc # "idle"
    BY DEF PrepareCommit
  <1>2. PICK c : c = thread[t].copy
    OBVIOUS
  <1>3. /\ c \in Row /\ c \in LeaseRow /\ c.inst = "PREPARING" /\ c.svc = "NONE" /\ Holding(thread[t])
    BY <1>1, <1>2, SelfKnows DEF Local, Holding, Owner, Shaped
  <1>4. PICK next : next = IF thread[t].pc = "prepared" THEN PreparedRow(c, thread[t].why) ELSE PrepareFailedRow(c)
    OBVIOUS
  <1>5. next \in Row /\ next.ident = c.ident
    <2>1. next \in Row
      BY <1>3, <1>4, BuiltRows DEF LeaseRow
    <2>2. next.ident = c.ident
      BY <1>3, <1>4 DEF PreparedRow, PrepareFailedRow, Row
    <2>. QED BY <2>1, <2>2
  <1>6. (\E o : Commit(next, o) /\ WriteEnd(t)) \/ (row' = row /\ End(t))
    BY <1>2, <1>4 DEF PrepareCommit, Refused, dbVars
  <1>7. RowCalm
    BY <1>1, <1>2, <1>3, <1>5, <1>6, SameCalm, HolderCalm DEF Left
  <1>. QED BY <1>1, <1>6, <1>7, CalmWalks DEF Strolls

LEMMA StartServiceCalm ==
    ASSUME Steady, IInv, LocalInv, LockInv, Known, NEW t \in Thread, StartService(t)
    PROVE  \E x : Calm(t, x)
  <1>1. UNCHANGED nodeVars /\ row \in Row
    BY DEF StartService, IInv, RowOK, LeaseRow
  <1>0. PICK role \in AnyRole : role = thread[t].copy.role
    BY CopyTyped DEF Row
  <1>2. PICK next : next = [row EXCEPT !.role = role, !.svc = "STARTING", !.start = @ + 1]
    OBVIOUS
  <1>3. \/ row.inst = "IDLE" /\ (\E o : Commit(next, o)) /\ WriteHold(t, "launch", next, thread[t].why)
        \/ row' = row /\ End(t)
    BY <1>0, <1>2 DEF StartService, dbVars
  <1>4. next \in Row /\ next.ident = row.ident /\ next.svc = "STARTING" /\ next.inst = row.inst
    <2>1. row.start + 1 \in Nat /\ "STARTING" \in ServiceState
      BY <1>1 DEF ServiceState, Row
    <2>. QED BY <1>1, <1>2, <2>1 DEF Row
  <1>5. RowCalm
    BY <1>1, <1>3, <1>4, SameCalm, CommitCalm
  <1>6. Strolls(t)
    BY <1>3 DEF Strolls, Place, Special, Returning
  <1>. QED BY <1>1, <1>5, <1>6, CalmWalks

LEMMA AdvanceCalm ==
    ASSUME Steady, IInv, LocalInv, LockInv, Known, NEW t \in Thread, Advance(t)
    PROVE  \E x : Calm(t, x)
  <1>1. UNCHANGED nodeVars /\ thread[t].pc \in {"restarting", "healthy", "registering"} /\ thread[t].pc # "idle"
    BY DEF Advance
  <1>2. PICK c : c = thread[t].copy
    OBVIOUS
  <1>3. PICK svc : svc = NextService(thread[t].pc)
    OBVIOUS
  <1>4. PICK next : next = [c EXCEPT !.svc = svc]
    OBVIOUS
  <1>5. c \in Row /\ Holding(thread[t]) /\ svc \in LiveService
    BY <1>1, <1>2, <1>3, SelfKnows DEF Holding, Owner, NextService, LiveService
  <1>6. next \in Row /\ next.ident = c.ident /\ next.inst = c.inst /\ next.svc # "NONE"
    BY <1>4, <1>5 DEF Row, LiveService, ServiceState
  <1>7. \/ (\E o : Commit(next, o)) /\ WriteGoto(t, NextPlace(thread[t].pc), next, thread[t].why)
        \/ row' = row /\ End(t)
    BY <1>2, <1>3, <1>4 DEF Advance, Refused, dbVars
  <1>8. RowCalm
    BY <1>1, <1>2, <1>5, <1>6, <1>7, SameCalm, HolderCalm
  <1>9. NextPlace(thread[t].pc) \in Place \ Special
    BY <1>1 DEF NextPlace, Place, Special, Returning
  <1>10. Strolls(t)
    BY <1>7, <1>9 DEF Strolls
  <1>. QED BY <1>1, <1>8, <1>10, CalmWalks

LEMMA ServeCalm ==
    ASSUME Steady, IInv, LocalInv, LockInv, Known, NEW t \in Thread, Serve(t)
    PROVE  \E x : Calm(t, x)
  <1>1. UNCHANGED nodeVars /\ thread[t].pc = "serve" /\ thread[t].pc # "idle"
    BY DEF Serve
  <1>2. PICK c : c = thread[t].copy
    OBVIOUS
  <1>3. PICK next : next = ServingRow(c)
    OBVIOUS
  <1>4. c \in Row /\ c \in LeaseRow /\ Holding(thread[t])
    BY <1>1, <1>2, SelfKnows DEF Holding, Owner
  <1>5. next \in Row
    BY <1>3, <1>4, BuiltRows DEF LeaseRow
  <1>6. next.ident = c.ident /\ next.inst = c.inst /\ next.svc = "SERVING"
    BY <1>3, <1>4 DEF ServingRow, Row
  <1>7. (\E o : Commit(next, o) /\ WriteEnd(t)) \/ (row' = row /\ End(t))
    BY <1>2, <1>3 DEF Serve, Refused, dbVars
  <1>8. RowCalm
    BY <1>1, <1>2, <1>4, <1>5, <1>6, <1>7, SameCalm, HolderCalm
  <1>. QED BY <1>1, <1>7, <1>8, CalmWalks DEF Strolls

\* A start that is condemned, by its owner or by a round, is one of the row's.
LEMMA FailStartCalm ==
    ASSUME Steady, IInv, LocalInv, LockInv, Known, NEW t \in Thread, FailStart(t)
    PROVE  \E x : Calm(t, x)
  <1>1. UNCHANGED nodeVars /\ thread[t].pc = "fail" /\ thread[t].pc # "idle"
    BY DEF FailStart
  <1>2. PICK c : c = thread[t].copy
    OBVIOUS
  <1>3. /\ c \in Row /\ c \in LeaseRow /\ row \in Row /\ row.ident = c.ident
        /\ c.inst \in {"IDLE", row.inst}
    <2>1. Knows(thread[t], row, proc, issued, boot) /\ Fits(t, thread[t], lock, boot, row)
      BY <1>1, SelfKnows, SelfFits
    <2>2. c.inst \in {"IDLE", row.inst}
      BY <1>1, <1>2, <2>1 DEF Fits, Stands, Same
    <2>3. thread[t].why = "" => row.ident = c.ident
      BY <1>1, <1>2, <2>1 DEF Knows
    <2>4. thread[t].why # "" => row.ident = c.ident
      BY <1>1, <1>2, SelfKnows DEF Holding
    <2>. QED BY <1>1, <1>2, <2>2, <2>3, <2>4, SelfKnows
  <1>4. PICK next : next = FailedRow(c)
    OBVIOUS
  <1>5. next \in Row
    BY <1>3, <1>4, BuiltRows DEF LeaseRow
  <1>6. next.ident = row.ident /\ next.inst \in {"IDLE", row.inst} /\ next.svc = "FAILED"
    BY <1>3, <1>4 DEF FailedRow, Row
  <1>7. (\E o : Commit(next, o) /\ WriteEnd(t)) \/ (row' = row /\ End(t))
    BY <1>2, <1>4 DEF FailStart, Refused, dbVars
  <1>8. RowCalm
    BY <1>3, <1>5, <1>6, <1>7, SameCalm, CommitCalm DEF Left
  <1>. QED BY <1>1, <1>7, <1>8, CalmWalks DEF Strolls

LEMMA DrainCommitCalm ==
    ASSUME Steady, IInv, LocalInv, LockInv, Known, NEW t \in Thread, DrainCommit(t)
    PROVE  \E x : Calm(t, x)
  <1>1. UNCHANGED nodeVars /\ thread[t].pc = "draincommit" /\ thread[t].pc # "idle"
    BY DEF DrainCommit
  <1>2. PICK c : c = thread[t].copy
    OBVIOUS
  <1>3. c \in Row /\ Holding(thread[t])
    BY <1>1, <1>2, SelfKnows DEF Holding, Owner
  <1>4. PICK next : next = [c EXCEPT !.svc = "DRAINING", !.deadline = TRUE, !.pr = Releases(thread[t].why)]
    OBVIOUS
  <1>5. Releases(thread[t].why) \in BOOLEAN
    BY DEF Releases
  <1>6. next \in Row /\ next.svc = "DRAINING" /\ next.inst = c.inst /\ next.ident = c.ident
    BY <1>3, <1>4, <1>5 DEF Row, ServiceState
  <1>7. \/ (\E o : Commit(next, o)) /\ (WriteEnd(t) \/ \E copy, why : WriteHold(t, "finish", copy, why))
        \/ row' = row /\ (End(t) \/ \E copy, why : Hold(t, "reclaimerr", copy, why))
    BY <1>2, <1>4 DEF DrainCommit, Refused, DrainError, dbVars
  <1>8. RowCalm
    BY <1>1, <1>2, <1>3, <1>6, <1>7, SameCalm, HolderCalm
  <1>9. Strolls(t)
    BY <1>7 DEF Strolls, Place, Special, Returning
  <1>. QED BY <1>1, <1>8, <1>9, CalmWalks

LEMMA ReclaimErrCalm ==
    ASSUME IInv, NEW t \in Thread, ReclaimErr(t)
    PROVE  \E x : Calm(t, x)
  <1>1. UNCHANGED nodeVars /\ row \in Row
    BY DEF ReclaimErr, IInv, RowOK, LeaseRow
  <1>2. PICK next : next = [row EXCEPT !.svc = IF @ \in {"NONE", "DRAINING"} THEN @ ELSE "FAILED"]
    OBVIOUS
  <1>3. /\ next \in Row /\ next.inst = row.inst /\ next.ident = row.ident
        /\ next.svc = IF row.svc \in {"NONE", "DRAINING"} THEN row.svc ELSE "FAILED"
    BY <1>1, <1>2 DEF Row, ServiceState
  <1>4. \/ (\E o : Commit(next, o)) /\ WriteEnd(t)
        \/ row' = row /\ End(t)
    BY <1>2 DEF ReclaimErr, dbVars
  <1>5. next.inst # "LOST" \/ row.inst \notin Left
    BY <1>3 DEF Left
  <1>6. RowCalm
    BY <1>1, <1>3, <1>4, <1>5, SameCalm, CommitCalm
  <1>. QED BY <1>1, <1>4, <1>6, CalmWalks DEF Strolls

LEMMA DrainFailCalm ==
    ASSUME Steady, IInv, LocalInv, LockInv, Known, NEW t \in Thread, DrainFail(t)
    PROVE  \E x : Calm(t, x)
  <1>1. UNCHANGED nodeVars /\ thread[t].pc = "drainfail" /\ thread[t].pc # "idle"
    BY DEF DrainFail
  <1>2. PICK c : c = thread[t].copy
    OBVIOUS
  <1>3. c \in Row /\ Holding(thread[t])
    BY <1>1, <1>2, SelfKnows DEF Holding, Owner
  <1>4. ((\E o : Commit(c, o)) /\ WriteEnd(t)) \/ (row' = row /\ End(t))
    BY <1>2 DEF DrainFail, Refused, dbVars
  <1>5. RowCalm
    BY <1>1, <1>2, <1>3, <1>4, SameCalm, HolderCalm
  <1>. QED BY <1>1, <1>4, <1>5, CalmWalks DEF Strolls

\* A release that is recorded is one of a container without a service.
LEMMA ReleasingCalm ==
    ASSUME Steady, IInv, LocalInv, LockInv, Known, Stops, NEW t \in Thread, Releasing(t)
    PROVE  \E x : Calm(t, x)
  <1>1. UNCHANGED nodeVars /\ thread[t].pc = "releasing" /\ thread[t].pc # "idle"
    BY DEF Releasing
  <1>2. PICK c : c = thread[t].copy
    OBVIOUS
  <1>3. c \in Row /\ Holding(thread[t]) /\ c.svc = "NONE"
    BY <1>1, <1>2, SelfKnows DEF Holding, Returning, Stops, Placed
  <1>4. PICK next : next = [c EXCEPT !.inst = "RELEASING"]
    OBVIOUS
  <1>5. next \in Row /\ next.svc = "NONE" /\ next.inst = "RELEASING" /\ next.ident = c.ident
    BY <1>3, <1>4 DEF Row, InstanceState
  <1>6. \/ (\E o : Commit(next, o)) /\ WriteGoto(t, "return", next, thread[t].why)
        \/ row' = row /\ (End(t) \/ Goto(t, "reclaimerr", row, thread[t].why))
    BY <1>2, <1>4 DEF Releasing, Refused, dbVars
  <1>7. RowCalm
    BY <1>1, <1>2, <1>3, <1>5, <1>6, SameCalm, HolderCalm
  <1>8. CASE row' = row /\ (End(t) \/ Goto(t, "reclaimerr", row, thread[t].why))
    <2>1. Strolls(t)
      BY <1>8 DEF Strolls, Place, Special, Returning
    <2>. QED BY <1>1, <1>7, <2>1, CalmWalks
  <1>9. CASE WriteGoto(t, "return", next, thread[t].why)
    <2>1. Placed(At("return", next, thread[t].why), proc)
      BY <1>5 DEF Placed, At, Left
    <2>. QED BY <1>1, <1>7, <1>9, <2>1, CalmMoves
  <1>. QED BY <1>6, <1>8, <1>9

LEMMA ReturnedCalm ==
    ASSUME Steady, IInv, LocalInv, LockInv, Known, Stops, NEW t \in Thread, Returned(t)
    PROVE  \E x : Calm(t, x)
  <1>1. UNCHANGED nodeVars /\ thread[t].pc \in {"returned", "returnfail"} /\ thread[t].pc # "idle"
    BY DEF Returned
  <1>2. PICK c : c = thread[t].copy
    OBVIOUS
  <1>3. c \in Row /\ Holding(thread[t]) /\ c.svc = "NONE"
    BY <1>1, <1>2, SelfKnows DEF Holding, Returning, Stops, Placed
  <1>4. PICK f : f = [c EXCEPT !.inst = "RELEASED", !.pr = FALSE, !.deadline = FALSE, !.role = NoRole]
    OBVIOUS
  <1>5. f \in Row /\ f.svc = "NONE" /\ f.inst = "RELEASED" /\ f.ident = c.ident
    BY <1>3, <1>4 DEF Row, InstanceState, AnyRole
  <1>6. PICK next : next = IF thread[t].pc = "returned" THEN f ELSE c
    OBVIOUS
  <1>7. next \in Row /\ next.ident = c.ident /\ next.inst \in {"RELEASED", c.inst}
    BY <1>3, <1>5, <1>6
  <1>8. \/ (\E o : Commit(next, o)) /\ (WriteEnd(t) \/ WriteGoto(t, "reclaimerr", row', thread[t].why))
        \/ row' = row /\ (End(t) \/ Goto(t, "reclaimerr", row, thread[t].why))
    BY <1>2, <1>4, <1>6 DEF Returned, Refused, dbVars
  <1>9. RowCalm
    BY <1>1, <1>2, <1>3, <1>7, <1>8, SameCalm, HolderCalm
  <1>10. Strolls(t)
    <2>1. "reclaimerr" \in Place \ Special
      BY DEF Place, Special, Returning
    <2>. QED BY <1>8, <2>1 DEF Strolls
  <1>. QED BY <1>1, <1>9, <1>10, CalmWalks

\* Nobody is lost on the way to the partner.
LEMMA LostCalm ==
    ASSUME Steady, IInv, LocalInv, LockInv, Known, Stops, NEW t \in Thread, Lost(t)
    PROVE  \E x : Calm(t, x)
  <1>1. UNCHANGED nodeVars /\ thread[t].pc = "lost" /\ thread[t].pc # "idle"
    BY DEF Lost
  <1>2. PICK c : c = thread[t].copy
    OBVIOUS
  <1>3. c \in Row /\ Holding(thread[t]) /\ c.inst \notin Left
    BY <1>1, <1>2, SelfKnows DEF Holding, Owner, Stops, Placed
  <1>4. PICK next : next = [c EXCEPT !.inst = "LOST"]
    OBVIOUS
  <1>5. next \in Row /\ next.svc = c.svc /\ next.ident = c.ident
    BY <1>3, <1>4 DEF Row, InstanceState
  <1>6. \/ (\E o : Commit(next, o)) /\ WriteEnd(t)
        \/ row' = row /\ End(t)
    BY <1>2, <1>4 DEF Lost, Refused, dbVars
  <1>7. RowCalm
    BY <1>1, <1>2, <1>3, <1>5, <1>6, SameCalm, HolderCalm
  <1>. QED BY <1>1, <1>6, <1>7, CalmWalks DEF Strolls

LEMMA RearmCalm ==
    ASSUME IInv, NEW t \in Thread, Rearm(t)
    PROVE  \E x : Calm(t, x)
  <1>1. UNCHANGED nodeVars /\ row \in Row
    BY DEF Rearm, IInv, RowOK, LeaseRow
  <1>2. PICK next : next = [row EXCEPT !.start = 0, !.rearms = @ + 1, !.parked = FALSE]
    OBVIOUS
  <1>3. \/ row.inst = "IDLE" /\ (\E o : Commit(next, o)) /\ WriteEnd(t)
        \/ row' = row /\ End(t)
    BY <1>2 DEF Rearm, Parked, dbVars
  <1>4. next \in Row /\ next.ident = row.ident /\ next.svc = row.svc /\ next.inst = row.inst
    <2>1. row.rearms + 1 \in Nat
      BY <1>1 DEF Row
    <2>. QED BY <1>1, <1>2, <2>1 DEF Row
  <1>5. row.inst = "IDLE" => row.inst \notin Left
    BY DEF Left
  <1>6. RowCalm
    BY <1>1, <1>3, <1>4, <1>5, SameCalm, CommitCalm
  <1>. QED BY <1>1, <1>3, <1>6, CalmWalks DEF Strolls

LEMMA AllocateCalm ==
    ASSUME Steady, IInv, LocalInv, LockInv, Known, NEW t \in Thread, Allocate(t)
    PROVE  \E x : Calm(t, x)
  <1>1. UNCHANGED nodeVars /\ thread[t].pc = "allocate" /\ thread[t].pc # "idle"
    BY DEF Allocate
  <1>2. PICK c : c = thread[t].copy
    OBVIOUS
  <1>3. c \in Row /\ Holding(thread[t])
    BY <1>1, <1>2, SelfKnows DEF Holding, Owner
  <1>4. PICK next : next = [c EXCEPT !.inst = "PREPARING"]
    OBVIOUS
  <1>5. next \in Row /\ next.svc = c.svc /\ next.inst # "LOST" /\ next.ident = c.ident
    BY <1>3, <1>4 DEF Row, InstanceState
  <1>6. \/ (\E o : Commit(next, o)) /\ WriteGoto(t, "prepare", next, "resume")
        \/ row' = row /\ End(t)
    BY <1>2, <1>4 DEF Allocate, dbVars
  <1>7. RowCalm
    BY <1>1, <1>2, <1>3, <1>5, <1>6, SameCalm, HolderCalm
  <1>8. Strolls(t)
    BY <1>6 DEF Strolls, Place, Special, Returning
  <1>. QED BY <1>1, <1>7, <1>8, CalmWalks

LEMMA RevokeCalm ==
    ASSUME IInv, NEW t \in Thread, Revoke(t)
    PROVE  \E x : Calm(t, x)
  <1>1. UNCHANGED nodeVars /\ row \in Row /\ row' = RequestRelease(row)
    BY DEF Revoke, IInv, RowOK, LeaseRow
  <1>2. PICK x : x = At("revoked", row, "revoke")
    OBVIOUS
  <1>3. thread' = [thread EXCEPT ![t] = x] \/ thread' = Outdated(t, x)
    BY <1>2 DEF Revoke
  <1>4. Placed(x, proc)
    BY <1>2, CalmPlace DEF At, Special, Returning
  <1>5. RowCalm
    BY <1>1, RequestCalm
  <1>. QED BY <1>1, <1>3, <1>4, <1>5 DEF Calm, nodeVars

-----------------------------------------------------------------------------
(***************************************************************************)
(* The steps that start, stop or move something.                           *)
(***************************************************************************)
LEMMA StopsStep ==
    ASSUME IInv, Stops, NEW t \in Thread, NEW x, Placed(x, proc'),
           thread' = [thread EXCEPT ![t] = x] \/ thread' = Outdated(t, x),
           \A u \in Thread : u # t /\ thread[u].pc = "drained" /\ Apart /\ Quiet(proc) => Quiet(proc'),
           Apart => Runs(row', proc'), Possessed'
    PROVE  Stops'
  <1>1. \A u \in Thread : Placed(thread'[u], proc')
    BY PlacedStep DEF Stops
  <1>. QED BY <1>1 DEF Stops

\* A container changes that answers.
LEMMA AnsweredPossessed ==
    ASSUME IInv, Known, Stops, NEW i \in Ident, reach[i], NEW p, proc' = [proc EXCEPT ![i] = p],
           row' = row, held' = held, issued' = issued
    PROVE  Possessed'
  <1>1. proc[i].phase # "GONE" /\ issued \in Ident
    BY StartFinds DEF Reachable
  <1>2. ~held => proc[issued].phase = "GONE"
    BY DEF Stops, Possessed
  <1>3. ~held => proc'[issued].phase = "GONE"
    BY <1>1, <1>2 DEF IInv, NodeOK
  <1>. QED BY <1>3 DEF Stops, Possessed

\* Only whoever holds the lock launches, and only for the service of the row.
LEMMA LaunchStops ==
    ASSUME Steady, IInv, IInv', LocalInv, LockInv, Known, Stored, Stops, NEW t \in Thread, Launch(t)
    PROVE  Stops'
  <1>1. /\ row' = row /\ reach' = reach /\ held' = held /\ issued' = issued
        /\ thread[t].pc = "launch" /\ thread[t].pc # "idle"
    BY DEF Launch, dbVars
  <1>2. PICK i \in Ident : i = thread[t].copy.ident
    BY <1>1, SelfKnows
  <1>3. i = row.ident /\ row.svc = "STARTING" /\ lock = t
    <2>1. Holding(thread[t]) /\ thread[t].copy.svc = "STARTING"
      BY <1>1, SelfKnows DEF Holding, Owner, Local, ServiceAt
    <2>2. lock = t
      BY <1>1, SelfFits DEF Owner
    <2>. QED BY <1>1, <1>2, <2>1, <2>2, SelfKnows
  <1>4. PICK pc \in {"health", "fail"} : Goto(t, pc, thread[t].copy, thread[t].why)
    BY DEF Launch
  <1>5. Strolls(t)
    BY <1>4 DEF Strolls, Place, Special, Returning
  <1>6. CASE proc' = proc
    <2>1. UNCHANGED nodeVars
      BY <1>1, <1>6 DEF nodeVars
    <2>. QED BY <1>1, <1>5, <2>1, SameCalm, CalmWalks, CalmStops
  <1>7. ASSUME NEW p, proc' = [proc EXCEPT ![i] = p], reach[i]
        PROVE  Stops'
    <2>1. PICK x : x = At(pc, thread[t].copy, thread[t].why)
      OBVIOUS
    <2>2. Placed(x, proc') /\ thread' = [thread EXCEPT ![t] = x]
      BY <1>4, <2>1, CalmPlace DEF At, Special, Returning, Goto
    <2>3. ASSUME NEW u \in Thread, u # t
          PROVE  thread[u].pc # "drained"
      BY <1>3, <2>3 DEF LockInv, Fits, Owner
    <2>4. Apart => Runs(row', proc')
      BY <1>1, <1>3, <1>7 DEF Stops, Runs, IInv, NodeOK
    <2>5. Possessed'
      BY <1>1, <1>7, AnsweredPossessed
    <2>. QED BY <2>2, <2>3, <2>4, <2>5, StopsStep
  <1>8. proc' = proc \/ (reach[i] /\ \E p : proc' = [proc EXCEPT ![i] = p])
    BY <1>2 DEF Launch, BootstrapAnswers
  <1>. QED BY <1>6, <1>7, <1>8

\* A drain goes on without a stop only if there is nothing left to stop: the
\* container is gone, and no other runs.
LEMMA NothingRuns ==
    ASSUME IInv, Known, LegalRow, Stops, Apart, row.svc = "DRAINING",
           row.inst = "LOST" \/ ~held
    PROVE  Quiet(proc)
  <1>1. Runs(row, proc)
    BY DEF Stops
  <1>2. proc[row.ident].phase = "GONE"
    <2>1. CASE row.inst = "LOST"
      BY <2>1, StartFinds DEF Contained
    <2>2. CASE ~held
      <3>1. row.inst # "RELEASED"
        BY DEF LegalRow, Table!LegalRow, Table!CheckCombination
      <3>2. row.ident = issued
        BY <2>2, <3>1 DEF Stops, Possessed, Apart
      <3>. QED BY <2>2, <3>2 DEF Stops, Possessed
    <2>. QED BY <2>1, <2>2
  <1>. QED BY <1>1, <1>2 DEF Runs, Quiet

LEMMA FinishDrainStops ==
    ASSUME Steady, IInv, IInv', LocalInv, LockInv, Known, LegalRow, Stored, Stops, NEW t \in Thread, FinishDrain(t)
    PROVE  Stops'
  <1>1. /\ row' = row /\ reach' = reach /\ held' = held /\ issued' = issued
        /\ row.ident \in Ident
    BY StartFinds DEF FinishDrain, dbVars
  <1>2. PICK why : why = thread[t].why
    OBVIOUS
  <1>3. CASE proc' = proc /\ (End(t) \/ Hold(t, "drainfail", row, why))
    <2>1. UNCHANGED nodeVars
      BY <1>1, <1>3 DEF nodeVars
    <2>2. Strolls(t)
      BY <1>3 DEF Strolls, Place, Special, Returning
    <2>. QED BY <1>1, <2>1, <2>2, SameCalm, CalmWalks, CalmStops
  <1>4. CASE /\ proc' = proc /\ Hold(t, "drained", row, why) /\ row.svc = "DRAINING"
             /\ row.inst = "LOST" \/ ~held
    <2>1. UNCHANGED nodeVars
      BY <1>1, <1>4 DEF nodeVars
    <2>2. Placed(At("drained", row, why), proc)
      BY <1>4, NothingRuns DEF Placed, At, Returning
    <2>. QED BY <1>1, <1>4, <2>1, <2>2, SameCalm, CalmMoves, CalmStops
  <1>5. ASSUME proc' = Stopped(row.ident), reach[row.ident], NEW pc \in {"drained", "drainfail"}, Hold(t, pc, row, why)
        PROVE  Stops'
    <2>1. PICK x : x = At(pc, row, why)
      OBVIOUS
    <2>2. x.pc \in {"drained", "drainfail"} /\ x.copy = row /\ thread' = [thread EXCEPT ![t] = x]
      BY <1>5, <2>1 DEF At, Hold
    <2>3. PICK p : p.phase = "STOPPED" /\ proc' = [proc EXCEPT ![row.ident] = p]
      <3>1. PICK q \in [phase : Phase, role : AnyRole, ok : BOOLEAN] : q = proc[row.ident]
        BY <1>1 DEF IInv, NodeOK
      <3>2. proc' = [proc EXCEPT ![row.ident] = [[q EXCEPT !.phase = "STOPPED"] EXCEPT !.ok = FALSE]]
        BY <1>1, <1>5, <3>1 DEF Stopped, IInv, NodeOK
      <3>3. [[q EXCEPT !.phase = "STOPPED"] EXCEPT !.ok = FALSE].phase = "STOPPED"
        BY <3>1
      <3>. QED BY <3>2, <3>3
    <2>4. \A j \in Ident : proc'[j].phase = "RUNNING" => proc[j].phase = "RUNNING" /\ j # row.ident
      BY <1>1, <2>3 DEF IInv, NodeOK
    <2>5. Apart => Runs(row', proc') /\ Quiet(proc')
      BY <1>1, <2>4 DEF Stops, Runs, Quiet
    <2>6. Placed(x, proc')
      BY <2>2, <2>5 DEF Placed, Returning
    <2>7. Possessed'
      BY <1>1, <1>5, <2>3, AnsweredPossessed
    <2>. QED BY <2>2, <2>5, <2>6, <2>7, StopsStep
  <1>. QED BY <1>2, <1>3, <1>4, <1>5 DEF FinishDrain, BootstrapAnswers

\* The drained row is idle, or moves on, when nothing runs any more.
LEMMA DrainedStops ==
    ASSUME Steady, IInv, IInv', LocalInv, LockInv, Known, LegalRow, Stored, Stops, NEW t \in Thread, Drained(t)
    PROVE  Stops'
  <1>1. UNCHANGED nodeVars /\ thread[t].pc = "drained" /\ thread[t].pc # "idle"
    BY DEF Drained
  <1>2. PICK c : c = thread[t].copy
    OBVIOUS
  <1>3. /\ c \in Row /\ c \in LeaseRow /\ c.ident = row.ident /\ c.inst = row.inst
        /\ row.svc = "DRAINING" /\ row \in Row /\ Shaped(row, issued)
    BY <1>1, <1>2, DrainerIs, StartFinds
  <1>4. Apart => Quiet(proc)
    BY <1>1 DEF Stops, Placed
  <1>5. row.inst # "RELEASED"
    BY <1>3 DEF LegalRow, Table!LegalRow, Table!CheckCombination
  <1>6. CASE row' = row /\ End(t)
    BY <1>1, <1>6, SameCalm, CalmWalks, CalmStops DEF Strolls
  <1>7. ASSUME (row'.inst = row.inst /\ row'.ident = row.ident) \/ "move" \in Caller,
               WriteEnd(t) \/ WriteHold(t, "release", row', "reclaim")
        PROVE  Stops'
    <2>1. PICK x : x \in {Idle, At("release", row', "reclaim")} /\ thread' = Outdated(t, x)
      BY <1>7 DEF WriteEnd, WriteHold
    <2>2. Placed(x, proc')
      <3>1. At("release", row', "reclaim").pc \notin Special
        BY DEF At, Special, Returning
      <3>. QED BY <2>1, <3>1, IdlePlaced, CalmPlace
    <2>3. Apart => Runs(row', proc')
      BY <1>1, <1>4 DEF Quiet, Runs, nodeVars
    <2>4. Possessed'
      BY <1>1, <1>3, <1>7 DEF Stops, Possessed, nodeVars
    <2>5. proc' = proc
      BY <1>1 DEF nodeVars
    <2>. QED BY <2>1, <2>2, <2>3, <2>4, <2>5, StopsStep
  <1>8. ASSUME Accepts(row, DrainedRow(c)), row' = Merged(row, DrainedRow(c))
        PROVE  row'.inst = row.inst /\ row'.ident = row.ident
    <2>1. PICK d \in Row : d = DrainedRow(c)
      BY <1>3, BuiltRows DEF LeaseRow
    <2>2. d.inst = c.inst /\ d.ident = c.ident
      BY <1>3, <2>1 DEF DrainedRow, Row
    <2>. QED BY <1>3, <1>8, <2>1, <2>2 DEF Merged, Row
  <1>9. ASSUME AcceptsUpdate(row, MovedRow(c))
        PROVE  "move" \in Caller
    <2>1. row.ident < row.pu.ident /\ row.pu.ident <= issued
      BY <1>3, <1>9 DEF AcceptsUpdate, Shaped
    <2>2. row.ident # issued
      BY <1>3, <2>1, StartFinds DEF Row
    <2>. QED BY <1>5, <2>2 DEF Stops, Possessed
  <1>. QED BY <1>2, <1>6, <1>7, <1>8, <1>9 DEF Drained, dbVars

\* The row takes another identity when nothing runs.
LEMMA QuietStops ==
    ASSUME IInv, Stops, NEW t \in Thread, NEW x, Placed(x, proc), thread' = Outdated(t, x),
           Apart => Quiet(proc), UNCHANGED nodeVars, Possessed'
    PROVE  Stops'
  <1>1. proc' = proc
    BY DEF nodeVars
  <1>2. Apart => Runs(row', proc')
    BY <1>1 DEF Quiet, Runs
  <1>. QED BY <1>1, <1>2, StopsStep

LEMMA NoService ==
    ASSUME Stops, row.svc = "NONE", Apart
    PROVE  Quiet(proc)
  BY DEF Stops, Runs, Quiet

LEMMA CapacityUpdatedStops ==
    ASSUME Steady, IInv, IInv', LocalInv, LockInv, Known, Stored, Stops, NEW t \in Thread, CapacityUpdated(t)
    PROVE  Stops'
  <1>1. /\ UNCHANGED nodeVars /\ row \in Row /\ issued \in Nat /\ held /\ "move" \in Caller
        /\ row.inst \notin Left
    BY StartFinds DEF CapacityUpdated, Begin, Left
  <1>2. PICK q : q = [row EXCEPT !.pu = [ident |-> issued, at |-> issued]]
    OBVIOUS
  <1>3. q \in Row /\ q.inst = row.inst /\ q.svc = row.svc /\ q.ident = row.ident
    BY <1>1, <1>2 DEF Row
  <1>4. \/ Commit(q, ops) /\ WriteHold(t, "drain", q, "plain")
        \/ row.svc = "NONE" /\ WriteEnd(t)
    BY <1>2 DEF CapacityUpdated, HasService
  <1>5. CASE Commit(q, ops) /\ WriteHold(t, "drain", q, "plain")
    <2>1. RowCalm
      BY <1>1, <1>3, <1>5, CommitCalm
    <2>2. Strolls(t)
      BY <1>5 DEF Strolls, Place, Special, Returning
    <2>. QED BY <1>1, <2>1, <2>2, CalmWalks, CalmStops
  <1>6. CASE row.svc = "NONE" /\ WriteEnd(t)
    <2>1. thread' = Outdated(t, Idle) /\ Placed(Idle, proc)
      BY <1>6, IdlePlaced DEF WriteEnd
    <2>2. Apart => Quiet(proc)
      BY <1>6, NoService
    <2>3. Possessed'
      BY <1>1 DEF Possessed, nodeVars
    <2>. QED BY <1>1, <2>1, <2>2, <2>3, QuietStops
  <1>. QED BY <1>4, <1>5, <1>6

LEMMA ReofferStops ==
    ASSUME IInv, Known, Stops, NEW t \in Thread, Reoffer(t)
    PROVE  Stops'
  <1>1. /\ UNCHANGED nodeVars /\ held /\ row.svc = "NONE"
        /\ WriteHold(t, "allocate", row', "")
    BY DEF Reoffer, AcceptsReoffer
  <1>2. row'.ident = issued
    <2>1. PICK f : f = FreshRow(issued)
      OBVIOUS
    <2>2. f.ident = issued /\ row' = [f EXCEPT !.seen = Later(f.seen, row.seen)]
      BY <2>1 DEF FreshRow, Reoffer, Reoffered
    <2>. QED BY <2>2
  <1>3. PICK x : x = At("allocate", row', "")
    OBVIOUS
  <1>4. Placed(x, proc) /\ thread' = Outdated(t, x)
    BY <1>1, <1>3, CalmPlace DEF At, Special, Returning, WriteHold
  <1>5. Apart => Quiet(proc)
    BY <1>1, NoService
  <1>6. Possessed'
    BY <1>1, <1>2 DEF Possessed, nodeVars
  <1>. QED BY <1>1, <1>4, <1>5, <1>6, QuietStops

-----------------------------------------------------------------------------
(***************************************************************************)
(* The operator, crashes and the world.                                    *)
(***************************************************************************)

\* A step of no goroutine.
LEMMA OutsideStops ==
    ASSUME IInv, IInv', Stored, Stops, thread' = thread \/ OutdateAll, RowCalm,
           \A i \in Ident : proc'[i].phase = "RUNNING" => proc[i].phase = "RUNNING",
           Possessed'
    PROVE  Stops'
  <1>1. ASSUME NEW u \in Thread
        PROVE  Placed(thread'[u], proc')
    <2>1. PICK y \in Goroutine : y = thread[u]
      BY DEF IInv, ControlOK
    <2>2. thread'[u] = y \/ thread'[u] = [y EXCEPT !.fresh = FALSE]
      BY <2>1 DEF OutdateAll
    <2>3. thread'[u].pc = y.pc /\ thread'[u].copy = y.copy
      BY <2>2 DEF Goroutine, Busy, Resting
    <2>4. Placed(y, proc) /\ (Quiet(proc) => Quiet(proc'))
      BY <2>1 DEF Stops, Quiet
    <2>. QED BY <2>3, <2>4 DEF Placed
  <1>2. Apart => Runs(row', proc')
    BY RunsCalm DEF Stops
  <1>. QED BY <1>1, <1>2 DEF Stops

LEMMA OperatorStops ==
    ASSUME IInv, IInv', Stored, Stops, Operator
    PROVE  Stops'
  <1>1. UNCHANGED nodeVars /\ OutdateAll /\ row \in Row
    BY DEF Operator, RequeueService, RequestReclaim, IInv, RowOK, LeaseRow
  <1>2. RowCalm
    <2>1. CASE RequestReclaim
      BY <1>1, <2>1, RequestCalm DEF RequestReclaim
    <2>2. CASE RequeueService
      <3>1. PICK next : next = [row EXCEPT !.start = 0, !.rearms = 0, !.parked = FALSE]
        OBVIOUS
      <3>2. next \in Row /\ next.ident = row.ident /\ next.svc = row.svc /\ next.inst = row.inst
        BY <1>1, <3>1 DEF Row
      <3>3. row.inst \notin Left /\ \E o : Commit(next, o)
        BY <2>2, <3>1 DEF RequeueService, Parked, Left
      <3>. QED BY <1>1, <3>2, <3>3, CommitCalm
    <2>. QED BY <2>1, <2>2 DEF Operator
  <1>3. proc' = proc /\ Possessed'
    BY <1>1, <1>2, PossessedCalm DEF Stops, nodeVars
  <1>. QED BY <1>1, <1>2, <1>3, OutsideStops

LEMMA RecoveryStops ==
    ASSUME IInv, IInv', Stored, Stops, Recovery
    PROVE  Stops'
  <1>1. row' = row /\ UNCHANGED nodeVars
    BY DEF Recovery, Crash, Listen, ResumeOpenOperation, dbVars
  <1>2. proc' = proc /\ RowCalm /\ Possessed'
    BY <1>1, SameCalm, PossessedCalm DEF Stops, nodeVars
  <1>3. CASE thread' = thread
    BY <1>2, <1>3, OutsideStops
  <1>4. CASE Crash
    <2>1. \A u \in Thread : Placed(thread'[u], proc')
      BY <1>4, IdlePlaced DEF Crash
    <2>2. Apart => Runs(row', proc')
      BY <1>2, RunsCalm DEF Stops
    <2>. QED BY <1>2, <2>1, <2>2 DEF Stops
  <1>5. ASSUME NEW pc \in {"prepare", "start", "finish", "release"}, Goto(Reconciler, pc, row, "resume")
        PROVE  Stops'
    <2>1. Strolls(Reconciler)
      BY <1>5 DEF Strolls, Place, Special, Returning
    <2>. QED BY <1>1, <1>2, <2>1, LifecycleAssumption, CalmWalks, CalmStops
  <1>. QED BY <1>3, <1>4, <1>5 DEF Recovery, Listen, ResumeOpenOperation, ResumePlace, OpKind

LEMMA ContainerStops ==
    ASSUME Steady, IInv, IInv', Known, Stored, Stops, NEW i \in Ident,
           Partition(i) \/ Heal(i) \/ Loaded(i) \/ Degrades(i) \/ Dies(i)
    PROVE  Stops'
  <1>1. /\ row' = row /\ thread' = thread /\ held' = held /\ issued' = issued
    BY DEF Partition, Heal, Loaded, Degrades, Dies, worldUnchanged, dbVars, ctlVars
  <1>2. ~Partition(i) /\ ~Heal(i)
    BY DEF Partition, Fails, Steady, Heal, Known, Reachable
  <1>3. proc[i].phase = "RUNNING" /\ \E p : proc' = [proc EXCEPT ![i] = p]
    <2>1. PICK q \in [phase : Phase, role : AnyRole, ok : BOOLEAN] : q = proc[i]
      BY DEF IInv, NodeOK
    <2>2. CASE Loaded(i) \/ Degrades(i)
      <3>1. PICK ok \in BOOLEAN : proc' = [proc EXCEPT ![i] = [q EXCEPT !.ok = ok]]
        BY <2>1, <2>2 DEF Loaded, Degrades
      <3>. QED BY <2>2, <3>1 DEF Loaded, Degrades
    <2>3. CASE Dies(i)
      <3>1. proc' = [proc EXCEPT ![i] = Exited(q)]
        BY <2>1, <2>3 DEF Dies
      <3>. QED BY <2>3, <3>1 DEF Dies
    <2>. QED BY <1>2, <2>2, <2>3
  <1>4. reach[i]
    BY <1>3 DEF Known, Reachable
  <1>5. \A j \in Ident : proc'[j].phase = "RUNNING" => proc[j].phase = "RUNNING"
    BY <1>3 DEF IInv, NodeOK
  <1>6. RowCalm /\ Possessed'
    BY <1>1, <1>3, <1>4, SameCalm, AnsweredPossessed
  <1>. QED BY <1>1, <1>5, <1>6, OutsideStops

LEMMA PartnerStops ==
    ASSUME Steady, IInv, IInv', Known, Stored, Stops, PartnerMoves \/ PartnerOffers \/ PartnerDeletes
    PROVE  Stops'
  <1>1. row' = row /\ thread' = thread
    BY DEF PartnerMoves, PartnerOffers, PartnerDeletes, worldUnchanged, dbVars, ctlVars
  <1>2. NoContainer.phase = "GONE" /\ FreshContainer.phase = "IDLE" /\ issued \in Ident
    BY StartFinds DEF NoContainer, FreshContainer
  <1>3. \A i \in Ident : proc'[i].phase = "RUNNING" => proc[i].phase = "RUNNING"
    <2>1. CASE PartnerMoves
      <3>1. PICK gone \in {{}, {issued}} :
              proc' = [i \in Ident |-> IF i \in gone THEN NoContainer
                                       ELSE IF i = issued + 1 THEN FreshContainer
                                       ELSE proc[i]]
        BY <2>1 DEF PartnerMoves
      <3>. QED BY <1>2, <3>1
    <2>2. CASE PartnerOffers
      BY <1>2, <2>2 DEF PartnerOffers, IInv, NodeOK
    <2>3. CASE PartnerDeletes
      BY <1>2, <2>3 DEF PartnerDeletes, GiveBack, IInv, NodeOK
    <2>. QED BY <2>1, <2>2, <2>3
  <1>4. Possessed'
    <2>1. CASE PartnerMoves
      BY <2>1 DEF PartnerMoves, Possessed
    <2>2. CASE PartnerOffers
      BY <1>1, <2>2 DEF PartnerOffers, Possessed
    <2>3. CASE PartnerDeletes
      <3>1. /\ proc' = [proc EXCEPT ![issued] = NoContainer] /\ issued' = issued
            /\ "delete" \in Fault
        BY <2>3 DEF PartnerDeletes, GiveBack, Fails
      <3>2. proc'[issued'].phase = "GONE"
        BY <1>2, <3>1 DEF IInv, NodeOK
      <3>. QED BY <1>1, <3>1, <3>2 DEF Stops, Possessed
    <2>. QED BY <2>1, <2>2, <2>3
  <1>. QED BY <1>1, <1>3, <1>4, SameCalm, OutsideStops

LEMMA StillsStop ==
    ASSUME Steady, IInv, IInv', Known, Stored, Stops, RouterRestarts \/ Clock \/ Rest \/ UNCHANGED vars
    PROVE  Stops'
  <1>1. row' = row /\ thread' = thread
    BY WorldStands DEF World
  <1>2. proc' = proc /\ held' = held /\ issued' = issued
    BY DEF RouterRestarts, Clock, DeadlinePasses, CooldownPasses, RetryPasses, Rest, vars, nodeVars
  <1>3. Possessed'
    BY <1>1, <1>2 DEF Stops, Possessed
  <1>. QED BY <1>1, <1>2, <1>3, SameCalm, OutsideStops

\* A container is given back once the row says so, and the row has no service then.
LEMMA ReturnStops ==
    ASSUME Steady, IInv, IInv', LocalInv, LockInv, Known, Stored, Stops, NEW t \in Thread, Return(t)
    PROVE  Stops'
  <1>1. row' = row /\ thread[t].pc = "return" /\ thread[t].pc # "idle"
    BY DEF Return, dbVars
  <1>2. PICK c : c = thread[t].copy
    OBVIOUS
  <1>3. c.svc = "NONE" /\ c.inst = "RELEASING" /\ row.svc = "NONE" /\ row.inst = "RELEASING"
    BY <1>1, <1>2, SelfKnows DEF Holding, Returning, Stops, Placed
  <1>4. PICK pc \in {"returned", "returnfail"} : Goto(t, pc, c, thread[t].why)
    BY <1>2 DEF Return
  <1>5. PICK x : x = At(pc, c, thread[t].why)
    OBVIOUS
  <1>6. \A p : Placed(x, p)
    BY <1>3, <1>4, <1>5 DEF Placed, At
  <1>7. CASE UNCHANGED nodeVars
    <2>1. Placed(At(pc, c, thread[t].why), proc)
      BY <1>5, <1>6
    <2>. QED BY <1>1, <1>4, <1>7, <2>1, SameCalm, CalmMoves, CalmStops
  <1>8. CASE GiveBack
    <2>1. NoContainer.phase = "GONE" /\ issued \in Ident
      BY StartFinds DEF NoContainer
    <2>2. \A i \in Ident : proc'[i] = IF i = issued THEN NoContainer ELSE proc[i]
      BY <1>8 DEF GiveBack, IInv, NodeOK
    <2>3. \A i \in Ident : proc'[i].phase = "RUNNING" => proc[i].phase = "RUNNING"
      BY <2>1, <2>2
    <2>4. Quiet(proc) => Quiet(proc')
      BY <2>3 DEF Quiet
    <2>5. Apart => Runs(row', proc')
      BY <1>1, <2>3, SameCalm, RunsCalm DEF Stops
    <2>6. Possessed'
      <3>1. issued' = issued /\ proc'[issued].phase = "GONE"
        BY <1>8, <2>1, <2>2 DEF GiveBack
      <3>. QED BY <1>1, <1>3, <3>1 DEF Stops, Possessed, Left
    <2>7. thread' = [thread EXCEPT ![t] = x]
      BY <1>4, <1>5 DEF Goto
    <2>. QED BY <1>6, <2>4, <2>5, <2>6, <2>7, StopsStep
  <1>. QED BY <1>7, <1>8 DEF Return

LEMMA CalmStep ==
    ASSUME Steady, IInv, IInv', LocalInv, LockInv, Known, Stored, Stops, NEW t \in Thread,
           \E x : Calm(t, x)
    PROVE  Stops'
  BY CalmStops

LEMMA InitStops == Init => Stops
  <1>. SUFFICES ASSUME Init PROVE Stops
    OBVIOUS
  <1>1. row.ident = 1 /\ issued = 1 /\ held
    BY DEF Init, FreshRow
  <1>2. \A i \in Ident : proc[i].phase # "RUNNING"
    BY DEF Init, FreshContainer, NoContainer
  <1>3. \A t \in Thread : Placed(thread[t], proc)
    BY IdlePlaced DEF Init
  <1>. QED BY <1>1, <1>2, <1>3 DEF Stops, Runs, Possessed

LEMMA NextStops ==
    ASSUME Steady, IInv, LocalInv, LockInv, Known, LegalRow, Stops, [Next]_vars
    PROVE  Stops'
  <1>0. Stored /\ IInv'
    BY StepStores
  <1>1. ASSUME NEW t \in Thread, Continue(t)
        PROVE  Stops'
    <2>1. CASE Launch(t) \/ FinishDrain(t) \/ Drained(t) \/ Return(t)
      BY <1>0, <2>1, LaunchStops, FinishDrainStops, DrainedStops, ReturnStops
    <2>2. CASE ~(Launch(t) \/ FinishDrain(t) \/ Drained(t) \/ Return(t))
      <3>1. \E x : Calm(t, x)
        BY <1>1, <2>2, MovesCalm, ProbeCalm, UnreachCalm, BeginReleaseCalm, PrepareCommitCalm,
           StartServiceCalm, AdvanceCalm, ServeCalm, FailStartCalm, DrainCommitCalm, ReclaimErrCalm,
           DrainFailCalm, ReleasingCalm, ReturnedCalm, LostCalm, RearmCalm, AllocateCalm, ActLostKnown
           DEF Continue
      <3>. QED BY <1>0, <3>1, CalmStep
    <2>. QED BY <2>1, <2>2
  <1>2. ASSUME NEW t \in Thread, Start(t)
        PROVE  Stops'
    <2>1. CASE CapacityUpdated(t) \/ Reoffer(t)
      BY <1>0, <2>1, CapacityUpdatedStops, ReofferStops
    <2>2. CASE ~(CapacityUpdated(t) \/ Reoffer(t))
      <3>1. ~OperatorRelease(t)
        BY DEF OperatorRelease, Begin, Steady, Serialised
      <3>2. \E x : Calm(t, x)
        BY <1>2, <2>2, <3>1, MovesCalm, ReconcileCalm, RevokeCalm DEF Start
      <3>. QED BY <1>0, <3>2, CalmStep
    <2>. QED BY <2>1, <2>2
  <1>3. ASSUME NEW t \in Thread, Cancel(t)
        PROVE  Stops'
    BY <1>0, <1>3, MovesCalm, CalmStep
  <1>4. CASE Operator \/ Recovery
    BY <1>0, <1>4, OperatorStops, RecoveryStops
  <1>5. CASE World
    BY <1>0, <1>5, ContainerStops, PartnerStops, StillsStop DEF World
  <1>6. CASE Rest \/ UNCHANGED vars
    BY <1>0, <1>6, StillsStop
  <1>. QED BY <1>1, <1>2, <1>3, <1>4, <1>5, <1>6 DEF Next

LEMMA AlwaysStops == Steady => (Spec => [](IInv /\ LockInv /\ LocalInv /\ Known /\ Stops))
  <1>. SUFFICES ASSUME Steady
                PROVE  Spec => [](IInv /\ LockInv /\ LocalInv /\ Known /\ Stops)
    OBVIOUS
  <1>1. Serialised
    BY DEF Steady
  <1>2. Spec => [](IInv /\ LocalInv /\ LockInv)
    BY <1>1, LocksHeld
  <1>3. Spec => []Known
    BY AlwaysKnown
  <1>4. IInv /\ LocalInv /\ LockInv /\ Known /\ LegalRow /\ Stops /\ [Next]_vars => Stops'
    BY NextStops
  <1>. QED BY <1>2, <1>3, <1>4, InitStops, LifecycleLegal, PTL DEF Spec

-----------------------------------------------------------------------------
(***************************************************************************)
(* The theorems.                                                           *)
(***************************************************************************)

\* An idle instance without a service has no model process in its container
\* (finishDrain, lifecycle.go:1120): a drain ends with the process stopped or its
\* container gone, through crashes, failed Router calls and stale rounds.
THEOREM LifecycleIdleMeansStopped == Steady /\ Apart => (Spec => []IdleMeansStopped)
  <1>. SUFFICES ASSUME Steady, Apart
                PROVE  Spec => []IdleMeansStopped
    OBVIOUS
  <1>1. IInv /\ Stops => IdleMeansStopped
    BY DEF Stops, Runs, IdleMeansStopped, IInv, RowOK, LeaseRow
  <1>. QED BY <1>1, AlwaysStops, PTL

\* When the row has moved on to a new identity, nothing runs in the containers it
\* left (events.go:363-364): the identity moves only at the end of a drain, or
\* when there was no service.
THEOREM LifecycleLeftBehindStopped == Steady /\ Apart => (Spec => []LeftBehindStopped)
  <1>. SUFFICES ASSUME Steady, Apart
                PROVE  Spec => []LeftBehindStopped
    OBVIOUS
  <1>1. IInv /\ Stops => LeftBehindStopped
    <2>. SUFFICES ASSUME Stops, IInv, NEW i \in Ident, i < row.ident
                  PROVE  proc[i].phase # "RUNNING"
      BY DEF LeftBehindStopped
    <2>1. i # row.ident
      BY DEF Ident, IInv, RowOK, LeaseRow
    <2>. QED BY <2>1 DEF Stops, Runs
  <1>. QED BY <1>1, AlwaysStops, PTL

\* No container is handed back while a model process runs in it
\* (lifecycle.go:1183): whoever is about to return it stands for a row that is
\* RELEASING and has no service.
THEOREM LifecycleHandedBackStopped == Steady /\ Apart => (Spec => HandedBackStopped)
  <1>. SUFFICES ASSUME Steady, Apart
                PROVE  Spec => HandedBackStopped
    OBVIOUS
  <1>1. ASSUME IInv, LocalInv, LockInv, Known, Stops, NEW t \in Thread, thread[t].pc = "return"
        PROVE  proc[issued].phase # "RUNNING"
    <2>1. row.svc = "NONE"
      BY <1>1, SelfKnows DEF Holding, Returning, Stops, Placed
    <2>2. Quiet(proc) /\ issued \in Ident
      BY <1>1, <2>1, NoService, StartFinds
    <2>. QED BY <2>2 DEF Quiet
  <1>2. IInv /\ LocalInv /\ LockInv /\ Known /\ Stops =>
          [held /\ ~held' /\ (\E t \in Thread : thread[t].pc = "return")
             => proc[issued].phase # "RUNNING"]_vars
    BY <1>1
  <1>. QED BY <1>2, AlwaysStops, PTL DEF HandedBackStopped

-----------------------------------------------------------------------------
(***************************************************************************)
(* The identity.  Only three steps give the row a new one: the end of a    *)
(* drain with an update queued, an update that finds no service, and a     *)
(* reoffer.                                                                *)
(***************************************************************************)
Forward == row'.ident # row.ident => row'.ident > row.ident

LEMMA DrainedForward ==
    ASSUME Steady, IInv, LocalInv, LockInv, Known, NEW t \in Thread, Drained(t)
    PROVE  Forward
  <1>1. thread[t].pc = "drained"
    BY DEF Drained
  <1>2. PICK c : c = thread[t].copy
    OBVIOUS
  <1>3. /\ c \in Row /\ c.ident = row.ident /\ row \in Row /\ row.ident \in Nat /\ issued \in Nat
        /\ Shaped(row, issued)
    BY <1>1, <1>2, DrainerIs, StartFinds
  <1>4. CASE row' = row
    BY <1>4 DEF Forward
  <1>5. ASSUME row' = Merged(row, DrainedRow(c))
        PROVE  Forward
    <2>1. PICK d \in Row : d = DrainedRow(c)
      BY <1>3, BuiltRows, DrainerIs, <1>1, <1>2 DEF LeaseRow
    <2>2. d.ident = c.ident
      BY <1>3, <2>1 DEF DrainedRow, Row
    <2>. QED BY <1>3, <1>5, <2>1, <2>2 DEF Merged, Row, Forward
  <1>6. ASSUME HasUpdate(c), AcceptsUpdate(row, MovedRow(c)), row' = Updated(row, MovedRow(c))
        PROVE  Forward
    <2>1. PICK m : m = MovedRow(c)
      OBVIOUS
    <2>2. m \in Row
      BY <1>1, <1>2, <1>6, <2>1, BuiltRows, DrainerIs DEF LeaseRow
    <2>3. row'.ident = row.pu.ident
      BY <1>6, <2>1, <2>2 DEF Updated, Row
    <2>4. HasUpdate(row)
      BY <1>6 DEF AcceptsUpdate
    <2>5. row.ident < row.pu.ident
      BY <1>3, <2>4 DEF Shaped
    <2>. QED BY <1>3, <2>3, <2>5 DEF Forward, Row
  <1>. QED BY <1>2, <1>4, <1>5, <1>6 DEF Drained, dbVars

LEMMA CapacityUpdatedForward ==
    ASSUME IInv, Known, NEW t \in Thread, CapacityUpdated(t)
    PROVE  Forward
  <1>1. /\ row \in Row /\ row.ident \in Nat /\ issued \in Nat /\ Shaped(row, issued)
        /\ issued # row.ident
    BY StartFinds DEF CapacityUpdated
  <1>2. row.ident < issued
    BY <1>1 DEF Shaped
  <1>3. PICK q : q = [row EXCEPT !.pu = [ident |-> issued, at |-> issued]]
    OBVIOUS
  <1>4. q \in Row /\ q.ident = row.ident
    BY <1>1, <1>3 DEF Row
  <1>5. PICK m : m = [[RebasedRow EXCEPT !.ident = issued] EXCEPT !.seen = issued]
    OBVIOUS
  <1>6. m \in Row /\ m.ident = issued
    <2>1. PICK b : b = RebasedRow
      OBVIOUS
    <2>2. b \in Row
      BY <1>1, <2>1 DEF RebasedRow, Row, NoUpdate
    <2>. QED BY <1>1, <1>5, <2>1, <2>2 DEF Row
  <1>7. PICK n : n = [m EXCEPT !.inst = "PREPARING", !.prep = 0, !.start = 0, !.rearms = 0,
                               !.parked = FALSE, !.worker = NoWorker]
    OBVIOUS
  <1>8. n \in Row /\ n.ident = issued
    <2>1. NoWorker \in Nat \X Nat /\ "PREPARING" \in InstanceState
      BY DEF NoWorker, InstanceState
    <2>. QED BY <1>6, <1>7, <2>1 DEF Row
  <1>9. PICK next \in {q, m, n} : row' = Merged(row, next)
    BY <1>3, <1>5, <1>7 DEF CapacityUpdated, Commit
  <1>10. row'.ident = next.ident
    BY <1>4, <1>6, <1>8, <1>9 DEF Merged, Row
  <1>. QED BY <1>1, <1>2, <1>4, <1>6, <1>8, <1>9, <1>10 DEF Forward

LEMMA ReofferForward ==
    ASSUME IInv, Known, NEW t \in Thread, Reoffer(t)
    PROVE  Forward
  <1>1. PICK f : f = FreshRow(issued)
    OBVIOUS
  <1>2. f.ident = issued /\ row' = [f EXCEPT !.seen = Later(f.seen, row.seen)]
    BY <1>1 DEF FreshRow, Reoffer, Reoffered
  <1>3. row'.ident = issued
    BY <1>2
  <1>. QED BY <1>3, StartFinds DEF Forward, Shaped

LEMMA OperatorForward ==
    ASSUME IInv, Operator
    PROVE  Forward
  <1>1. row \in Row
    BY DEF IInv, RowOK, LeaseRow
  <1>2. CASE RequestReclaim
    BY <1>1, <1>2, RequestCalm DEF RequestReclaim, RowCalm, Forward
  <1>3. CASE RequeueService
    <2>1. PICK next : next = [row EXCEPT !.start = 0, !.rearms = 0, !.parked = FALSE]
      OBVIOUS
    <2>2. row' = Merged(row, next)
      BY <1>3, <2>1 DEF RequeueService, Commit
    <2>3. next \in Row /\ next.ident = row.ident
      BY <1>1, <2>1 DEF Row
    <2>. QED BY <2>2, <2>3 DEF Merged, Row, Forward
  <1>. QED BY <1>2, <1>3 DEF Operator

LEMMA NextForward ==
    ASSUME Steady, IInv, LocalInv, LockInv, Known, LegalRow, Stops, [Next]_vars
    PROVE  Forward
  <1>0. Stored /\ IInv'
    BY StepStores
  <1>1. ASSUME row' = row
        PROVE  Forward
    BY <1>1 DEF Forward
  <1>2. ASSUME NEW t, NEW x, Calm(t, x)
        PROVE  Forward
    BY <1>2 DEF Calm, RowCalm, Forward
  <1>3. ASSUME NEW t \in Thread, Continue(t)
        PROVE  Forward
    <2>1. CASE Launch(t) \/ FinishDrain(t) \/ Return(t)
      <3>1. row' = row
        BY <2>1 DEF Launch, FinishDrain, Return, dbVars
      <3>. QED BY <1>1, <3>1
    <2>2. CASE Drained(t)
      BY <2>2, DrainedForward
    <2>3. CASE ~(Launch(t) \/ FinishDrain(t) \/ Drained(t) \/ Return(t))
      <3>1. \E x : Calm(t, x)
        BY <1>0, <1>3, <2>3, MovesCalm, ProbeCalm, UnreachCalm, BeginReleaseCalm, PrepareCommitCalm,
           StartServiceCalm, AdvanceCalm, ServeCalm, FailStartCalm, DrainCommitCalm, ReclaimErrCalm,
           DrainFailCalm, ReleasingCalm, ReturnedCalm, LostCalm, RearmCalm, AllocateCalm, ActLostKnown
           DEF Continue
      <3>. QED BY <1>2, <3>1
    <2>. QED BY <2>1, <2>2, <2>3
  <1>4. ASSUME NEW t \in Thread, Start(t)
        PROVE  Forward
    <2>1. CASE CapacityUpdated(t) \/ Reoffer(t)
      BY <2>1, CapacityUpdatedForward, ReofferForward
    <2>2. CASE ~(CapacityUpdated(t) \/ Reoffer(t))
      <3>1. ~OperatorRelease(t)
        BY DEF OperatorRelease, Begin, Steady, Serialised
      <3>2. \E x : Calm(t, x)
        BY <1>0, <1>4, <2>2, <3>1, MovesCalm, ReconcileCalm, RevokeCalm DEF Start
      <3>. QED BY <1>2, <3>2
    <2>. QED BY <2>1, <2>2
  <1>5. ASSUME NEW t \in Thread, Cancel(t)
        PROVE  Forward
    <2>1. \E x : Calm(t, x)
      BY <1>0, <1>5, MovesCalm
    <2>. QED BY <1>2, <2>1
  <1>6. CASE Operator
    BY <1>6, OperatorForward
  <1>7. CASE Recovery \/ World \/ Rest \/ UNCHANGED vars
    <2>1. CASE Recovery
      <3>1. row' = row
        BY <2>1 DEF Recovery, Crash, Listen, ResumeOpenOperation, dbVars
      <3>. QED BY <1>1, <3>1
    <2>2. CASE World \/ Rest \/ UNCHANGED vars
      BY <1>1, <2>2, WorldStands
    <2>. QED BY <1>7, <2>1, <2>2
  <1>. QED BY <1>3, <1>4, <1>5, <1>6, <1>7 DEF Next

\* The partner issues identities one after another and the row follows them: no
\* write, however stale the copy it was built from, brings back an endpoint or a
\* lease the partner has replaced (ApplyPendingUpdate and Reoffer of sqlite.go).
THEOREM LifecycleIdentityMovesForward == Steady => (Spec => IdentityMovesForward)
  <1>. SUFFICES ASSUME Steady
                PROVE  Spec => IdentityMovesForward
    OBVIOUS
  <1>1. IInv /\ LocalInv /\ LockInv /\ Known /\ LegalRow /\ Stops /\ [Next]_vars =>
          [row'.ident # row.ident => row'.ident > row.ident]_row
    BY NextForward DEF Forward
  <1>. QED BY <1>1, AlwaysStops, LifecycleLegal, PTL DEF IdentityMovesForward, Spec

-----------------------------------------------------------------------------
(***************************************************************************)
(* Traffic.  Roles: whoever takes a service to SERVING has seen its        *)
(* process run the role, and its registration; nobody else starts or       *)
(* registers meanwhile.  Traffic: readiness is open only for the identity  *)
(* and the service of the row, and whoever closes it knows the worker.     *)
(***************************************************************************)
Bound == {"restarting", "healthy", "registering", "register", "open", "serve"}

RoleRuns(r, p) == p[r.ident].phase = "RUNNING" => p[r.ident].role = r.role
Enrolled(r, m) == m[r.ident].listed => m[r.ident].type = r.role

RoleAt(x, m, p) ==
    /\ x.pc \in Bound => RoleRuns(x.copy, p)
    /\ x.pc \in {"open", "serve"} => Enrolled(x.copy, m)

Roles ==
    /\ row.svc = "SERVING" => RoleRuns(row, proc) /\ Enrolled(row, mem)
    /\ \A t \in Thread : RoleAt(thread[t], mem, proc)

\* The Router knows a worker by the id the row has for it, or by none.
Named(r, e) == r.worker \in {NoWorker, <<e, r.ident>>}

Shut(m) == \A i \in Ident : ~m[i].ready

Routed(r, m) ==
    \A i \in Ident : m[i].ready => m[i].listed /\ i = r.ident /\ r.svc \notin {"NONE", "DRAINING"}

Traffic ==
    /\ Named(row, epoch) /\ \A t \in Thread : Named(thread[t].copy, epoch)
    /\ Routed(row, mem)
    /\ \A t \in Thread : thread[t].pc = "draincommit" => Shut(mem)

\* What t goes on from: a container that is being prepared is not known to the
\* Router yet.
Knowing(t) ==
    /\ Named(row, epoch) /\ Named(thread[t].copy, epoch)
    /\ row.inst \in {"ALLOCATING", "PREPARING"} => row.worker = NoWorker

NamedCopy(t, c) == Knowing(t) => Named(c, epoch)

\* What most steps do to the row, and to the Router and the containers.
Tame(t) ==
    /\ row'.svc = "SERVING" => row.svc = "SERVING" /\ row'.ident = row.ident /\ row'.role = row.role
    /\ row'.svc = "DRAINING" => row.svc = "DRAINING" \/ thread[t].pc = "draincommit"
    /\ NamedCopy(t, row')

Enrols == \A i \in Ident : mem'[i].listed => mem[i].listed /\ mem'[i].type = mem[i].type
Closes == \A i \in Ident : mem'[i].ready => mem[i].ready /\ (mem[i].listed => mem'[i].listed)
Spawns == \A i \in Ident : proc'[i].phase = "RUNNING" => proc[i].phase = "RUNNING" /\ proc'[i].role = proc[i].role

Hushed == epoch' = epoch /\ Enrols /\ Closes /\ Spawns

Passes(t, x) ==
    /\ thread' = [thread EXCEPT ![t] = x] \/ thread' = Outdated(t, x)
    /\ Tame(t) /\ Hushed
    /\ x.pc \in Bound => x.copy.ident \in Ident
    /\ Roles => RoleAt(x, mem, proc)
    /\ NamedCopy(t, x.copy)
    /\ Traffic /\ x.pc = "draincommit" => Shut(mem')

LEMMA RoleLater ==
    ASSUME NEW x, x.pc \in Bound => x.copy.ident \in Ident, Enrols, Spawns, RoleAt(x, mem, proc)
    PROVE  RoleAt(x, mem', proc')
  <1>1. {"open", "serve"} \subseteq Bound
    BY DEF Bound
  <1>2. x.pc \in Bound => RoleRuns(x.copy, proc')
    BY DEF Spawns, RoleAt, RoleRuns
  <1>3. x.pc \in {"open", "serve"} => Enrolled(x.copy, mem')
    BY <1>1 DEF Enrols, RoleAt, Enrolled
  <1>. QED BY <1>2, <1>3 DEF RoleAt

\* Where the others are.
LEMMA Elsewhere ==
    ASSUME IInv, NEW t \in Thread, NEW x,
           thread' = [thread EXCEPT ![t] = x] \/ thread' = Outdated(t, x),
           NEW u \in Thread
    PROVE  /\ u = t => thread'[u] = x
           /\ u # t => thread'[u].pc = thread[u].pc /\ thread'[u].copy = thread[u].copy
  <1>1. CASE u = t
    BY <1>1 DEF IInv, ControlOK, Outdated
  <1>2. CASE u # t
    <2>1. PICK y \in Goroutine : y = thread[u]
      BY DEF IInv, ControlOK
    <2>2. thread'[u] = y \/ thread'[u] = [y EXCEPT !.fresh = FALSE]
      <3>1. CASE thread' = [thread EXCEPT ![t] = x]
        BY <1>2, <2>1, <3>1
      <3>2. CASE thread' = Outdated(t, x)
        BY <1>2, <2>1, <3>2 DEF Outdated
      <3>. QED BY <3>1, <3>2
    <2>3. thread'[u].pc = y.pc /\ thread'[u].copy = y.copy
      BY <2>2 DEF Goroutine, Busy, Resting
    <2>. QED BY <1>2, <2>1, <2>3
  <1>. QED BY <1>1, <1>2

LEMMA RolesStep ==
    ASSUME IInv, Roles, NEW t \in Thread, NEW x,
           thread' = [thread EXCEPT ![t] = x] \/ thread' = Outdated(t, x),
           RoleAt(x, mem', proc'),
           \A u \in Thread : u # t /\ thread[u].pc \in Bound => Enrols /\ Spawns,
           row'.svc = "SERVING" => RoleRuns(row', proc') /\ Enrolled(row', mem')
    PROVE  Roles'
  <1>1. ASSUME NEW u \in Thread
        PROVE  RoleAt(thread'[u], mem', proc')
    <2>1. CASE u = t
      <3>1. thread'[u] = x
        BY <2>1, Elsewhere
      <3>. QED BY <3>1
    <2>2. CASE u # t
      <3>1. thread'[u].pc = thread[u].pc /\ thread'[u].copy = thread[u].copy
        BY <2>2, Elsewhere
      <3>2. RoleAt(thread[u], mem, proc)
        BY DEF Roles
      <3>3. thread[u].pc \in Bound => thread[u].copy.ident \in Ident
        BY CopyTyped DEF Bound
      <3>4. RoleAt(thread[u], mem', proc')
        <4>1. CASE thread[u].pc \in Bound
          BY <2>2, <3>2, <3>3, <4>1, RoleLater
        <4>2. CASE thread[u].pc \notin Bound
          BY <4>2 DEF RoleAt, Bound
        <4>. QED BY <4>1, <4>2
      <3>. QED BY <3>1, <3>4 DEF RoleAt
    <2>. QED BY <2>1, <2>2
  <1>. QED BY <1>1 DEF Roles

LEMMA PassesRoles ==
    ASSUME IInv, Roles, NEW t \in Thread, NEW x, Passes(t, x)
    PROVE  Roles'
  <1>1. row.ident \in Ident
    BY DEF IInv, RowOK, LeaseRow
  <1>2. RoleAt(x, mem', proc')
    <2>1. x.pc \in Bound => x.copy.ident \in Ident
      BY DEF Passes, Bound
    <2>. QED BY <2>1, RoleLater DEF Passes, Hushed
  <1>3. row'.svc = "SERVING" => RoleRuns(row', proc') /\ Enrolled(row', mem')
    <2>. SUFFICES ASSUME row'.svc = "SERVING"
                  PROVE  RoleRuns(row', proc') /\ Enrolled(row', mem')
      OBVIOUS
    <2>1. row.svc = "SERVING" /\ row'.ident = row.ident /\ row'.role = row.role
      BY DEF Passes, Tame
    <2>2. RoleRuns(row, proc) /\ Enrolled(row, mem)
      BY <2>1 DEF Roles
    <2>3. RoleRuns(row', proc')
      BY <1>1, <2>1, <2>2 DEF Passes, Hushed, Spawns, RoleRuns
    <2>4. Enrolled(row', mem')
      BY <1>1, <2>1, <2>2 DEF Passes, Hushed, Enrols, Enrolled
    <2>. QED BY <2>3, <2>4
  <1>. QED BY <1>2, <1>3, RolesStep DEF Passes, Hushed

LEMMA TrafficStep ==
    ASSUME IInv, Traffic, NEW t \in Thread, NEW x,
           thread' = [thread EXCEPT ![t] = x] \/ thread' = Outdated(t, x),
           epoch' = epoch, Named(x.copy, epoch), Named(row', epoch), Routed(row', mem'),
           x.pc = "draincommit" => Shut(mem'),
           \A u \in Thread : u # t /\ thread[u].pc = "draincommit" => Closes
    PROVE  Traffic'
  <1>1. ASSUME NEW u \in Thread
        PROVE  /\ Named(thread'[u].copy, epoch)
               /\ thread'[u].pc = "draincommit" => Shut(mem')
    <2>1. CASE u = t
      <3>1. thread'[u] = x
        BY <2>1, Elsewhere
      <3>. QED BY <3>1
    <2>2. CASE u # t
      <3>1. thread'[u].pc = thread[u].pc /\ thread'[u].copy = thread[u].copy
        BY <2>2, Elsewhere
      <3>2. Named(thread[u].copy, epoch)
        BY DEF Traffic
      <3>3. thread[u].pc = "draincommit" => Shut(mem')
        BY <2>2 DEF Traffic, Closes, Shut
      <3>. QED BY <3>1, <3>2, <3>3
    <2>. QED BY <2>1, <2>2
  <1>. QED BY <1>1 DEF Traffic

LEMMA ShutWhen ==
    ASSUME Traffic, \/ row.svc \in {"NONE", "DRAINING"}
                    \/ \E u \in Thread : thread[u].pc = "draincommit"
    PROVE  Shut(mem)
  BY DEF Traffic, Routed, Shut

LEMMA PassesTraffic ==
    ASSUME IInv, Traffic, NEW t \in Thread, NEW x, Passes(t, x), RowCalm \/ row.svc \in {"NONE", "DRAINING"},
           row.inst \in {"ALLOCATING", "PREPARING"} => row.worker = NoWorker
    PROVE  Traffic'
  <1>1. /\ thread' = [thread EXCEPT ![t] = x] \/ thread' = Outdated(t, x)
        /\ epoch' = epoch /\ Named(x.copy, epoch) /\ Named(row', epoch) /\ Closes
        /\ x.pc = "draincommit" => Shut(mem')
    BY DEF Passes, Tame, Hushed, Traffic, NamedCopy, Knowing
  <1>2. Routed(row', mem')
    <2>1. CASE Shut(mem)
      BY <1>1, <2>1 DEF Closes, Shut, Routed
    <2>2. CASE ~Shut(mem)
      <3>1. RowCalm /\ row.svc \notin {"NONE", "DRAINING"} /\ thread[t].pc # "draincommit"
        BY <2>2, ShutWhen
      <3>2. row'.ident = row.ident /\ row'.svc \notin {"NONE", "DRAINING"}
        BY <3>1 DEF RowCalm, Passes, Tame
      <3>3. Routed(row, mem)
        BY DEF Traffic
      <3>. QED BY <1>1, <3>2, <3>3 DEF Closes, Routed
    <2>. QED BY <2>1, <2>2
  <1>. QED BY <1>1, <1>2, TrafficStep

-----------------------------------------------------------------------------
(***************************************************************************)
(* Steps that pass.                                                        *)
(***************************************************************************)
\* A goroutine ends, or goes on at a place that asks nothing.
Crosses(t) ==
    \/ End(t) \/ WriteEnd(t)
    \/ \E pc \in Place \ (Bound \cup {"idle", "draincommit"}) : \E copy, why :
          /\ \/ Goto(t, pc, copy, why) \/ Hold(t, pc, copy, why)
             \/ WriteGoto(t, pc, copy, why) \/ WriteHold(t, pc, copy, why)
          /\ NamedCopy(t, copy)

LEMMA CrossesPasses ==
    ASSUME NEW t, Crosses(t), Tame(t), Hushed
    PROVE  \E x : Passes(t, x)
  <1>1. CASE End(t) \/ WriteEnd(t)
    <2>1. /\ Idle.pc = "idle" /\ Named(Idle.copy, epoch)
          /\ thread' = [thread EXCEPT ![t] = Idle] \/ thread' = Outdated(t, Idle)
      BY <1>1 DEF Idle, NoCopy, FreshRow, Named, End, WriteEnd
    <2>2. RoleAt(Idle, mem, proc) /\ Idle.pc \notin Bound
      BY <2>1 DEF RoleAt, Bound
    <2>. QED BY <2>1, <2>2 DEF Passes, NamedCopy
  <1>2. ASSUME NEW pc \in Place \ (Bound \cup {"idle", "draincommit"}), NEW copy, NEW why,
               \/ Goto(t, pc, copy, why) \/ Hold(t, pc, copy, why)
               \/ WriteGoto(t, pc, copy, why) \/ WriteHold(t, pc, copy, why),
               NamedCopy(t, copy)
        PROVE  \E x : Passes(t, x)
    <2>1. PICK x : x = At(pc, copy, why)
      OBVIOUS
    <2>2. x.pc = pc /\ x.copy = copy
      BY <2>1 DEF At
    <2>3. thread' = [thread EXCEPT ![t] = x] \/ thread' = Outdated(t, x)
      BY <1>2, <2>1 DEF Goto, Hold, WriteGoto, WriteHold
    <2>4. RoleAt(x, mem, proc) /\ x.pc # "draincommit" /\ x.pc \notin Bound
      BY <2>2 DEF RoleAt, Bound
    <2>5. NamedCopy(t, x.copy)
      BY <1>2, <2>2
    <2>. QED BY <2>3, <2>4, <2>5 DEF Passes
  <1>. QED BY <1>1, <1>2 DEF Crosses

LEMMA SameTame == ASSUME NEW t, row' = row PROVE Tame(t)
  BY DEF Tame, NamedCopy, Knowing

\* The Router and the containers, left alone or closed.
LEMMA StillHushed == UNCHANGED <<epoch, mem, proc>> => Hushed
  BY DEF Hushed, Enrols, Closes, Spawns

LEMMA ClosedHushed ==
    ASSUME IInv, NEW w, mem' = mem \/ mem' = Closed(w), epoch' = epoch, proc' = proc
    PROVE  Hushed
  <1>1. ASSUME NEW i \in Ident
        PROVE  /\ mem'[i].listed = mem[i].listed /\ mem'[i].type = mem[i].type
               /\ mem'[i].ready => mem[i].ready
    <2>1. PICK m \in [listed : BOOLEAN, type : AnyRole, ready : BOOLEAN] : m = mem[i]
      BY DEF IInv, RouterOK
    <2>2. mem'[i] = m \/ mem'[i] = [m EXCEPT !.ready = FALSE]
      BY <2>1 DEF Closed
    <2>. QED BY <2>1, <2>2
  <1>. QED BY <1>1 DEF Hushed, Enrols, Closes, Spawns

\* The row that is written from a row that shares its service.
LEMMA CommitTame ==
    ASSUME NEW t, NEW next \in Row, NEW o, Commit(next, o),
           next.svc = "SERVING" => row.svc = "SERVING" /\ next.ident = row.ident /\ next.role = row.role,
           next.svc = "DRAINING" => row.svc = "DRAINING" \/ thread[t].pc = "draincommit",
           NamedCopy(t, next)
    PROVE  Tame(t) /\ NamedCopy(t, row')
  <1>1. /\ row'.svc = next.svc /\ row'.ident = next.ident /\ row'.role = next.role
        /\ row'.worker = next.worker
    BY DEF Commit, Merged, Row
  <1>2. NamedCopy(t, row')
    BY <1>1 DEF NamedCopy, Named
  <1>. QED BY <1>1, <1>2 DEF Tame

\* Whoever writes the copy he holds, or the row.
LEMMA HolderTame ==
    ASSUME IInv, LockInv, NEW t \in Thread, thread[t].pc # "idle",
           NEW c, c = row \/ (c = thread[t].copy /\ Holding(thread[t])),
           NEW next \in Row, NEW o, Commit(next, o), next.ident = c.ident, next.worker = c.worker,
           \/ next.svc = c.svc /\ (next.role = c.role \/ next.svc # "SERVING")
           \/ next.svc \notin {"SERVING", "DRAINING"}
    PROVE  Tame(t) /\ NamedCopy(t, row') /\ NamedCopy(t, next)
  <1>1. c.svc = row.svc /\ c.ident = row.ident /\ c.role = row.role
    BY SelfFits DEF Stands, Same
  <1>2. NamedCopy(t, next)
    BY DEF NamedCopy, Named, Knowing
  <1>. QED BY <1>1, <1>2, CommitTame

LEMMA OwnNamed == ASSUME NEW t PROVE NamedCopy(t, row) /\ NamedCopy(t, thread[t].copy)
  BY DEF NamedCopy, Knowing

LEMMA MovesPass ==
    ASSUME IInv, NEW t \in Thread,
           \/ Prepare(t) \/ ReclaimStep(t) \/ UpdateStep(t) \/ ActFailed(t) \/ ActStarting(t) \/ ActOn(t)
           \/ Revoked(t) \/ ResumeAdd(t) \/ PlannerStart(t) \/ PlainDrain(t) \/ Cancel(t) \/ BeginRelease(t)
    PROVE  \E x : Passes(t, x)
  <1>1. row' = row /\ UNCHANGED <<epoch, mem, proc>> /\ row \in Row
    BY DEF Prepare, ReclaimStep, UpdateStep, ActFailed, ActStarting, ActOn, Revoked, ResumeAdd, PlannerStart,
           PlainDrain, Cancel, BeginRelease, dbVars, routerVars, nodeVars, IInv, RowOK, LeaseRow
  <1>2. PICK c : c = thread[t].copy
    OBVIOUS
  <1>3. NamedCopy(t, row) /\ NamedCopy(t, c)
    BY <1>2, OwnNamed
  <1>4. Crosses(t)
    <2>. USE <1>1, <1>2, <1>3 DEF Crosses, Place, Bound
    <2>1. CASE Prepare(t)
      BY <2>1 DEF Prepare
    <2>2. CASE ReclaimStep(t)
      BY <2>2 DEF ReclaimStep
    <2>3. CASE UpdateStep(t)
      BY <2>3 DEF UpdateStep
    <2>4. CASE ActFailed(t)
      BY <2>4 DEF ActFailed, Answered
    <2>5. CASE ActStarting(t)
      BY <2>5 DEF ActStarting, Answered
    <2>6. CASE ActOn(t)
      BY <2>6 DEF ActOn, Answered
    <2>7. CASE Revoked(t)
      BY <2>7 DEF Revoked
    <2>8. CASE ResumeAdd(t) \/ PlainDrain(t)
      BY <2>8 DEF ResumeAdd, PlainDrain
    <2>9. CASE PlannerStart(t)
      <3>1. PICK role : Goto(t, "start", [row EXCEPT !.role = role], "planner")
        BY <2>9 DEF PlannerStart
      <3>2. PICK d : d = [row EXCEPT !.role = role]
        OBVIOUS
      <3>3. NamedCopy(t, d)
        BY <3>2 DEF Row, NamedCopy, Named, Knowing
      <3>. QED BY <3>1, <3>2, <3>3
    <2>10. CASE Cancel(t)
      BY <2>10 DEF Cancel
    <2>11. CASE BeginRelease(t)
      BY <2>11 DEF BeginRelease
    <2>. QED BY <2>1, <2>2, <2>3, <2>4, <2>5, <2>6, <2>7, <2>8, <2>9, <2>10, <2>11
  <1>. QED BY <1>1, <1>4, SameTame, StillHushed, CrossesPasses

\* The same where readiness is closed, or a process stops.
LEMMA ClosersPass ==
    ASSUME IInv, NEW t \in Thread, ActExited(t) \/ Unreach(t)
    PROVE  \E x : Passes(t, x)
  <1>1. row' = row /\ UNCHANGED <<epoch, proc>>
    BY DEF ActExited, Answered, Unreach, dbVars, nodeVars
  <1>2. PICK c : c = thread[t].copy
    OBVIOUS
  <1>3. NamedCopy(t, c)
    BY <1>2, OwnNamed
  <1>4. \E w : mem' = mem \/ mem' = Closed(w)
    BY DEF ActExited, Unreach
  <1>5. Hushed
    BY <1>1, <1>4, ClosedHushed
  <1>6. Crosses(t)
    BY <1>2, <1>3 DEF ActExited, Unreach, Crosses, Place, Bound
  <1>. QED BY <1>1, <1>5, <1>6, SameTame, CrossesPasses

LEMMA StopsHushed ==
    ASSUME IInv, UNCHANGED <<epoch, mem>>,
           \/ proc' = proc
           \/ \E i \in Ident : proc' = Stopped(i) \/ proc' = [proc EXCEPT ![i] = NoContainer]
    PROVE  Hushed
  <1>1. ASSUME NEW i \in Ident
        PROVE  proc'[i].phase = "RUNNING" => proc[i].phase = "RUNNING" /\ proc'[i].role = proc[i].role
    <2>1. CASE proc' = proc
      BY <2>1
    <2>2. ASSUME NEW j \in Ident, proc' = Stopped(j)
          PROVE  proc'[i].phase = "RUNNING" => proc[i].phase = "RUNNING" /\ proc'[i].role = proc[i].role
      <3>1. PICK q \in [phase : Phase, role : AnyRole, ok : BOOLEAN] : q = proc[j]
        BY DEF IInv, NodeOK
      <3>2. proc' = [proc EXCEPT ![j] = [q EXCEPT !.phase = "STOPPED", !.ok = FALSE]]
        BY <2>2, <3>1 DEF Stopped, IInv, NodeOK
      <3>3. i = j => proc'[i].phase = "STOPPED"
        BY <3>1, <3>2 DEF IInv, NodeOK
      <3>4. i # j => proc'[i] = proc[i]
        BY <3>2 DEF IInv, NodeOK
      <3>. QED BY <3>3, <3>4
    <2>3. ASSUME NEW j \in Ident, proc' = [proc EXCEPT ![j] = NoContainer]
          PROVE  proc'[i].phase = "RUNNING" => proc[i].phase = "RUNNING" /\ proc'[i].role = proc[i].role
      BY <2>3 DEF NoContainer, IInv, NodeOK
    <2>. QED BY <2>1, <2>2, <2>3
  <1>. QED BY <1>1 DEF Hushed, Enrols, Closes, Spawns

LEMMA StoppersPass ==
    ASSUME IInv, NEW t \in Thread, FinishDrain(t) \/ Return(t)
    PROVE  \E x : Passes(t, x)
  <1>1. /\ row' = row /\ UNCHANGED <<epoch, mem>> /\ row.ident \in Ident /\ issued \in Ident
    BY DEF FinishDrain, Return, dbVars, routerVars, IInv, RowOK, LeaseRow, NodeOK
  <1>2. PICK c : c = thread[t].copy
    OBVIOUS
  <1>3. NamedCopy(t, c) /\ NamedCopy(t, row)
    BY <1>2, OwnNamed
  <1>4. proc' = proc \/ \E i \in Ident : proc' = Stopped(i) \/ proc' = [proc EXCEPT ![i] = NoContainer]
    BY <1>1 DEF FinishDrain, Return, GiveBack, nodeVars
  <1>5. Hushed
    BY <1>1, <1>4, StopsHushed
  <1>6. Crosses(t)
    BY <1>1, <1>2, <1>3 DEF FinishDrain, Return, Crosses, Place, Bound
  <1>. QED BY <1>1, <1>5, <1>6, SameTame, CrossesPasses

\* A goroutine that goes on at a place that asks something.
LEMMA GoesPasses ==
    ASSUME NEW t, NEW pc, NEW copy, NEW why,
           \/ Goto(t, pc, copy, why) \/ Hold(t, pc, copy, why)
           \/ WriteGoto(t, pc, copy, why) \/ WriteHold(t, pc, copy, why),
           Tame(t), Hushed, NamedCopy(t, copy), copy.ident \in Ident,
           Roles /\ pc \in Bound => RoleRuns(copy, proc),
           pc \notin {"open", "serve"},
           Traffic /\ pc = "draincommit" => Shut(mem')
    PROVE  \E x : Passes(t, x)
  <1>1. PICK x : x = At(pc, copy, why)
    OBVIOUS
  <1>2. x.pc = pc /\ x.copy = copy
    BY <1>1 DEF At
  <1>3. thread' = [thread EXCEPT ![t] = x] \/ thread' = Outdated(t, x)
    BY <1>1 DEF Goto, Hold, WriteGoto, WriteHold
  <1>4. Roles => RoleAt(x, mem, proc)
    BY <1>2 DEF RoleAt
  <1>5. NamedCopy(t, x.copy)
    BY <1>2
  <1>. QED BY <1>2, <1>3, <1>4, <1>5 DEF Passes

LEMMA HealthPasses ==
    ASSUME IInv, NEW t \in Thread, Health(t)
    PROVE  \E x : Passes(t, x)
  <1>1. row' = row /\ UNCHANGED <<epoch, mem, proc>> /\ thread[t].pc # "idle"
    BY DEF Health, dbVars, routerVars, nodeVars
  <1>2. PICK c : c = thread[t].copy
    OBVIOUS
  <1>3. NamedCopy(t, c) /\ c.ident \in Ident
    BY <1>1, <1>2, OwnNamed, CopyTyped
  <1>4. \/ proc[c.ident].role = c.role /\ Goto(t, "healthy", c, thread[t].why)
        \/ Goto(t, "fail", c, thread[t].why)
    BY <1>2 DEF Health
  <1>5. CASE Goto(t, "fail", c, thread[t].why)
    <2>1. Crosses(t)
      BY <1>3, <1>5 DEF Crosses, Place, Bound
    <2>. QED BY <1>1, <2>1, SameTame, StillHushed, CrossesPasses
  <1>6. CASE proc[c.ident].role = c.role /\ Goto(t, "healthy", c, thread[t].why)
    <2>1. RoleRuns(c, proc)
      BY <1>6 DEF RoleRuns
    <2>. QED BY <1>1, <1>3, <1>6, <2>1, SameTame, StillHushed, GoesPasses
  <1>. QED BY <1>4, <1>5, <1>6

LEMMA SettlePasses ==
    ASSUME IInv, NEW t \in Thread, Settle(t)
    PROVE  \E x : Passes(t, x)
  <1>1. row' = row /\ UNCHANGED <<epoch, proc>> /\ row.ident \in Ident /\ NamedCopy(t, row)
    BY OwnNamed DEF Settle, dbVars, nodeVars, IInv, RowOK, LeaseRow
  <1>2. Hushed
    <2>1. \E w : mem' = mem \/ mem' = Closed(w)
      BY DEF Settle
    <2>. QED BY <1>1, <2>1, ClosedHushed
  <1>3. \/ End(t) \/ Hold(t, "fail", row, "settle") \/ Hold(t, "drain", row, "plain")
        \/ /\ proc[row.ident].role = row.role
           /\ \E pc \in {"restarting", "registering", "register"} : Hold(t, pc, row, "settle")
    BY DEF Settle
  <1>4. CASE End(t) \/ Hold(t, "fail", row, "settle") \/ Hold(t, "drain", row, "plain")
    <2>1. Crosses(t)
      BY <1>1, <1>4 DEF Crosses, Place, Bound
    <2>. QED BY <1>1, <1>2, <2>1, SameTame, CrossesPasses
  <1>5. ASSUME proc[row.ident].role = row.role, NEW pc \in {"restarting", "registering", "register"},
               Hold(t, pc, row, "settle")
        PROVE  \E x : Passes(t, x)
    <2>1. RoleRuns(row, proc)
      BY <1>5 DEF RoleRuns
    <2>2. pc \notin {"open", "serve", "draincommit"}
      OBVIOUS
    <2>. QED BY <1>1, <1>2, <1>5, <2>1, <2>2, SameTame, GoesPasses
  <1>. QED BY <1>3, <1>4, <1>5

\* closeReadiness finds the worker of the row, by its id or by its URL.
LEMMA ClosesAll ==
    ASSUME IInv, Traffic, row.svc # "NONE", NEW w, w = ResolvedWorker(row), NEW m, m = Closed(w)
    PROVE  Shut(m)
  <1>1. Named(row, epoch) /\ Routed(row, mem)
    BY DEF Traffic
  <1>2. ASSUME NEW i \in Ident
        PROVE  ~m[i].ready
    <2>1. PICK q \in [listed : BOOLEAN, type : AnyRole, ready : BOOLEAN] : q = mem[i]
      BY DEF IInv, RouterOK
    <2>2. q.ready => q.listed /\ i = row.ident
      BY <1>1, <2>1 DEF Routed
    <2>3. q.listed /\ i = row.ident => w = WorkerId(i)
      BY <1>1, <2>1 DEF Named, ResolvedWorker, Listed, HasService, WorkerId
    <2>4. m[i] = IF q.listed /\ w = WorkerId(i) THEN [q EXCEPT !.ready = FALSE] ELSE q
      BY <2>1 DEF Closed
    <2>. QED BY <2>2, <2>3, <2>4
  <1>. QED BY <1>2 DEF Shut

LEMMA BeginDrainPasses ==
    ASSUME IInv, NEW t \in Thread, BeginDrain(t)
    PROVE  \E x : Passes(t, x)
  <1>1. row' = row /\ UNCHANGED <<epoch, proc>> /\ row.ident \in Ident /\ row \in Row /\ NamedCopy(t, row)
    BY OwnNamed DEF BeginDrain, dbVars, nodeVars, IInv, RowOK, LeaseRow
  <1>2. PICK w : w = ResolvedWorker(row)
    OBVIOUS
  <1>3. PICK c : c = [row EXCEPT !.worker = w]
    OBVIOUS
  <1>4. c.ident = row.ident /\ c.worker = w
    BY <1>1, <1>3 DEF Row
  <1>5. mem' = mem \/ mem' = Closed(w)
    BY <1>2, <1>3, <1>4 DEF BeginDrain
  <1>6. Hushed
    BY <1>1, <1>5, ClosedHushed
  <1>7. \/ End(t) \/ (\E pc \in {"release", "reclaimerr"} : Hold(t, pc, row, thread[t].why))
        \/ row.svc # "NONE" /\ mem' = Closed(w) /\ Hold(t, "draincommit", c, thread[t].why)
    BY <1>2, <1>3, <1>4 DEF BeginDrain, DrainError
  <1>8. CASE End(t) \/ \E pc \in {"release", "reclaimerr"} : Hold(t, pc, row, thread[t].why)
    <2>1. Crosses(t)
      BY <1>1, <1>8 DEF Crosses, Place, Bound
    <2>. QED BY <1>1, <1>6, <2>1, SameTame, CrossesPasses
  <1>9. CASE row.svc # "NONE" /\ mem' = Closed(w) /\ Hold(t, "draincommit", c, thread[t].why)
    <2>1. NamedCopy(t, c)
      BY <1>2, <1>4 DEF NamedCopy, Knowing, Named, ResolvedWorker, WorkerId
    <2>2. Traffic => Shut(mem')
      <3>1. PICK m : m = mem'
        OBVIOUS
      <3>. QED BY <1>2, <1>9, <3>1, ClosesAll
    <2>. QED BY <1>1, <1>4, <1>6, <1>9, <2>1, <2>2, SameTame, GoesPasses DEF Bound
  <1>. QED BY <1>7, <1>8, <1>9

LEMMA ProbePasses ==
    ASSUME IInv, NEW t \in Thread, Probe(t)
    PROVE  \E x : Passes(t, x)
  <1>1. row' = row /\ UNCHANGED <<epoch, mem, proc>> /\ thread[t].pc = "probe"
    BY DEF Probe, dbVars, routerVars, nodeVars
  <1>2. PICK y \in Busy : y = thread[t]
    BY <1>1, SelfType DEF IInv
  <1>3. PICK w : w = proc[y.copy.ident].phase
    OBVIOUS
  <1>4. PICK x : /\ thread' = [thread EXCEPT ![t] = x]
                 /\ x.pc \in {"act", "unreach"} /\ x.copy = y.copy
    <2>1. CASE thread' = [thread EXCEPT ![t].pc = "act", ![t].why = w]
      <3>1. PICK x : x = [y EXCEPT !.pc = "act", !.why = w]
        OBVIOUS
      <3>2. thread' = [thread EXCEPT ![t] = x]
        BY <1>2, <2>1, <3>1 DEF IInv, ControlOK
      <3>3. x.pc = "act" /\ x.copy = y.copy
        BY <1>2, <3>1 DEF Busy
      <3>. QED BY <3>2, <3>3
    <2>2. CASE thread' = [thread EXCEPT ![t].pc = "unreach"]
      <3>1. PICK x : x = [y EXCEPT !.pc = "unreach"]
        OBVIOUS
      <3>2. thread' = [thread EXCEPT ![t] = x]
        BY <1>2, <2>2, <3>1 DEF IInv, ControlOK
      <3>3. x.pc = "unreach" /\ x.copy = y.copy
        BY <1>2, <3>1 DEF Busy
      <3>. QED BY <3>2, <3>3
    <2>. QED BY <1>2, <1>3, <2>1, <2>2 DEF Probe
  <1>5. x.pc \notin Bound /\ RoleAt(x, mem, proc) /\ x.pc # "draincommit"
    BY <1>4 DEF Bound, RoleAt
  <1>. QED BY <1>1, <1>2, <1>4, <1>5, SameTame, StillHushed, OwnNamed DEF Passes

LEMMA ReconcilePasses ==
    ASSUME IInv, NEW t \in Thread, Reconcile(t)
    PROVE  \E x : Passes(t, x)
  <1>1. row' = row /\ UNCHANGED <<epoch, mem, proc>>
    BY DEF Reconcile, dbVars, routerVars, nodeVars
  <1>2. PICK pc \in {"reclaim", "update", "release", "probe"} :
           thread' = [thread EXCEPT ![t] = [At(pc, row, "") EXCEPT !.fresh = TRUE]]
    BY DEF Reconcile
  <1>3. PICK x : x = [At(pc, row, "") EXCEPT !.fresh = TRUE]
    OBVIOUS
  <1>4. x.pc = pc /\ x.copy = row
    BY <1>3 DEF At
  <1>5. x.pc \notin Bound /\ RoleAt(x, mem, proc) /\ x.pc # "draincommit"
    BY <1>2, <1>4 DEF Bound, RoleAt
  <1>6. thread' = [thread EXCEPT ![t] = x]
    BY <1>2, <1>3
  <1>. QED BY <1>1, <1>4, <1>5, <1>6, SameTame, StillHushed, OwnNamed DEF Passes

-----------------------------------------------------------------------------
(***************************************************************************)
(* The steps that write the row.                                           *)
(***************************************************************************)
Untouched == UNCHANGED <<epoch, mem, proc>>

LEMMA PrepareCommitPasses ==
    ASSUME IInv, LocalInv, LockInv, NEW t \in Thread, PrepareCommit(t)
    PROVE  \E x : Passes(t, x)
  <1>1. Untouched /\ thread[t].pc \in {"prepared", "prepfail"} /\ thread[t].pc # "idle"
    BY DEF PrepareCommit, routerVars, nodeVars, Untouched
  <1>2. PICK c : c = thread[t].copy
    OBVIOUS
  <1>3. c \in Row /\ c \in LeaseRow /\ Holding(thread[t])
    BY <1>1, <1>2, SelfFits DEF Holding, Owner
  <1>4. PICK next : next = IF thread[t].pc = "prepared" THEN PreparedRow(c, thread[t].why) ELSE PrepareFailedRow(c)
    OBVIOUS
  <1>5. next \in Row
    BY <1>3, <1>4, BuiltRows DEF LeaseRow
  <1>6. /\ next.ident = c.ident /\ next.worker = c.worker
        /\ (next.svc = c.svc /\ next.role = c.role) \/ next.svc \in {"NONE", "FAILED"}
    BY <1>3, <1>4 DEF PreparedRow, PrepareFailedRow, Row
  <1>7. (\E o : Commit(next, o) /\ WriteEnd(t)) \/ (row' = row /\ End(t))
    BY <1>2, <1>4 DEF PrepareCommit, Refused, dbVars
  <1>8. Tame(t)
    BY <1>1, <1>2, <1>3, <1>5, <1>6, <1>7, SameTame, HolderTame
  <1>. QED BY <1>1, <1>7, <1>8, StillHushed, CrossesPasses DEF Crosses, Untouched

LEMMA StartServicePasses ==
    ASSUME IInv, LockInv, NEW t \in Thread, StartService(t)
    PROVE  \E x : Passes(t, x)
  <1>1. Untouched /\ row \in Row /\ thread[t].pc # "idle"
    BY DEF StartService, IInv, RowOK, LeaseRow, routerVars, nodeVars, Untouched
  <1>2. PICK role \in AnyRole : role = thread[t].copy.role
    BY CopyTyped DEF Row
  <1>3. PICK next : next = [row EXCEPT !.role = role, !.svc = "STARTING", !.start = @ + 1]
    OBVIOUS
  <1>4. \/ (\E o : Commit(next, o)) /\ WriteHold(t, "launch", next, thread[t].why)
        \/ row' = row /\ End(t)
    BY <1>2, <1>3 DEF StartService, dbVars
  <1>5. next \in Row /\ next.ident = row.ident /\ next.svc = "STARTING" /\ next.worker = row.worker
    <2>1. row.start + 1 \in Nat /\ "STARTING" \in ServiceState
      BY <1>1 DEF ServiceState, Row
    <2>. QED BY <1>1, <1>3, <2>1 DEF Row
  <1>6. Tame(t) /\ NamedCopy(t, next)
    <2>1. NamedCopy(t, next)
      BY <1>5 DEF NamedCopy, Named, Knowing
    <2>. QED BY <1>1, <1>4, <1>5, <2>1, SameTame, HolderTame
  <1>7. Crosses(t)
    BY <1>4, <1>6 DEF Crosses, Place, Bound
  <1>. QED BY <1>1, <1>6, <1>7, StillHushed, CrossesPasses DEF Untouched

LEMMA AdvancePasses ==
    ASSUME IInv, LockInv, NEW t \in Thread, Advance(t)
    PROVE  \E x : Passes(t, x)
  <1>1. Untouched /\ thread[t].pc \in {"restarting", "healthy", "registering"} /\ thread[t].pc # "idle"
    BY DEF Advance, routerVars, nodeVars, Untouched
  <1>2. PICK c : c = thread[t].copy
    OBVIOUS
  <1>3. PICK svc : svc = NextService(thread[t].pc)
    OBVIOUS
  <1>4. PICK next : next = [c EXCEPT !.svc = svc]
    OBVIOUS
  <1>5. c \in Row /\ c.ident \in Ident /\ Holding(thread[t]) /\ svc \in LiveService \ {"SERVING"}
    BY <1>1, <1>2, <1>3, SelfFits, CopyTyped DEF Holding, Owner, NextService, LiveService
  <1>6. /\ next \in Row /\ next.ident = c.ident /\ next.role = c.role /\ next.worker = c.worker
        /\ next.svc \notin {"SERVING", "DRAINING"}
    BY <1>4, <1>5 DEF Row, LiveService, ServiceState
  <1>7. \/ (\E o : Commit(next, o)) /\ WriteGoto(t, NextPlace(thread[t].pc), next, thread[t].why)
        \/ row' = row /\ End(t)
    BY <1>2, <1>3, <1>4 DEF Advance, Refused, dbVars
  <1>8. CASE row' = row /\ End(t)
    BY <1>1, <1>8, SameTame, StillHushed, CrossesPasses DEF Crosses, Untouched
  <1>9. ASSUME NEW o, Commit(next, o), WriteGoto(t, NextPlace(thread[t].pc), next, thread[t].why)
        PROVE  \E x : Passes(t, x)
    <2>1. Tame(t) /\ NamedCopy(t, next)
      BY <1>1, <1>2, <1>5, <1>6, <1>9, HolderTame
    <2>2. PICK pc \in {"healthy", "registering", "register"} : pc = NextPlace(thread[t].pc)
      BY <1>1 DEF NextPlace
    <2>3. Roles => RoleRuns(next, proc)
      <3>1. Roles => RoleRuns(c, proc)
        BY <1>1, <1>2 DEF Roles, RoleAt, Bound
      <3>. QED BY <1>6, <3>1 DEF RoleRuns
    <2>4. WriteGoto(t, pc, next, thread[t].why) /\ next.ident \in Ident
          /\ pc \notin {"open", "serve", "draincommit"}
      BY <1>5, <1>6, <1>9, <2>2
    <2>. QED BY <1>1, <2>1, <2>3, <2>4, StillHushed, GoesPasses DEF Untouched
  <1>. QED BY <1>7, <1>8, <1>9

LEMMA FailStartPasses ==
    ASSUME IInv, NEW t \in Thread, FailStart(t)
    PROVE  \E x : Passes(t, x)
  <1>1. Untouched /\ thread[t].pc # "idle"
    BY DEF FailStart, routerVars, nodeVars, Untouched
  <1>2. PICK c : c = thread[t].copy
    OBVIOUS
  <1>3. c \in Row /\ c \in LeaseRow
    BY <1>1, <1>2, CopyTyped
  <1>4. PICK next : next = FailedRow(c)
    OBVIOUS
  <1>5. next \in Row /\ next.ident = c.ident /\ next.svc = "FAILED" /\ next.worker = c.worker
    BY <1>3, <1>4, BuiltRows DEF FailedRow, Row, LeaseRow
  <1>6. (\E o : Commit(next, o) /\ WriteEnd(t)) \/ (row' = row /\ End(t))
    BY <1>2, <1>4 DEF FailStart, Refused, dbVars
  <1>7. NamedCopy(t, next)
    BY <1>2, <1>5 DEF NamedCopy, Named, Knowing
  <1>8. Tame(t)
    BY <1>5, <1>6, <1>7, SameTame, CommitTame
  <1>. QED BY <1>1, <1>6, <1>8, StillHushed, CrossesPasses DEF Crosses, Untouched

LEMMA DrainCommitPasses ==
    ASSUME IInv, NEW t \in Thread, DrainCommit(t)
    PROVE  \E x : Passes(t, x)
  <1>1. Untouched /\ thread[t].pc = "draincommit" /\ thread[t].pc # "idle"
    BY DEF DrainCommit, routerVars, nodeVars, Untouched
  <1>2. PICK c : c = thread[t].copy
    OBVIOUS
  <1>3. c \in Row
    BY <1>2, CopyTyped
  <1>4. PICK next : next = [c EXCEPT !.svc = "DRAINING", !.deadline = TRUE, !.pr = Releases(thread[t].why)]
    OBVIOUS
  <1>5. Releases(thread[t].why) \in BOOLEAN
    BY DEF Releases
  <1>6. next \in Row /\ next.svc = "DRAINING" /\ next.ident = c.ident /\ next.worker = c.worker
    BY <1>3, <1>4, <1>5 DEF Row, ServiceState
  <1>7. \/ (\E o : Commit(next, o)) /\ (WriteEnd(t) \/ WriteHold(t, "finish", row', thread[t].why))
        \/ row' = row /\ (End(t) \/ Hold(t, "reclaimerr", row, thread[t].why))
    BY <1>2, <1>4 DEF DrainCommit, Refused, DrainError, dbVars, Commit
  <1>8. NamedCopy(t, next)
    BY <1>2, <1>6 DEF NamedCopy, Named, Knowing
  <1>9. Tame(t) /\ NamedCopy(t, row')
    BY <1>1, <1>6, <1>7, <1>8, SameTame, CommitTame, OwnNamed
  <1>10. Crosses(t)
    BY <1>7, <1>9, OwnNamed DEF Crosses, Place, Bound
  <1>. QED BY <1>1, <1>9, <1>10, StillHushed, CrossesPasses DEF Untouched

LEMMA ReclaimErrPasses ==
    ASSUME IInv, LockInv, NEW t \in Thread, ReclaimErr(t)
    PROVE  \E x : Passes(t, x)
  <1>1. Untouched /\ row \in Row /\ thread[t].pc # "idle"
    BY DEF ReclaimErr, IInv, RowOK, LeaseRow, routerVars, nodeVars, Untouched
  <1>2. PICK next : next = [row EXCEPT !.svc = IF @ \in {"NONE", "DRAINING"} THEN @ ELSE "FAILED"]
    OBVIOUS
  <1>3. /\ next \in Row /\ next.worker = row.worker /\ next.ident = row.ident /\ next.role = row.role
        /\ next.svc \in {row.svc, "FAILED"}
    BY <1>1, <1>2 DEF Row, ServiceState
  <1>4. \/ (\E o : Commit(next, o)) /\ WriteEnd(t)
        \/ row' = row /\ End(t)
    BY <1>2 DEF ReclaimErr, dbVars
  <1>5. Tame(t)
    BY <1>1, <1>3, <1>4, SameTame, HolderTame
  <1>. QED BY <1>1, <1>4, <1>5, StillHushed, CrossesPasses DEF Crosses, Untouched

LEMMA DrainFailPasses ==
    ASSUME IInv, LockInv, NEW t \in Thread, DrainFail(t)
    PROVE  \E x : Passes(t, x)
  <1>1. Untouched /\ thread[t].pc = "drainfail" /\ thread[t].pc # "idle"
    BY DEF DrainFail, routerVars, nodeVars, Untouched
  <1>2. PICK c : c = thread[t].copy
    OBVIOUS
  <1>3. c \in Row /\ Holding(thread[t])
    BY <1>1, <1>2, SelfFits DEF Holding, Owner
  <1>4. ((\E o : Commit(c, o)) /\ WriteEnd(t)) \/ (row' = row /\ End(t))
    BY <1>2 DEF DrainFail, Refused, dbVars
  <1>5. Tame(t)
    BY <1>1, <1>2, <1>3, <1>4, SameTame, HolderTame
  <1>. QED BY <1>1, <1>4, <1>5, StillHushed, CrossesPasses DEF Crosses, Untouched

LEMMA DrainedPasses ==
    ASSUME IInv, LockInv, NEW t \in Thread, Drained(t)
    PROVE  \E x : Passes(t, x)
  <1>1. Untouched /\ row \in Row /\ thread[t].pc # "idle"
    BY DEF Drained, IInv, RowOK, LeaseRow, routerVars, nodeVars, Untouched
  <1>2. PICK c : c = thread[t].copy
    OBVIOUS
  <1>3. c \in Row /\ c \in LeaseRow
    BY <1>1, <1>2, CopyTyped
  <1>4. row' = row => Tame(t) /\ NamedCopy(t, row')
    BY SameTame, OwnNamed
  <1>5. row' = Merged(row, DrainedRow(c)) => Tame(t) /\ NamedCopy(t, row')
    <2>1. PICK d \in Row : d = DrainedRow(c)
      BY <1>3, BuiltRows DEF LeaseRow
    <2>2. d.svc = "NONE" /\ d.ident = c.ident /\ d.worker = c.worker
      BY <1>3, <2>1 DEF DrainedRow, Row
    <2>3. row' = Merged(row, d) => row'.svc = "NONE" /\ row'.ident = c.ident /\ row'.worker = c.worker
      BY <2>2 DEF Merged, Row
    <2>. QED BY <1>2, <2>1, <2>3 DEF Tame, NamedCopy, Named, Knowing
  <1>6. HasUpdate(c) /\ row' = Updated(row, MovedRow(c)) => Tame(t) /\ NamedCopy(t, row')
    <2>. SUFFICES ASSUME HasUpdate(c), row' = Updated(row, MovedRow(c))
                  PROVE  Tame(t) /\ NamedCopy(t, row')
      OBVIOUS
    <2>1. PICK m : m = MovedRow(c)
      OBVIOUS
    <2>2. m \in Row
      BY <1>3, <2>1, BuiltRows DEF LeaseRow
    <2>3. m.svc = "NONE" /\ m.worker = NoWorker
      <3>1. PICK d \in Row : d = DrainedRow(c)
        BY <1>3, BuiltRows DEF LeaseRow
      <3>2. d.svc = "NONE"
        BY <1>3, <3>1 DEF DrainedRow, Row
      <3>. QED BY <2>1, <3>1, <3>2 DEF MovedRow, Row
    <2>4. row'.svc = "NONE" /\ row'.worker = NoWorker
      BY <2>1, <2>2, <2>3 DEF Updated, Row
    <2>. QED BY <2>4 DEF Tame, NamedCopy, Named
  <1>7. Tame(t) /\ NamedCopy(t, row')
    BY <1>2, <1>4, <1>5, <1>6 DEF Drained, dbVars
  <1>8. End(t) \/ WriteEnd(t) \/ WriteHold(t, "release", row', "reclaim")
    BY DEF Drained
  <1>9. Crosses(t)
    BY <1>7, <1>8 DEF Crosses, Place, Bound
  <1>. QED BY <1>1, <1>7, <1>9, StillHushed, CrossesPasses DEF Untouched

LEMMA ReleasingPasses ==
    ASSUME IInv, LockInv, NEW t \in Thread, Releasing(t)
    PROVE  \E x : Passes(t, x)
  <1>1. Untouched /\ thread[t].pc = "releasing" /\ thread[t].pc # "idle"
    BY DEF Releasing, routerVars, nodeVars, Untouched
  <1>2. PICK c : c = thread[t].copy
    OBVIOUS
  <1>3. c \in Row /\ Holding(thread[t])
    BY <1>1, <1>2, SelfFits DEF Holding, Returning
  <1>4. PICK next : next = [c EXCEPT !.inst = "RELEASING"]
    OBVIOUS
  <1>5. /\ next \in Row /\ next.svc = c.svc /\ next.role = c.role /\ next.ident = c.ident
        /\ next.worker = c.worker
    BY <1>3, <1>4 DEF Row, InstanceState
  <1>6. \/ (\E o : Commit(next, o)) /\ WriteGoto(t, "return", next, thread[t].why)
        \/ row' = row /\ (End(t) \/ Goto(t, "reclaimerr", row, thread[t].why))
    BY <1>2, <1>4 DEF Releasing, Refused, dbVars
  <1>7. Tame(t)
    BY <1>1, <1>2, <1>3, <1>5, <1>6, SameTame, HolderTame
  <1>8. NamedCopy(t, row) /\ NamedCopy(t, next)
    BY <1>2, <1>5, OwnNamed DEF NamedCopy, Knowing, Named
  <1>9. Crosses(t)
    BY <1>6, <1>8 DEF Crosses, Place, Bound
  <1>. QED BY <1>1, <1>7, <1>9, StillHushed, CrossesPasses DEF Untouched

LEMMA ReturnedPasses ==
    ASSUME IInv, LockInv, NEW t \in Thread, Returned(t)
    PROVE  \E x : Passes(t, x)
  <1>1. Untouched /\ thread[t].pc \in {"returned", "returnfail"} /\ thread[t].pc # "idle"
    BY DEF Returned, routerVars, nodeVars, Untouched
  <1>2. PICK c : c = thread[t].copy
    OBVIOUS
  <1>3. c \in Row /\ Holding(thread[t])
    BY <1>1, <1>2, SelfFits DEF Holding, Returning
  <1>4. PICK f : f = [c EXCEPT !.inst = "RELEASED", !.pr = FALSE, !.deadline = FALSE, !.role = NoRole]
    OBVIOUS
  <1>5. f \in Row /\ f.svc = c.svc /\ f.inst = "RELEASED" /\ f.ident = c.ident /\ f.worker = c.worker
    BY <1>3, <1>4 DEF Row, InstanceState, AnyRole
  <1>6. PICK next : next = IF thread[t].pc = "returned" THEN f ELSE c
    OBVIOUS
  <1>7. /\ next \in Row /\ next.ident = c.ident /\ next.svc = c.svc /\ next.worker = c.worker
        /\ next.role = c.role \/ next.inst = "RELEASED"
    BY <1>3, <1>5, <1>6
  <1>8. \/ (\E o : Commit(next, o)) /\ (WriteEnd(t) \/ WriteGoto(t, "reclaimerr", row', thread[t].why))
        \/ row' = row /\ (End(t) \/ Goto(t, "reclaimerr", row, thread[t].why))
    BY <1>2, <1>4, <1>6 DEF Returned, Refused, dbVars
  \* CheckCombination: a container without a service only.
  <1>9. (\E o : Commit(next, o)) => next.role = c.role \/ next.svc # "SERVING"
    BY <1>7 DEF Commit, Accepts, CheckCombination
  <1>10. Tame(t) /\ NamedCopy(t, row')
    BY <1>1, <1>2, <1>3, <1>7, <1>8, <1>9, SameTame, HolderTame, OwnNamed
  <1>11. Crosses(t)
    BY <1>8, <1>10, OwnNamed DEF Crosses, Place, Bound
  <1>. QED BY <1>1, <1>10, <1>11, StillHushed, CrossesPasses DEF Untouched

LEMMA LostPasses ==
    ASSUME IInv, LockInv, NEW t \in Thread, Lost(t)
    PROVE  \E x : Passes(t, x)
  <1>1. Untouched /\ thread[t].pc = "lost" /\ thread[t].pc # "idle"
    BY DEF Lost, routerVars, nodeVars, Untouched
  <1>2. PICK c : c = thread[t].copy
    OBVIOUS
  <1>3. c \in Row /\ Holding(thread[t])
    BY <1>1, <1>2, SelfFits DEF Holding, Owner
  <1>4. PICK next : next = [c EXCEPT !.inst = "LOST"]
    OBVIOUS
  <1>5. /\ next \in Row /\ next.svc = c.svc /\ next.role = c.role /\ next.ident = c.ident
        /\ next.worker = c.worker
    BY <1>3, <1>4 DEF Row, InstanceState
  <1>6. \/ (\E o : Commit(next, o)) /\ WriteEnd(t)
        \/ row' = row /\ End(t)
    BY <1>2, <1>4 DEF Lost, Refused, dbVars
  <1>7. Tame(t)
    BY <1>1, <1>2, <1>3, <1>5, <1>6, SameTame, HolderTame
  <1>. QED BY <1>1, <1>6, <1>7, StillHushed, CrossesPasses DEF Crosses, Untouched

LEMMA ActLostPasses ==
    ASSUME IInv, NEW t \in Thread, ActLost(t)
    PROVE  \E x : Passes(t, x)
  <1>1. Untouched /\ thread[t].pc # "idle"
    BY DEF ActLost, Answered, routerVars, nodeVars, Untouched
  <1>2. PICK c : c = thread[t].copy
    OBVIOUS
  <1>3. c \in Row /\ c \in LeaseRow
    BY <1>1, <1>2, CopyTyped
  <1>4. PICK next : next = RecoveredRow(c)
    OBVIOUS
  <1>5. /\ next \in Row /\ next.ident = c.ident /\ next.worker = c.worker
        /\ next.svc \in {"NONE", "FAILED"}
    <2>1. next \in Row
      BY <1>3, <1>4, BuiltRows DEF LeaseRow
    <2>2. next.ident = c.ident /\ next.worker = c.worker /\ next.svc \in {"NONE", "FAILED"}
      BY <1>3, <1>4 DEF RecoveredRow, Row
    <2>. QED BY <2>1, <2>2
  <1>6. \/ (\E o : Commit(next, o)) /\ WriteGoto(t, "prepare", next, "")
        \/ row' = row /\ (End(t) \/ Goto(t, "finish", c, ""))
    BY <1>2, <1>4 DEF ActLost, dbVars
  <1>7. NamedCopy(t, next) /\ NamedCopy(t, c)
    BY <1>2, <1>5 DEF NamedCopy, Named, Knowing
  <1>8. Tame(t)
    BY <1>5, <1>6, <1>7, SameTame, CommitTame
  <1>9. Crosses(t)
    BY <1>6, <1>7 DEF Crosses, Place, Bound
  <1>. QED BY <1>1, <1>8, <1>9, StillHushed, CrossesPasses DEF Untouched

LEMMA RearmPasses ==
    ASSUME IInv, LockInv, NEW t \in Thread, Rearm(t)
    PROVE  \E x : Passes(t, x)
  <1>1. Untouched /\ row \in Row /\ thread[t].pc # "idle"
    BY DEF Rearm, IInv, RowOK, LeaseRow, routerVars, nodeVars, Untouched
  <1>2. PICK next : next = [row EXCEPT !.start = 0, !.rearms = @ + 1, !.parked = FALSE]
    OBVIOUS
  <1>3. \/ (\E o : Commit(next, o)) /\ WriteEnd(t)
        \/ row' = row /\ End(t)
    BY <1>2 DEF Rearm, dbVars
  <1>4. /\ next \in Row /\ next.ident = row.ident /\ next.svc = row.svc /\ next.role = row.role
        /\ next.worker = row.worker
    <2>1. row.rearms + 1 \in Nat
      BY <1>1 DEF Row
    <2>. QED BY <1>1, <1>2, <2>1 DEF Row
  <1>5. Tame(t)
    BY <1>1, <1>3, <1>4, SameTame, HolderTame
  <1>. QED BY <1>1, <1>3, <1>5, StillHushed, CrossesPasses DEF Crosses, Untouched

LEMMA AllocatePasses ==
    ASSUME IInv, LockInv, NEW t \in Thread, Allocate(t)
    PROVE  \E x : Passes(t, x)
  <1>1. Untouched /\ thread[t].pc = "allocate" /\ thread[t].pc # "idle"
    BY DEF Allocate, routerVars, nodeVars, Untouched
  <1>2. PICK c : c = thread[t].copy
    OBVIOUS
  <1>3. c \in Row /\ Holding(thread[t])
    BY <1>1, <1>2, SelfFits DEF Holding, Owner
  <1>4. PICK next : next = [c EXCEPT !.inst = "PREPARING"]
    OBVIOUS
  <1>5. /\ next \in Row /\ next.svc = c.svc /\ next.role = c.role /\ next.ident = c.ident
        /\ next.worker = c.worker
    BY <1>3, <1>4 DEF Row, InstanceState
  <1>6. \/ (\E o : Commit(next, o)) /\ WriteGoto(t, "prepare", next, "resume")
        \/ row' = row /\ End(t)
    BY <1>2, <1>4 DEF Allocate, dbVars
  <1>7. Tame(t)
    BY <1>1, <1>2, <1>3, <1>5, <1>6, SameTame, HolderTame
  <1>8. NamedCopy(t, next)
    BY <1>2, <1>5 DEF NamedCopy, Named, Knowing
  <1>9. Crosses(t)
    BY <1>6, <1>8 DEF Crosses, Place, Bound
  <1>. QED BY <1>1, <1>7, <1>9, StillHushed, CrossesPasses DEF Untouched

\* The request changes neither the service nor the worker.
LEMMA RequestTame ==
    ASSUME IInv, NEW t, row' = RequestRelease(row)
    PROVE  Tame(t)
  <1>1. row \in Row
    BY DEF IInv, RowOK, LeaseRow
  <1>2. /\ row'.svc = row.svc /\ row'.role = row.role /\ row'.ident = row.ident /\ row'.worker = row.worker
    BY <1>1 DEF RequestRelease, Row
  <1>. QED BY <1>2 DEF Tame, NamedCopy, Named, Knowing

LEMMA RevokePasses ==
    ASSUME IInv, NEW t \in Thread, Revoke(t)
    PROVE  \E x : Passes(t, x)
  <1>1. Untouched /\ row' = RequestRelease(row)
    BY DEF Revoke, routerVars, nodeVars, Untouched
  <1>2. PICK x : x = At("revoked", row, "revoke")
    OBVIOUS
  <1>3. thread' = [thread EXCEPT ![t] = x] \/ thread' = Outdated(t, x)
    BY <1>2 DEF Revoke
  <1>4. x.pc = "revoked" /\ x.copy = row
    BY <1>2 DEF At
  <1>5. x.pc \notin Bound /\ RoleAt(x, mem, proc) /\ x.pc # "draincommit"
    BY <1>4 DEF Bound, RoleAt
  <1>. QED BY <1>1, <1>3, <1>4, <1>5, RequestTame, StillHushed, OwnNamed DEF Passes, Untouched

\* A row that moves has no service and loses its worker, or had none.
LEMMA CapacityUpdatedPasses ==
    ASSUME IInv, NEW t \in Thread, CapacityUpdated(t)
    PROVE  \E x : Passes(t, x)
  <1>1. Untouched /\ row \in Row /\ issued \in Nat /\ row.inst \notin {"RELEASING", "RELEASED"}
    BY DEF CapacityUpdated, routerVars, nodeVars, Untouched, IInv, RowOK, LeaseRow, NodeOK, Ident
  <1>2. PICK q : q = [row EXCEPT !.pu = [ident |-> issued, at |-> issued]]
    OBVIOUS
  <1>3. /\ q \in Row /\ q.ident = row.ident /\ q.svc = row.svc /\ q.role = row.role
        /\ q.worker = row.worker
    BY <1>1, <1>2 DEF Row
  <1>4. PICK m : m = [[RebasedRow EXCEPT !.ident = issued] EXCEPT !.seen = issued]
    OBVIOUS
  <1>5. m \in Row /\ m.svc = row.svc /\ m.worker = row.worker
    <2>1. PICK b : b = RebasedRow
      OBVIOUS
    <2>2. b \in Row /\ b.svc = row.svc /\ b.worker = row.worker
      BY <1>1, <2>1 DEF RebasedRow, Row, NoUpdate
    <2>. QED BY <1>1, <1>4, <2>1, <2>2 DEF Row
  <1>6. PICK n : n = [m EXCEPT !.inst = "PREPARING", !.prep = 0, !.start = 0, !.rearms = 0,
                               !.parked = FALSE, !.worker = NoWorker]
    OBVIOUS
  <1>7. n \in Row /\ n.svc = row.svc /\ n.worker = NoWorker
    <2>1. NoWorker \in Nat \X Nat /\ "PREPARING" \in InstanceState
      BY DEF NoWorker, InstanceState
    <2>. QED BY <1>5, <1>6, <2>1 DEF Row
  <1>8. PICK next : next = IF row.inst \in {"IDLE", "LOST"} THEN n ELSE m
    OBVIOUS
  <1>9. \/ (\E o : Commit(q, o)) /\ WriteHold(t, "drain", q, "plain")
        \/ row.svc = "NONE" /\ (\E o : Commit(next, o)) /\ WriteEnd(t)
    BY <1>2, <1>4, <1>6, <1>8 DEF CapacityUpdated, HasService
  <1>10. CASE (\E o : Commit(q, o)) /\ WriteHold(t, "drain", q, "plain")
    <2>1. NamedCopy(t, q)
      BY <1>3 DEF NamedCopy, Named, Knowing
    <2>2. Tame(t)
      BY <1>3, <1>10, <2>1, CommitTame
    <2>3. Crosses(t)
      BY <1>10, <2>1 DEF Crosses, Place, Bound
    <2>. QED BY <1>1, <2>2, <2>3, StillHushed, CrossesPasses DEF Untouched
  <1>11. CASE row.svc = "NONE" /\ (\E o : Commit(next, o)) /\ WriteEnd(t)
    <2>1. next \in Row /\ next.svc = "NONE" /\ next.worker \in {NoWorker, row.worker}
          /\ (row.inst \notin {"ALLOCATING", "PREPARING"} => next.worker = NoWorker)
      BY <1>1, <1>5, <1>7, <1>8, <1>11 DEF Row, InstanceState
    <2>2. NamedCopy(t, next)
      BY <2>1 DEF NamedCopy, Named, Knowing
    <2>3. Tame(t)
      BY <1>11, <2>1, <2>2, CommitTame
    <2>. QED BY <1>1, <1>11, <2>3, StillHushed, CrossesPasses DEF Crosses, Untouched
  <1>. QED BY <1>9, <1>10, <1>11

LEMMA ReofferPasses ==
    ASSUME IInv, NEW t \in Thread, Reoffer(t)
    PROVE  \E x : Passes(t, x)
  <1>1. Untouched /\ WriteHold(t, "allocate", row', "")
    BY DEF Reoffer, routerVars, nodeVars, Untouched
  <1>2. row'.svc = "NONE" /\ row'.worker = NoWorker
    <2>1. PICK f : f = FreshRow(issued)
      OBVIOUS
    <2>2. f.svc = "NONE" /\ f.worker = NoWorker /\ row' = [f EXCEPT !.seen = Later(f.seen, row.seen)]
      BY <2>1 DEF FreshRow, Reoffer, Reoffered
    <2>3. "svc" \in DOMAIN f /\ "worker" \in DOMAIN f
      BY <2>1 DEF FreshRow
    <2>. QED BY <2>2, <2>3
  <1>3. Tame(t) /\ NamedCopy(t, row')
    BY <1>2 DEF Tame, NamedCopy, Named
  <1>4. Crosses(t)
    BY <1>1, <1>3 DEF Crosses, Place, Bound
  <1>. QED BY <1>1, <1>3, <1>4, StillHushed, CrossesPasses DEF Untouched

-----------------------------------------------------------------------------
(***************************************************************************)
(* The steps of a start that reach the container and the Router.           *)
(***************************************************************************)

\* Nobody else starts, registers or drains.
LEMMA HolderAlone ==
    ASSUME LockInv, NEW t \in Thread, thread[t].pc \in Owner
    PROVE  \A u \in Thread : u # t => thread[u].pc \notin Bound \cup {"draincommit"}
  BY DEF LockInv, Fits, Owner, Bound

LEMMA StarterIs ==
    ASSUME IInv, LocalInv, LockInv, NEW t \in Thread,
           thread[t].pc \in {"launch", "register", "open", "serve"}
    PROVE  /\ thread[t].copy \in Row /\ thread[t].copy \in LeaseRow /\ row \in Row
           /\ thread[t].copy.ident \in Ident /\ thread[t].copy.ident = row.ident
           /\ thread[t].copy.role = row.role /\ thread[t].copy.svc = row.svc
           /\ thread[t].copy.svc = IF thread[t].pc = "launch" THEN "STARTING" ELSE thread[t].copy.svc
           /\ thread[t].pc # "launch" => thread[t].copy.svc \in {"REGISTERING", "SERVING"}
           /\ \A u \in Thread : u # t => thread[u].pc \notin Bound \cup {"draincommit"}
  <1>1. thread[t].pc # "idle" /\ thread[t].pc \in Owner /\ Holding(thread[t])
    BY DEF Holding, Owner
  <1>2. Stands(thread[t].copy, row) /\ row \in Row
    BY <1>1, SelfFits
  <1>3. Local(t, thread[t])
    BY DEF LocalInv
  <1>. QED BY <1>1, <1>2, <1>3, CopyTyped, HolderAlone DEF Stands, Same, Local, ServiceAt

LEMMA LaunchRoles ==
    ASSUME IInv, LocalInv, LockInv, Roles, NEW t \in Thread, Launch(t)
    PROVE  Roles'
  <1>1. row' = row /\ mem' = mem /\ thread[t].pc = "launch"
    BY DEF Launch, dbVars, routerVars
  <1>2. row.svc = "STARTING"
    BY <1>1, StarterIs
  <1>3. PICK c : c = thread[t].copy
    OBVIOUS
  <1>4. PICK pc \in {"health", "fail"} : Goto(t, pc, c, thread[t].why)
    BY <1>3 DEF Launch
  <1>5. PICK x : x = At(pc, c, thread[t].why)
    OBVIOUS
  <1>6. thread' = [thread EXCEPT ![t] = x] /\ RoleAt(x, mem', proc')
    BY <1>4, <1>5 DEF Goto, At, RoleAt, Bound
  <1>. QED BY <1>1, <1>2, <1>6, StarterIs, RolesStep

LEMMA LaunchTraffic ==
    ASSUME IInv, Traffic, NEW t \in Thread, Launch(t)
    PROVE  Traffic'
  <1>1. row' = row /\ mem' = mem /\ epoch' = epoch
    BY DEF Launch, dbVars, routerVars
  <1>2. PICK c : c = thread[t].copy
    OBVIOUS
  <1>3. PICK pc \in {"health", "fail"} : Goto(t, pc, c, thread[t].why)
    BY <1>2 DEF Launch
  <1>4. PICK x : x = At(pc, c, thread[t].why)
    OBVIOUS
  <1>5. thread' = [thread EXCEPT ![t] = x] /\ x.pc # "draincommit" /\ x.copy = c
    BY <1>3, <1>4 DEF Goto, At
  <1>6. Closes /\ Routed(row', mem') /\ Named(row', epoch) /\ Named(x.copy, epoch)
    BY <1>1, <1>2, <1>5 DEF Closes, Traffic
  <1>. QED BY <1>1, <1>5, <1>6, TrafficStep

\* What register leaves in the Router: the membership it found, none, or its own.
LEMMA Registers ==
    ASSUME IInv, NEW t \in Thread, Register(t), NEW c, c = thread[t].copy, c.ident \in Ident
    PROVE  /\ \A i \in Ident : i # c.ident => mem'[i] = mem[i]
           /\ mem'[c.ident].listed =>
                 \/ mem'[c.ident].type = c.role
                 \/ mem[c.ident].listed /\ mem'[c.ident].type = mem[c.ident].type
           /\ mem'[c.ident].ready => mem'[c.ident].listed \/ mem[c.ident].ready
           /\ mem[c.ident].listed => mem'[c.ident].listed \/ ~mem'[c.ident].ready
           /\ \/ \E why : Goto(t, "fail", c, why)
              \/ /\ mem'[c.ident].listed => mem'[c.ident].type = c.role
                 /\ \E why : Goto(t, "open", [c EXCEPT !.worker = WorkerId(c.ident)], why)
  <1>1. PICK q \in [listed : BOOLEAN, type : AnyRole, ready : BOOLEAN] : q = mem[c.ident]
    BY DEF IInv, RouterOK
  <1>2. mem \in [Ident -> [listed : BOOLEAN, type : AnyRole, ready : BOOLEAN]]
    BY DEF IInv, RouterOK
  <1>3. PICK copy : copy = [c EXCEPT !.worker = WorkerId(c.ident)]
    OBVIOUS
  <1>. DEFINE Has(m) == mem' = [mem EXCEPT ![c.ident] = m]
              OpensOn == \E why : Goto(t, "open", copy, why)
              GivesUp == \E why : Goto(t, "fail", c, why)
  <1>4. \/ mem' = mem /\ (q.listed => q.type = c.role) /\ OpensOn
        \/ (\E ready \in BOOLEAN : Has([listed |-> TRUE, type |-> c.role, ready |-> ready])) /\ OpensOn
        \/ mem' = mem /\ GivesUp
        \/ /\ GivesUp
           /\ \/ Has([q EXCEPT !.ready = FALSE]) \/ Has(NotListed)
              \/ Has([listed |-> TRUE, type |-> c.role, ready |-> FALSE])
    BY <1>1, <1>2, <1>3 DEF Register, Member
  <1>5. ASSUME NEW m, Has(m)
        PROVE  mem'[c.ident] = m /\ \A i \in Ident : i # c.ident => mem'[i] = mem[i]
    BY <1>2, <1>5
  <1>. HIDE DEF Has, OpensOn, GivesUp
  <1>6. CASE mem' = mem /\ (q.listed => q.type = c.role) /\ OpensOn
    BY <1>1, <1>3, <1>6 DEF OpensOn
  <1>7. ASSUME NEW ready \in BOOLEAN, Has([listed |-> TRUE, type |-> c.role, ready |-> ready]), OpensOn
        PROVE  /\ \A i \in Ident : i # c.ident => mem'[i] = mem[i]
               /\ mem'[c.ident].listed /\ mem'[c.ident].type = c.role
               /\ \E why : Goto(t, "open", [c EXCEPT !.worker = WorkerId(c.ident)], why)
    <2>1. PICK m : m = [listed |-> TRUE, type |-> c.role, ready |-> ready]
      OBVIOUS
    <2>2. m.listed /\ m.type = c.role /\ Has(m)
      BY <1>7, <2>1
    <2>. QED BY <1>3, <1>5, <1>7, <2>2 DEF OpensOn
  <1>8. CASE mem' = mem /\ GivesUp
    BY <1>1, <1>8 DEF GivesUp
  <1>9. ASSUME NEW m, Has(m), m \in {[q EXCEPT !.ready = FALSE], NotListed, [listed |-> TRUE, type |-> c.role, ready |-> FALSE]}
        PROVE  /\ \A i \in Ident : i # c.ident => mem'[i] = mem[i]
               /\ ~mem'[c.ident].ready
               /\ mem'[c.ident].listed =>
                     \/ mem'[c.ident].type = c.role
                     \/ mem[c.ident].listed /\ mem'[c.ident].type = mem[c.ident].type
    <2>1. mem'[c.ident] = m /\ \A i \in Ident : i # c.ident => mem'[i] = mem[i]
      BY <1>5, <1>9
    <2>2. ~m.ready /\ (m.listed => m.type = c.role \/ (q.listed /\ m.type = q.type))
      BY <1>1, <1>9 DEF NotListed
    <2>. QED BY <1>1, <2>1, <2>2
  <1>10. CASE /\ GivesUp
              /\ \/ Has([q EXCEPT !.ready = FALSE]) \/ Has(NotListed)
                 \/ Has([listed |-> TRUE, type |-> c.role, ready |-> FALSE])
    BY <1>9, <1>10 DEF GivesUp
  <1>. QED BY <1>4, <1>6, <1>7, <1>8, <1>10

LEMMA RegisterRoles ==
    ASSUME IInv, LocalInv, LockInv, Roles, NEW t \in Thread, Register(t)
    PROVE  Roles'
  <1>1. row' = row /\ proc' = proc /\ thread[t].pc = "register"
    BY DEF Register, dbVars, nodeVars
  <1>2. PICK c : c = thread[t].copy
    OBVIOUS
  <1>3. c \in Row /\ c.ident \in Ident /\ c.ident = row.ident /\ c.role = row.role /\ row \in Row
    BY <1>1, <1>2, StarterIs
  <1>4. RoleRuns(c, proc) /\ RoleRuns(row, proc)
    BY <1>1, <1>2, <1>3 DEF Roles, RoleAt, Bound, RoleRuns
  <1>5. PICK d : d = [c EXCEPT !.worker = WorkerId(c.ident)]
    OBVIOUS
  <1>6. d.ident = c.ident /\ d.role = c.role
    BY <1>3, <1>5 DEF Row
  <1>7. row'.svc = "SERVING" => RoleRuns(row', proc') /\ Enrolled(row', mem')
    <2>1. row.svc = "SERVING" => Enrolled(row, mem)
      BY DEF Roles
    <2>2. mem'[c.ident].listed => mem'[c.ident].type = c.role \/ (mem[c.ident].listed /\ mem'[c.ident].type = mem[c.ident].type)
      BY <1>2, <1>3, Registers
    <2>3. row.svc = "SERVING" => Enrolled(row, mem')
      BY <1>3, <2>1, <2>2 DEF Enrolled
    <2>. QED BY <1>1, <1>4, <2>3
  <1>8. PICK x : /\ thread' = [thread EXCEPT ![t] = x]
                 /\ RoleAt(x, mem', proc')
    <2>1. CASE \E why : Goto(t, "fail", c, why)
      <3>1. PICK why : Goto(t, "fail", c, why)
        BY <2>1
      <3>2. PICK x : x = At("fail", c, why)
        OBVIOUS
      <3>3. x.pc = "fail" /\ thread' = [thread EXCEPT ![t] = x]
        BY <3>1, <3>2 DEF Goto, At
      <3>. QED BY <3>3 DEF RoleAt, Bound
    <2>2. CASE /\ mem'[c.ident].listed => mem'[c.ident].type = c.role
               /\ \E why : Goto(t, "open", d, why)
      <3>1. PICK why : Goto(t, "open", d, why)
        BY <2>2
      <3>2. PICK x : x = At("open", d, why)
        OBVIOUS
      <3>3. x.pc = "open" /\ x.copy = d /\ thread' = [thread EXCEPT ![t] = x]
        BY <3>1, <3>2 DEF Goto, At
      <3>4. RoleRuns(d, proc') /\ Enrolled(d, mem')
        BY <1>1, <1>4, <1>6, <2>2 DEF RoleRuns, Enrolled
      <3>. QED BY <3>3, <3>4 DEF RoleAt
    <2>. QED BY <1>2, <1>3, <1>5, <2>1, <2>2, Registers
  <1>. QED BY <1>1, <1>7, <1>8, StarterIs, RolesStep

LEMMA RegisterTraffic ==
    ASSUME IInv, LocalInv, LockInv, Traffic, NEW t \in Thread, Register(t)
    PROVE  Traffic'
  <1>1. row' = row /\ epoch' = epoch /\ thread[t].pc = "register"
    BY DEF Register, dbVars
  <1>2. PICK c : c = thread[t].copy
    OBVIOUS
  <1>3. /\ c \in Row /\ c.ident \in Ident /\ c.ident = row.ident
        /\ row.svc \in {"REGISTERING", "SERVING"}
    BY <1>1, <1>2, StarterIs
  <1>4. Named(c, epoch) /\ Named(row, epoch) /\ Routed(row, mem)
    BY <1>2 DEF Traffic
  <1>5. PICK d : d = [c EXCEPT !.worker = WorkerId(c.ident)]
    OBVIOUS
  <1>6. Named(d, epoch)
    <2>1. d.worker = <<epoch, c.ident>> /\ d.ident = c.ident
      BY <1>3, <1>5 DEF Row, WorkerId
    <2>. QED BY <2>1 DEF Named
  <1>7. Routed(row', mem')
    <2>1. ASSUME NEW i \in Ident, mem'[i].ready
          PROVE  mem'[i].listed /\ i = row.ident
      <3>1. CASE i = c.ident
        BY <1>2, <1>3, <1>4, <2>1, <3>1, Registers DEF Routed
      <3>2. CASE i # c.ident
        BY <1>2, <1>3, <1>4, <2>1, <3>2, Registers DEF Routed
      <3>. QED BY <3>1, <3>2
    <2>. QED BY <1>1, <1>3, <2>1 DEF Routed
  <1>8. PICK x : /\ thread' = [thread EXCEPT ![t] = x]
                 /\ x.pc # "draincommit" /\ Named(x.copy, epoch)
    <2>1. ASSUME NEW pc \in {"open", "fail"}, NEW copy \in {c, d}, NEW why, Goto(t, pc, copy, why)
          PROVE  \E x : /\ thread' = [thread EXCEPT ![t] = x]
                        /\ x.pc # "draincommit" /\ Named(x.copy, epoch)
      <3>1. PICK x : x = At(pc, copy, why)
        OBVIOUS
      <3>2. x.pc = pc /\ x.copy = copy /\ thread' = [thread EXCEPT ![t] = x]
        BY <2>1, <3>1 DEF Goto, At
      <3>. QED BY <1>4, <1>6, <3>2
    <2>2. \/ \E why : Goto(t, "fail", c, why)
          \/ \E why : Goto(t, "open", d, why)
      BY <1>2, <1>3, <1>5, Registers
    <2>. QED BY <2>1, <2>2
  <1>9. Named(row', epoch)
    BY <1>1, <1>4
  <1>. QED BY <1>1, <1>7, <1>8, <1>9, StarterIs, TrafficStep

\* What open leaves in the Router.
LEMMA Opens ==
    ASSUME IInv, NEW t \in Thread, Open(t), NEW c, c = thread[t].copy, c.ident \in Ident
    PROVE  /\ \A i \in Ident : mem'[i].listed = mem[i].listed /\ mem'[i].type = mem[i].type
           /\ \A i \in Ident : mem'[i].ready => mem[i].ready \/ (i = c.ident /\ mem'[i].listed)
           /\ End(t) \/ \E pc \in {"serve", "fail"} : \E why : Goto(t, pc, c, why)
  <1>1. PICK q \in [listed : BOOLEAN, type : AnyRole, ready : BOOLEAN] : q = mem[c.ident]
    BY DEF IInv, RouterOK
  <1>2. mem \in [Ident -> [listed : BOOLEAN, type : AnyRole, ready : BOOLEAN]]
    BY DEF IInv, RouterOK
  <1>3. /\ mem' = mem \/ (q.listed /\ mem' = [mem EXCEPT ![c.ident] = [q EXCEPT !.ready = TRUE]])
        /\ End(t) \/ \E pc \in {"serve", "fail"} : \E why : Goto(t, pc, c, why)
    BY <1>1, <1>2 DEF Open
  <1>4. CASE mem' = mem
    BY <1>3, <1>4
  <1>5. CASE q.listed /\ mem' = [mem EXCEPT ![c.ident] = [q EXCEPT !.ready = TRUE]]
    <2>1. PICK m : m = [q EXCEPT !.ready = TRUE]
      OBVIOUS
    <2>2. m.listed = q.listed /\ m.type = q.type
      BY <1>1, <2>1
    <2>3. mem'[c.ident] = m /\ \A i \in Ident : i # c.ident => mem'[i] = mem[i]
      BY <1>2, <1>5, <2>1
    <2>. QED BY <1>1, <1>3, <1>5, <2>2, <2>3
  <1>. QED BY <1>3, <1>4, <1>5

LEMMA OpenRoles ==
    ASSUME IInv, LocalInv, LockInv, Roles, NEW t \in Thread, Open(t)
    PROVE  Roles'
  <1>1. row' = row /\ proc' = proc /\ thread[t].pc = "open" /\ row.ident \in Ident
    BY DEF Open, dbVars, nodeVars, IInv, RowOK, LeaseRow
  <1>2. PICK c : c = thread[t].copy
    OBVIOUS
  <1>3. c \in Row /\ c.ident \in Ident /\ c.ident = row.ident /\ c.role = row.role
    BY <1>1, <1>2, StarterIs
  <1>4. RoleRuns(c, proc) /\ Enrolled(c, mem)
    BY <1>1, <1>2 DEF Roles, RoleAt, Bound
  <1>5. \A i \in Ident : mem'[i].listed = mem[i].listed /\ mem'[i].type = mem[i].type
    BY <1>2, <1>3, Opens
  <1>6. RoleRuns(c, proc') /\ Enrolled(c, mem')
    BY <1>1, <1>3, <1>4, <1>5 DEF Enrolled
  <1>7. row'.svc = "SERVING" => RoleRuns(row', proc') /\ Enrolled(row', mem')
    BY <1>1, <1>3, <1>6 DEF RoleRuns, Enrolled
  <1>8. PICK x : /\ thread' = [thread EXCEPT ![t] = x]
                 /\ RoleAt(x, mem', proc')
    <2>1. CASE End(t)
      <3>1. RoleAt(Idle, mem', proc')
        BY DEF RoleAt, Idle, Bound
      <3>. QED BY <2>1, <3>1 DEF End
    <2>2. ASSUME NEW pc \in {"serve", "fail"}, NEW why, Goto(t, pc, c, why)
          PROVE  \E x : thread' = [thread EXCEPT ![t] = x] /\ RoleAt(x, mem', proc')
      <3>1. PICK x : x = At(pc, c, why)
        OBVIOUS
      <3>2. x.copy = c /\ thread' = [thread EXCEPT ![t] = x]
        BY <2>2, <3>1 DEF Goto, At
      <3>. QED BY <1>6, <3>2 DEF RoleAt
    <2>. QED BY <1>2, <1>3, <2>1, <2>2, Opens
  <1>. QED BY <1>1, <1>7, <1>8, StarterIs, RolesStep

LEMMA OpenTraffic ==
    ASSUME IInv, LocalInv, LockInv, Traffic, NEW t \in Thread, Open(t)
    PROVE  Traffic'
  <1>1. row' = row /\ epoch' = epoch /\ thread[t].pc = "open"
    BY DEF Open, dbVars
  <1>2. PICK c : c = thread[t].copy
    OBVIOUS
  <1>3. /\ c \in Row /\ c.ident \in Ident /\ c.ident = row.ident
        /\ row.svc \in {"REGISTERING", "SERVING"}
    BY <1>1, <1>2, StarterIs
  <1>4. Named(c, epoch) /\ Named(row, epoch) /\ Routed(row, mem)
    BY <1>2 DEF Traffic
  <1>5. Routed(row', mem')
    <2>1. /\ \A i \in Ident : mem'[i].listed = mem[i].listed
          /\ \A i \in Ident : mem'[i].ready => mem[i].ready \/ (i = c.ident /\ mem'[i].listed)
      BY <1>2, <1>3, Opens
    <2>. QED BY <1>1, <1>3, <1>4, <2>1 DEF Routed
  <1>6. PICK x : /\ thread' = [thread EXCEPT ![t] = x]
                 /\ x.pc # "draincommit" /\ Named(x.copy, epoch)
    <2>1. CASE End(t)
      <3>1. Idle.pc # "draincommit" /\ Named(Idle.copy, epoch)
        BY DEF Idle, NoCopy, FreshRow, Named
      <3>. QED BY <2>1, <3>1 DEF End
    <2>2. ASSUME NEW pc \in {"serve", "fail"}, NEW why, Goto(t, pc, c, why)
          PROVE  \E x : /\ thread' = [thread EXCEPT ![t] = x]
                        /\ x.pc # "draincommit" /\ Named(x.copy, epoch)
      <3>1. PICK x : x = At(pc, c, why)
        OBVIOUS
      <3>2. x.pc = pc /\ x.copy = c /\ thread' = [thread EXCEPT ![t] = x]
        BY <2>2, <3>1 DEF Goto, At
      <3>. QED BY <1>4, <3>2
    <2>. QED BY <1>2, <1>3, <2>1, <2>2, Opens
  <1>7. Named(row', epoch)
    BY <1>1, <1>4
  <1>. QED BY <1>1, <1>5, <1>6, <1>7, StarterIs, TrafficStep

\* SERVING is recorded of the process and the registration that were seen.
LEMMA ServeIs ==
    ASSUME IInv, LocalInv, LockInv, NEW t \in Thread, Serve(t)
    PROVE  /\ Untouched /\ thread[t].pc = "serve"
           /\ thread' = [thread EXCEPT ![t] = Idle] \/ thread' = Outdated(t, Idle)
           /\ \/ row' = row
              \/ /\ row'.ident = row.ident /\ row'.role = thread[t].copy.role
                 /\ row'.ident = thread[t].copy.ident
                 /\ row'.worker = thread[t].copy.worker /\ row'.svc = "SERVING"
  <1>1. Untouched /\ thread[t].pc = "serve" /\ thread[t].pc # "idle"
    BY DEF Serve, routerVars, nodeVars, Untouched
  <1>2. PICK c : c = thread[t].copy
    OBVIOUS
  <1>3. c \in Row /\ c \in LeaseRow /\ c.ident = row.ident
    BY <1>1, <1>2, StarterIs
  <1>4. PICK next : next = ServingRow(c)
    OBVIOUS
  <1>5. next \in Row
    BY <1>3, <1>4, BuiltRows DEF LeaseRow
  <1>6. next.ident = c.ident /\ next.role = c.role /\ next.worker = c.worker /\ next.svc = "SERVING"
    BY <1>3, <1>4 DEF ServingRow, Row
  <1>7. (\E o : Commit(next, o)) \/ row' = row
    BY <1>2, <1>4 DEF Serve, Refused, dbVars
  <1>8. (\E o : Commit(next, o)) => /\ row'.ident = next.ident /\ row'.role = next.role
                                    /\ row'.worker = next.worker /\ row'.svc = next.svc
    BY <1>5 DEF Commit, Merged, Row
  <1>9. thread' = [thread EXCEPT ![t] = Idle] \/ thread' = Outdated(t, Idle)
    BY DEF Serve, End, WriteEnd
  <1>. QED BY <1>1, <1>2, <1>3, <1>6, <1>7, <1>8, <1>9

LEMMA ServeRoles ==
    ASSUME IInv, LocalInv, LockInv, Roles, NEW t \in Thread, Serve(t)
    PROVE  Roles'
  <1>1. Untouched /\ thread[t].pc = "serve"
    BY ServeIs
  <1>2. RoleAt(Idle, mem', proc')
    BY DEF RoleAt, Idle, Bound
  <1>3. RoleRuns(thread[t].copy, proc) /\ Enrolled(thread[t].copy, mem)
    BY <1>1 DEF Roles, RoleAt, Bound
  <1>4. row'.svc = "SERVING" => RoleRuns(row', proc') /\ Enrolled(row', mem')
    <2>1. CASE row' = row
      BY <1>1, <2>1 DEF Roles, Untouched
    <2>2. CASE row'.role = thread[t].copy.role /\ row'.ident = thread[t].copy.ident
      BY <1>1, <1>3, <2>2 DEF RoleRuns, Enrolled, Untouched
    <2>. QED BY <2>1, <2>2, ServeIs
  <1>5. Enrols /\ Spawns
    BY <1>1, StillHushed DEF Untouched, Hushed
  <1>. QED BY <1>2, <1>4, <1>5, ServeIs, RolesStep

LEMMA ServeTraffic ==
    ASSUME IInv, LocalInv, LockInv, Traffic, NEW t \in Thread, Serve(t)
    PROVE  Traffic'
  <1>1. Untouched /\ thread[t].pc = "serve" /\ row.svc \in {"REGISTERING", "SERVING"}
    BY ServeIs, StarterIs
  <1>2. Idle.pc # "draincommit" /\ Named(Idle.copy, epoch)
    BY DEF Idle, NoCopy, FreshRow, Named
  <1>3. Named(thread[t].copy, epoch) /\ Named(row, epoch) /\ Routed(row, mem)
    BY DEF Traffic
  <1>4. Named(row', epoch)
    BY <1>3, ServeIs DEF Named
  <1>5. Routed(row', mem')
    <2>1. row'.ident = row.ident /\ row'.svc \notin {"NONE", "DRAINING"}
      BY <1>1, ServeIs
    <2>. QED BY <1>1, <1>3, <2>1 DEF Routed, Untouched
  <1>6. Closes /\ epoch' = epoch
    BY <1>1, StillHushed DEF Untouched, Hushed
  <1>. QED BY <1>2, <1>4, <1>5, <1>6, ServeIs, TrafficStep

-----------------------------------------------------------------------------
(***************************************************************************)
(* The operator, crashes and the world.                                    *)
(***************************************************************************)
RowServes == row'.svc = row.svc /\ row'.ident = row.ident /\ row'.role = row.role /\ row'.worker = row.worker

\* Where the goroutines are after a step of none of them.
LEMMA AllElsewhere ==
    ASSUME IInv, thread' = thread \/ OutdateAll, NEW u \in Thread
    PROVE  thread'[u].pc = thread[u].pc /\ thread'[u].copy = thread[u].copy
  <1>1. PICK y \in Goroutine : y = thread[u]
    BY DEF IInv, ControlOK
  <1>2. thread'[u] = y \/ thread'[u] = [y EXCEPT !.fresh = FALSE]
    BY <1>1 DEF OutdateAll
  <1>. QED BY <1>1, <1>2 DEF Goroutine, Busy, Resting

LEMMA OutsideRoles ==
    ASSUME IInv, Roles, thread' = thread \/ OutdateAll, RowServes, Enrols, Spawns
    PROVE  Roles'
  <1>1. ASSUME NEW u \in Thread
        PROVE  RoleAt(thread'[u], mem', proc')
    <2>1. PICK y : y = thread[u]
      OBVIOUS
    <2>2. RoleAt(y, mem, proc) /\ (y.pc \in Bound => y.copy.ident \in Ident)
      BY <2>1, CopyTyped DEF Roles, Bound
    <2>3. RoleAt(y, mem', proc')
      BY <2>2, RoleLater
    <2>4. thread'[u].pc = y.pc /\ thread'[u].copy = y.copy
      BY <2>1, AllElsewhere
    <2>. QED BY <2>3, <2>4 DEF RoleAt
  <1>2. row.ident \in Ident
    BY DEF IInv, RowOK, LeaseRow
  <1>3. row'.svc = "SERVING" => RoleRuns(row', proc') /\ Enrolled(row', mem')
    <2>. SUFFICES ASSUME row.svc = "SERVING"
                  PROVE  RoleRuns(row', proc') /\ Enrolled(row', mem')
      BY DEF RowServes
    <2>1. RoleRuns(row, proc) /\ Enrolled(row, mem)
      BY DEF Roles
    <2>2. RoleRuns(row', proc')
      BY <1>2, <2>1 DEF RowServes, Spawns, RoleRuns
    <2>3. Enrolled(row', mem')
      BY <1>2, <2>1 DEF RowServes, Enrols, Enrolled
    <2>. QED BY <2>2, <2>3
  <1>. QED BY <1>1, <1>3 DEF Roles

LEMMA OutsideTraffic ==
    ASSUME IInv, Traffic, thread' = thread \/ OutdateAll, RowServes, epoch' = epoch, mem' = mem
    PROVE  Traffic'
  <1>1. ASSUME NEW u \in Thread
        PROVE  /\ Named(thread'[u].copy, epoch)
               /\ thread'[u].pc = "draincommit" => Shut(mem)
    BY AllElsewhere DEF Traffic
  <1>2. Named(row', epoch)
    BY DEF Traffic, RowServes, Named
  <1>3. Routed(row', mem)
    BY DEF Traffic, RowServes, Routed
  <1>. QED BY <1>1, <1>2, <1>3 DEF Traffic

\* An operator's call keeps the service and the worker of the row.
LEMMA OperatorServes ==
    ASSUME IInv, Operator
    PROVE  OutdateAll /\ RowServes /\ UNCHANGED <<epoch, mem, proc>>
  <1>1. OutdateAll /\ UNCHANGED <<epoch, mem, proc>> /\ row \in Row
    BY DEF Operator, RequeueService, RequestReclaim, IInv, RowOK, LeaseRow, routerVars, nodeVars
  <1>2. CASE RequestReclaim
    <2>1. row' = RequestRelease(row)
      BY <1>2 DEF RequestReclaim
    <2>. QED BY <1>1, <2>1 DEF RequestRelease, Row, RowServes
  <1>3. CASE RequeueService
    <2>1. PICK next : next = [row EXCEPT !.start = 0, !.rearms = 0, !.parked = FALSE]
      OBVIOUS
    <2>2. row' = Merged(row, next)
      BY <1>3, <2>1 DEF RequeueService, Commit
    <2>3. /\ next \in Row /\ next.ident = row.ident /\ next.svc = row.svc /\ next.role = row.role
          /\ next.worker = row.worker
      BY <1>1, <2>1 DEF Row
    <2>. QED BY <1>1, <2>2, <2>3 DEF Merged, Row, RowServes
  <1>. QED BY <1>1, <1>2, <1>3 DEF Operator

\* A process that is restarted knows nothing, or resumes from the row.
LEMMA RecoveryPasses ==
    ASSUME IInv, Recovery
    PROVE  /\ row' = row /\ UNCHANGED <<epoch, mem, proc>>
           /\ \/ thread' = thread
              \/ thread' = [t \in Thread |-> Idle]
              \/ \E x : Passes(Reconciler, x)
  <1>1. row' = row /\ UNCHANGED <<epoch, mem, proc>>
    BY DEF Recovery, Crash, Listen, ResumeOpenOperation, dbVars, routerVars, nodeVars
  <1>2. ASSUME NEW pc \in {"prepare", "start", "finish", "release"}, Goto(Reconciler, pc, row, "resume")
        PROVE  \E x : Passes(Reconciler, x)
    <2>1. pc \in Place \ (Bound \cup {"idle", "draincommit"})
      BY DEF Place, Bound
    <2>2. Crosses(Reconciler)
      BY <1>2, <2>1, OwnNamed DEF Crosses
    <2>. QED BY <1>1, <2>2, SameTame, StillHushed, CrossesPasses
  <1>3. \/ thread' = thread
        \/ thread' = [t \in Thread |-> Idle]
        \/ \E pc \in {"prepare", "start", "finish", "release"} : Goto(Reconciler, pc, row, "resume")
    BY DEF Recovery, Crash, Listen, ResumeOpenOperation, ResumePlace, OpKind
  <1>. QED BY <1>1, <1>2, <1>3

\* No process begins, and no worker is registered, by what the world does.
LEMMA WorldServes ==
    ASSUME IInv, World \/ Rest \/ UNCHANGED vars
    PROVE  /\ thread' = thread /\ row' = row /\ Enrols /\ Spawns
           /\ "restart" \notin Fault => epoch' = epoch /\ mem' = mem
  <1>1. row' = row /\ thread' = thread
    BY WorldStands
  <1>2. RouterRestarts \/ (epoch' = epoch /\ mem' = mem)
    BY DEF World, Clock, Partition, Heal, Loaded, Degrades, Dies, PartnerMoves, PartnerOffers,
           PartnerDeletes, DeadlinePasses, CooldownPasses, RetryPasses, Rest, vars, routerVars
  <1>3. Enrols
    BY <1>2 DEF RouterRestarts, Enrols, NotListed
  <1>4. Spawns
    <2>1. CASE proc' = proc
      BY <2>1 DEF Spawns
    <2>2. ASSUME NEW i \in Ident, Loaded(i) \/ Degrades(i) \/ Dies(i)
          PROVE  Spawns
      <3>1. PICK q \in [phase : Phase, role : AnyRole, ok : BOOLEAN] : q = proc[i]
        BY DEF IInv, NodeOK
      <3>2. PICK p \in {Exited(q), [q EXCEPT !.ok = TRUE], [q EXCEPT !.ok = FALSE]} :
                proc' = [proc EXCEPT ![i] = p]
        BY <2>2, <3>1 DEF Loaded, Degrades, Dies
      <3>3. p.role = q.role /\ (p.phase = "RUNNING" => q.phase = "RUNNING")
        BY <3>1, <3>2 DEF Exited
      <3>. QED BY <3>1, <3>2, <3>3 DEF Spawns, IInv, NodeOK
    <2>3. CASE PartnerMoves \/ PartnerOffers \/ PartnerDeletes
      <3>1. /\ NoContainer.phase = "GONE" /\ FreshContainer.phase = "IDLE" /\ issued \in Nat
        BY DEF NoContainer, FreshContainer, IInv, NodeOK, Ident
      <3>2. \A i \in Ident : proc'[i] \in {proc[i], NoContainer, FreshContainer}
        BY <2>3 DEF PartnerMoves, PartnerOffers, PartnerDeletes, GiveBack, IInv, NodeOK
      <3>. QED BY <3>1, <3>2 DEF Spawns
    <2>4. \/ proc' = proc
          \/ \E i \in Ident : Loaded(i) \/ Degrades(i) \/ Dies(i)
          \/ PartnerMoves \/ PartnerOffers \/ PartnerDeletes
      BY DEF World, Clock, Partition, Heal, RouterRestarts, DeadlinePasses, CooldownPasses,
             RetryPasses, Rest, vars, nodeVars
    <2>. QED BY <2>1, <2>2, <2>3, <2>4
  <1>5. "restart" \notin Fault => epoch' = epoch /\ mem' = mem
    BY <1>2 DEF RouterRestarts, Fails
  <1>. QED BY <1>1, <1>3, <1>4, <1>5

-----------------------------------------------------------------------------
(***************************************************************************)
(* Every step.                                                             *)
(***************************************************************************)
Registration(t) == Launch(t) \/ Register(t) \/ Open(t) \/ Serve(t)

\* All the steps of a goroutine but those of a registration pass.
LEMMA ThreadPasses ==
    ASSUME Serialised, IInv, LocalInv, LockInv, NEW t \in Thread,
           Continue(t) \/ Start(t) \/ Cancel(t), ~Registration(t)
    PROVE  \E x : Passes(t, x)
  <1>1. CASE Continue(t)
    BY <1>1, MovesPass, ClosersPass, StoppersPass, HealthPasses, SettlePasses, BeginDrainPasses,
       ProbePasses, PrepareCommitPasses, StartServicePasses, AdvancePasses, FailStartPasses,
       DrainCommitPasses, ReclaimErrPasses, DrainFailPasses, DrainedPasses, ReleasingPasses,
       ReturnedPasses, LostPasses, ActLostPasses, RearmPasses, AllocatePasses
       DEF Continue, Registration
  <1>2. CASE Start(t)
    <2>1. ~OperatorRelease(t)
      BY DEF OperatorRelease, Begin, Serialised
    <2>. QED BY <1>2, <2>1, MovesPass, ReconcilePasses, RevokePasses, CapacityUpdatedPasses,
                ReofferPasses DEF Start
  <1>3. CASE Cancel(t)
    BY <1>3, MovesPass
  <1>. QED BY <1>1, <1>2, <1>3

LEMMA InitRoles == Init => Roles
  <1>. SUFFICES ASSUME Init PROVE Roles
    OBVIOUS
  <1>1. row.svc = "NONE"
    BY DEF Init, FreshRow
  <1>2. \A t \in Thread : thread[t].pc = "idle"
    BY DEF Init, Idle
  <1>. QED BY <1>1, <1>2 DEF Roles, RoleAt, Bound

LEMMA NextRoles ==
    ASSUME Serialised, IInv, LocalInv, LockInv, Roles, [Next]_vars
    PROVE  Roles'
  <1>1. ASSUME NEW t \in Thread, Continue(t) \/ Start(t) \/ Cancel(t)
        PROVE  Roles'
    <2>1. CASE Registration(t)
      BY <2>1, LaunchRoles, RegisterRoles, OpenRoles, ServeRoles DEF Registration
    <2>2. CASE ~Registration(t)
      BY <1>1, <2>2, ThreadPasses, PassesRoles
    <2>. QED BY <2>1, <2>2
  <1>2. CASE Operator
    BY <1>2, OperatorServes, StillHushed, OutsideRoles DEF Hushed
  <1>3. CASE Recovery
    <2>1. row' = row /\ UNCHANGED <<epoch, mem, proc>>
      BY <1>3, RecoveryPasses
    <2>2. CASE thread' = thread
      BY <2>1, <2>2, StillHushed, OutsideRoles DEF Hushed, RowServes
    <2>3. CASE thread' = [t \in Thread |-> Idle]
      <3>1. \A t \in Thread : thread'[t].pc = "idle"
        BY <2>3 DEF Idle
      <3>. QED BY <2>1, <3>1 DEF Roles, RoleAt, Bound
    <2>4. CASE \E x : Passes(Reconciler, x)
      BY <2>4, LifecycleAssumption, PassesRoles
    <2>. QED BY <1>3, <2>2, <2>3, <2>4, RecoveryPasses
  <1>4. CASE World \/ Rest \/ UNCHANGED vars
    BY <1>4, WorldServes, OutsideRoles DEF RowServes
  <1>. QED BY <1>1, <1>2, <1>3, <1>4 DEF Next

\* A worker in service is registered in the Router under the role it was given and
\* its process runs that role (startServiceRuntime and registerServingWorker of
\* lifecycle.go), although the Router keeps memberships and the container keeps
\* processes from earlier assignments, and both may be restarted, degraded or cut
\* off between the step that looked at them and the write that records SERVING.
THEOREM LifecycleServedRoleMatches == Serialised => (Spec => []ServedRoleMatches)
  <1>. SUFFICES ASSUME Serialised
                PROVE  Spec => []ServedRoleMatches
    OBVIOUS
  <1>1. Init => Roles
    BY InitRoles
  <1>2. IInv /\ LocalInv /\ LockInv /\ Roles /\ [Next]_vars => Roles'
    BY NextRoles
  <1>3. Roles => ServedRoleMatches
    BY DEF Roles, RoleRuns, Enrolled, ServedRoleMatches
  <1>. QED BY <1>1, <1>2, <1>3, LocksHeld, PTL DEF Spec

LEMMA InitTraffic == Init => Traffic
  <1>. SUFFICES ASSUME Init PROVE Traffic
    OBVIOUS
  <1>1. /\ row.worker = NoWorker
        /\ \A t \in Thread : thread[t].pc = "idle" /\ thread[t].copy.worker = NoWorker
        /\ \A i \in Ident : ~mem[i].ready
    BY DEF Init, FreshRow, Idle, NoCopy, NotListed
  <1>. QED BY <1>1 DEF Traffic, Named, Routed, Shut

\* A row that is not calm had no service, or one that drained.
LEMMA ThreadCalm ==
    ASSUME Steady, IInv, LocalInv, LockInv, Known, Stops, NEW t \in Thread,
           Continue(t) \/ Start(t) \/ Cancel(t), ~Registration(t)
    PROVE  RowCalm \/ row.svc \in {"NONE", "DRAINING"}
  <1>1. ASSUME NEW x, Calm(t, x)
        PROVE  RowCalm
    BY <1>1 DEF Calm
  <1>2. CASE Continue(t)
    <2>1. CASE FinishDrain(t) \/ Return(t)
      <3>1. row' = row
        BY <2>1 DEF FinishDrain, Return, dbVars
      <3>. QED BY <3>1, SameCalm
    <2>2. CASE Drained(t)
      <3>1. thread[t].pc = "drained"
        BY <2>2 DEF Drained
      <3>. QED BY <3>1, DrainerIs
    <2>3. CASE ~(FinishDrain(t) \/ Drained(t) \/ Return(t))
      <3>1. \E x : Calm(t, x)
        BY <1>2, <2>3, MovesCalm, ProbeCalm, UnreachCalm, BeginReleaseCalm, PrepareCommitCalm,
           StartServiceCalm, AdvanceCalm, FailStartCalm, DrainCommitCalm, ReclaimErrCalm,
           DrainFailCalm, ReleasingCalm, ReturnedCalm, LostCalm, RearmCalm, AllocateCalm, ActLostKnown
           DEF Continue, Registration
      <3>. QED BY <1>1, <3>1
    <2>. QED BY <2>1, <2>2, <2>3
  <1>3. CASE Start(t)
    <2>1. CASE Reoffer(t)
      BY <2>1 DEF Reoffer, AcceptsReoffer
    <2>2. CASE CapacityUpdated(t)
      <3>1. PICK q : q = [row EXCEPT !.pu = [ident |-> issued, at |-> issued]]
        OBVIOUS
      <3>2. row \in Row /\ issued \in Nat /\ row.inst \notin Left
        BY <2>2, StartFinds DEF CapacityUpdated, Left
      <3>3. q \in Row /\ q.inst = row.inst /\ q.svc = row.svc /\ q.ident = row.ident
        BY <3>1, <3>2 DEF Row
      <3>4. Commit(q, ops) \/ row.svc = "NONE"
        BY <2>2, <3>1 DEF CapacityUpdated, HasService
      <3>. QED BY <3>2, <3>3, <3>4, CommitCalm
    <2>3. CASE ~(CapacityUpdated(t) \/ Reoffer(t))
      <3>1. ~OperatorRelease(t)
        BY DEF OperatorRelease, Begin, Steady, Serialised
      <3>2. \E x : Calm(t, x)
        BY <1>3, <2>3, <3>1, MovesCalm, ReconcileCalm, RevokeCalm DEF Start
      <3>. QED BY <1>1, <3>2
    <2>. QED BY <2>1, <2>2, <2>3
  <1>4. CASE Cancel(t)
    BY <1>1, <1>4, MovesCalm
  <1>. QED BY <1>2, <1>3, <1>4

LEMMA NextTraffic ==
    ASSUME Steady, "restart" \notin Fault, IInv, LocalInv, LockInv, Known, Stops, Traffic, [Next]_vars
    PROVE  Traffic'
  <1>0. row.inst \in {"ALLOCATING", "PREPARING"} => row.worker = NoWorker
    BY DEF Known, Shaped
  <1>1. ASSUME NEW t \in Thread, Continue(t) \/ Start(t) \/ Cancel(t)
        PROVE  Traffic'
    <2>1. CASE Registration(t)
      BY <2>1, LaunchTraffic, RegisterTraffic, OpenTraffic, ServeTraffic DEF Registration
    <2>2. CASE ~Registration(t)
      <3>1. \E x : Passes(t, x)
        BY <1>1, <2>2, ThreadPasses DEF Steady
      <3>2. RowCalm \/ row.svc \in {"NONE", "DRAINING"}
        BY <1>1, <2>2, ThreadCalm
      <3>. QED BY <1>0, <3>1, <3>2, PassesTraffic
    <2>. QED BY <2>1, <2>2
  <1>2. CASE Operator
    BY <1>2, OperatorServes, OutsideTraffic
  <1>3. CASE Recovery
    <2>1. row' = row /\ UNCHANGED <<epoch, mem, proc>>
      BY <1>3, RecoveryPasses
    <2>2. CASE thread' = thread
      BY <2>1, <2>2, OutsideTraffic DEF RowServes
    <2>3. CASE thread' = [t \in Thread |-> Idle]
      <3>1. \A t \in Thread : thread'[t].pc = "idle" /\ thread'[t].copy.worker = NoWorker
        BY <2>3 DEF Idle, NoCopy, FreshRow
      <3>. QED BY <2>1, <3>1 DEF Traffic, Named
    <2>4. CASE \E x : Passes(Reconciler, x)
      BY <1>0, <2>1, <2>4, LifecycleAssumption, SameCalm, PassesTraffic
    <2>. QED BY <1>3, <2>2, <2>3, <2>4, RecoveryPasses
  <1>4. CASE World \/ Rest \/ UNCHANGED vars
    BY <1>4, WorldServes, OutsideTraffic DEF RowServes
  <1>. QED BY <1>1, <1>2, <1>3, <1>4 DEF Next

LEMMA AlwaysTraffic == Steady /\ "restart" \notin Fault => (Spec => [](IInv /\ Traffic))
  <1>. SUFFICES ASSUME Steady, "restart" \notin Fault
                PROVE  Spec => [](IInv /\ Traffic)
    OBVIOUS
  <1>1. Spec => [](IInv /\ LockInv /\ LocalInv /\ Known /\ Stops)
    BY AlwaysStops
  <1>2. IInv /\ LocalInv /\ LockInv /\ Known /\ Stops /\ Traffic /\ [Next]_vars => Traffic'
    BY NextTraffic
  <1>. QED BY <1>1, <1>2, InitTraffic, PTL DEF Spec

\* Readiness is closed before DRAINING is recorded (BeginDrain of lifecycle.go) and
\* stays closed: nobody reopens it, and it was closed even when the start that had
\* opened it crashed or was cancelled before its worker id reached the row.
THEOREM LifecycleDrainingIsClosed ==
    Steady /\ "restart" \notin Fault => (Spec => []DrainingIsClosed)
  <1>. SUFFICES ASSUME Steady, "restart" \notin Fault
                PROVE  Spec => []DrainingIsClosed
    OBVIOUS
  <1>1. IInv /\ Traffic => DrainingIsClosed
    BY DEF IInv, RowOK, LeaseRow, Traffic, Routed, DrainingIsClosed
  <1>. QED BY <1>1, AlwaysTraffic, PTL

\* Once the row has taken a new identity, nothing is routed to the container it
\* left: the old worker is drained before the identity moves (CAPACITY_UPDATED of
\* events.go and finishDrain of lifecycle.go), and a start of the old container
\* that was still under way does not open it again.
THEOREM LifecycleLeftBehindClosed ==
    Steady /\ "restart" \notin Fault => (Spec => []LeftBehindClosed)
  <1>. SUFFICES ASSUME Steady, "restart" \notin Fault
                PROVE  Spec => []LeftBehindClosed
    OBVIOUS
  <1>1. IInv /\ Traffic => LeftBehindClosed
    <2>. SUFFICES ASSUME IInv, Traffic, NEW i \in Ident, i < row.ident
                  PROVE  ~mem[i].ready
      BY DEF LeftBehindClosed
    <2>1. row.ident \in Nat /\ i \in Nat
      BY DEF IInv, RowOK, LeaseRow, Ident
    <2>2. i # row.ident
      BY <2>1
    <2>. QED BY <2>2 DEF Traffic, Routed
  <1>. QED BY <1>1, AlwaysTraffic, PTL
=============================================================================
