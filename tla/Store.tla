-------------------------------- MODULE Store --------------------------------
(***************************************************************************)
(* The instance row of internal/store and the one transaction that writes  *)
(* it, ApplyTransition (sqlite.go).  A caller hands over a whole row built *)
(* from a copy it read earlier; the transaction re-reads the current row,  *)
(* merges the fields a stale copy must not erase and refuses what the      *)
(* state graph or a pending reclaim forbids.  Each operator here is a      *)
(* function of (current row, requested row).                               *)
(*                                                                         *)
(* Data abstraction.  Endpoint, service endpoint and lease id of an        *)
(* instance change together and are one number, the identity: the partner  *)
(* issues identities 1, 2, ... and 0 means "none".  Timestamps that only   *)
(* order partner observations are numbers; the deadline and park stamps    *)
(* keep only whether they are set, because whether they have passed is a   *)
(* matter of the clock (see Lifecycle).                                    *)
(*                                                                         *)
(* An operator named X_Variant is X with a plausible bug: it shows that a  *)
(* property would notice the bug, and no specification uses it.            *)
(***************************************************************************)
EXTENDS Naturals, Domain

NoWorker == <<0, 0>>
NoUpdate == [ident |-> 0, at |-> 0]

(***************************************************************************)
(* inst/svc/role     instance_state, service_state, role                   *)
(* ident             endpoint, service_endpoint, lease_id                  *)
(* seen              lease_updated_at: newest partner observation          *)
(* worker            router_worker_id: <<Router epoch, identity>>          *)
(* prep/start/rearms prepare_attempts, start_attempts, start_rearms        *)
(* parked/deadline   start_parked_at, drain_deadline_at are set            *)
(* pr                pending_release                                       *)
(* pu                pending_update: replacement identity, observation time*)
(***************************************************************************)
Row ==
    [inst : InstanceState, svc : ServiceState, role : AnyRole,
     ident : Nat, seen : Nat, worker : Nat \X Nat,
     prep : Nat, start : Nat, rearms : Nat,
     parked : BOOLEAN, deadline : BOOLEAN,
     pr : BOOLEAN, pu : [ident : Nat, at : Nat]]

\* A row as CAPACITY_ADDED builds it for identity i.
FreshRow(i) ==
    [inst |-> "ALLOCATING", svc |-> "NONE", role |-> NoRole,
     ident |-> i, seen |-> i, worker |-> NoWorker,
     prep |-> 0, start |-> 0, rearms |-> 0,
     parked |-> FALSE, deadline |-> FALSE,
     pr |-> FALSE, pu |-> NoUpdate]

HasService_LiveOnly(row) == row.svc \in LiveService \cup {"DRAINING"}

HasService(row) == row.svc # "NONE"

HasUpdate(row) == row.pu # NoUpdate

Later(m, n) == IF m > n THEN m ELSE n

\* A pending reclaim survives every write except the one that completes it.
UnderReclaim(current, next) == current.pr /\ next.inst # "RELEASED"

(***************************************************************************)
(* The identity update a write leaves pending: none once a reclaim is      *)
(* pending or the row is released, otherwise the newer of the two.         *)
(***************************************************************************)
KeptUpdate(current, next, pr) ==
    IF pr \/ next.inst = "RELEASED" THEN NoUpdate
    ELSE IF HasUpdate(current) /\ (~HasUpdate(next) \/ next.pu.at < current.pu.at)
         THEN current.pu
         ELSE next.pu

(***************************************************************************)
(* ApplyTransition without options: may `next' replace `current', and what *)
(* is stored if it may.                                                    *)
(***************************************************************************)
Accepts_AnyCombination(current, next) ==
    /\ UnderReclaim(current, next) =>
          /\ next.ident = current.ident
          /\ next.inst = "LOST" \/ next.svc \notin LiveService
    /\ ValidateTransition(current, next)

Accepts(current, next) ==
    /\ UnderReclaim(current, next) =>
          /\ next.ident = current.ident
          /\ next.inst = "LOST" \/ next.svc \notin LiveService
    /\ ValidateTransition(current, next)
    /\ CheckCombination(next)

Merged_CallerWins(current, next) ==
    [next EXCEPT !.pu = KeptUpdate(current, next, next.pr),
                 !.seen = Later(next.seen, current.seen)]

Merged_CallerObserved(current, next) ==
    LET reclaim == UnderReclaim(current, next)
        pr      == reclaim \/ next.pr
    IN  [next EXCEPT
            !.pr       = pr,
            !.deadline = IF reclaim THEN current.deadline ELSE next.deadline,
            !.pu       = KeptUpdate(current, next, pr)]

Merged(current, next) ==
    LET reclaim == UnderReclaim(current, next)
        pr      == reclaim \/ next.pr
    IN  [next EXCEPT
            !.pr       = pr,
            !.deadline = IF reclaim THEN current.deadline ELSE next.deadline,
            !.pu       = KeptUpdate(current, next, pr),
            !.seen     = Later(next.seen, current.seen)]

(***************************************************************************)
(* Transition.RequestRelease: the write is built from the current row, so  *)
(* it cannot carry anything stale.  A second request changes nothing.      *)
(***************************************************************************)
RequestRelease(current) ==
    IF current.pr \/ current.inst = "RELEASED" THEN current
    ELSE [current EXCEPT !.pr = TRUE, !.deadline = TRUE, !.pu = NoUpdate]

(***************************************************************************)
(* Transition.Reoffer: the only way out of RELEASED, to a distinct lease.  *)
(***************************************************************************)
AcceptsReoffer(current, next) ==
    /\ current.inst = "RELEASED" /\ current.svc = "NONE" /\ ~current.pr
    /\ next.inst = "ALLOCATING" /\ next.svc = "NONE" /\ next.role = NoRole /\ ~next.pr
    /\ next.ident # current.ident

Reoffered(current, next) ==
    [next EXCEPT !.seen = Later(next.seen, current.seen)]

(***************************************************************************)
(* Transition.ApplyPendingUpdate: the drained row takes the identity that  *)
(* is pending in the database, not the one in the caller's copy.           *)
(***************************************************************************)
AcceptsUpdate(current, next) ==
    /\ HasUpdate(current)
    /\ ~current.pr
    /\ current.svc = "DRAINING" /\ next.svc = "NONE" /\ next.inst = "PREPARING"
    /\ ValidateTransition(current, next)
    /\ CheckCombination(next)

Updated_StillPending(current, next) ==
    [next EXCEPT !.ident = current.pu.ident,
                 !.seen  = Later(current.pu.at, current.seen),
                 !.pu    = current.pu]

Updated(current, next) ==
    [next EXCEPT !.ident = current.pu.ident,
                 !.seen  = Later(current.pu.at, current.seen),
                 !.pu    = NoUpdate]
=============================================================================
