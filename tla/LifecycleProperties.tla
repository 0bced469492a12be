------------------------- MODULE LifecycleProperties -------------------------
(***************************************************************************)
(* What has to hold of Lifecycle.  The runs of MCLifecycle check these on  *)
(* small instances; Lifecycle_proofs proves TypeOK and the properties that *)
(* come from InstanceTable for every instance.                             *)
(***************************************************************************)
EXTENDS Lifecycle

(***************************************************************************)
(* The row of Lifecycle is a row of the instance table.                    *)
(***************************************************************************)
Table == INSTANCE InstanceTable WITH row <- row, Role <- Role, NoRole <- NoRole

\* Every goroutine, however stale its copy, writes the row only in the ways
\* ApplyTransition (sqlite.go:507-652) allows: Lifecycle implements the table.
ImplementsTable == Table!Spec

\* No interleaving stores a pair of states that cannot accompany each other
\* (state.go:188-240), in particular no live service in a container that is
\* being prepared, released or reoffered.
LegalRow == Table!LegalRow

\* A reclaim request is not lost by a start, drain, repair or release that was
\* already on its way with an older copy of the row (sqlite.go:574-586).
ReclaimSticky == Table!ReclaimSticky

\* A released instance comes back only under another lease (sqlite.go:553-563),
\* whatever an overlapping round or an unlocked release still has in flight.
ReleasedIsFinal == Table!ReleasedIsFinal

\* The newest partner observation is never taken back by a writer with an older
\* copy (sqlite.go:622-635).
ObservationsMoveForward == Table!ObservationsMoveForward

-----------------------------------------------------------------------------
(***************************************************************************)
(* The instance lock.                                                      *)
(***************************************************************************)
Carried(r) == [inst |-> r.inst, svc |-> r.svc, role |-> r.role,
               ident |-> r.ident, start |-> r.start, parked |-> r.parked]

\* Where the holder of the lock is going to write the row from its copy.  A
\* start that is condemned without an owner (reconcile.go:352) is written from
\* the snapshot of the round and is not one of them.
Owning(t) ==
    \/ thread[t].pc \in {"prepared", "prepfail", "launch", "health", "healthy",
                         "registering", "restarting", "drained", "drainfail", "lost"}
    \/ thread[t].pc = "fail" /\ thread[t].why # ""

\* instanceOperation(id) serialises the operations of an instance: across the
\* network calls of a start, a preparation or a drain, the copy of whoever holds
\* the lock stays true of the row, so the whole-row write that follows erases
\* nothing.  Only reclaim requests, which the store merges, get in between.
OwnerIsCurrent ==
    \A t \in Thread :
        lock = t /\ Owning(t) => Carried(thread[t].copy) = Carried(row)

-----------------------------------------------------------------------------
(***************************************************************************)
(* Traffic.                                                                *)
(***************************************************************************)

\* A draining worker takes no new traffic: readiness is closed before DRAINING
\* is recorded (lifecycle.go:954), also when the start that opened it crashed or
\* was cancelled before its worker id reached the row.
DrainingIsClosed == row.svc = "DRAINING" => ~mem[row.ident].ready

\* A worker in service is registered under the role it was given and its process
\* runs that role (lifecycle.go:468-547), although the Router keeps memberships
\* and the container keeps processes from earlier assignments.
ServedRoleMatches ==
    row.svc = "SERVING" =>
        /\ mem[row.ident].listed => mem[row.ident].type = row.role
        /\ proc[row.ident].phase = "RUNNING" => proc[row.ident].role = row.role

\* Once the row has taken a new identity, nothing is routed to the container it
\* left (events.go:363-376: the old worker is drained before the identity moves).
LeftBehindClosed == \A i \in Ident : i < row.ident => ~mem[i].ready

-----------------------------------------------------------------------------
(***************************************************************************)
(* Processes and containers.                                               *)
(***************************************************************************)

\* An idle instance without a service has no model process holding its cards:
\* finishDrain records NONE only after the stop was confirmed (lifecycle.go:1120),
\* and a failed start keeps its role until the process is adopted or gone.
IdleMeansStopped ==
    row.inst = "IDLE" /\ row.svc = "NONE" => proc[row.ident].phase # "RUNNING"

\* "The container is only handed back after the service exited"
\* (lifecycle.go:1183): no container is returned while its process runs.
HandedBackStopped ==
    [][held /\ ~held' /\ (\E t \in Thread : thread[t].pc = "return")
         => proc[issued].phase # "RUNNING"]_vars

\* The container the row left behind was stopped first: probes, load checks and
\* stop calls keep using the old identity until drained (events.go:363-364).
LeftBehindStopped == \A i \in Ident : i < row.ident => proc[i].phase # "RUNNING"

\* The partner issues identities one after another and the row follows them: no
\* write brings back an endpoint or lease the partner has replaced.
IdentityMovesForward == [][row'.ident # row.ident => row'.ident > row.ident]_row

-----------------------------------------------------------------------------
(***************************************************************************)
(* The start budget.                                                       *)
(***************************************************************************)

\* start_max_attempts and start_retry_max_rearms bound what planner, reconciler,
\* cooldown, operator and Recover start together (lifecycle.go:790-805).
BudgetRespected ==
    /\ row.start <= StartMaxAttempts
    /\ row.rearms <= StartRetryMaxRearms

\* A parked instance carries the stamp the cooldown is counted from
\* (lifecycle.go:724-737); without it nothing would ever re-arm it.
ParkedIsStamped == Parked(row) /\ ~row.pr => row.parked

-----------------------------------------------------------------------------
(***************************************************************************)
(* Progress, under FairSpec.                                               *)
(***************************************************************************)

\* A reclaim, once requested, ends with the container returned, through crashes,
\* failed Router, bootstrap and partner calls ("the next round [is allowed] to
\* retry closing readiness before attempting stop", reclaim.go:71-72).
ReclaimCompletes == row.pr ~> row.inst = "RELEASED"

\* A queued identity change is eventually applied, or overtaken by a reclaim: the
\* drain that has to come first is not wedged (lifecycle.go:1101-1106).
UpdateApplied == HasUpdate(row) ~> ~HasUpdate(row)

\* No start stays in limbo: it ends in service, drained, parked for the operator
\* or under reclaim, also if its owner was lost to a restart or a cancelled call
\* (reconcile.go:318-345).
StartSettles ==
    row.svc \in {"STARTING", "HEALTHY", "REGISTERING", "FAILED"}
        ~> row.svc \in {"SERVING", "NONE"} \/ Parked(row) \/ row.pr

\* A drain that has begun runs to its end: nobody takes the instance out of
\* DRAINING again but the drain itself.
DrainRunsToItsEnd ==
    [][row.svc = "DRAINING" => row'.svc \in {"DRAINING", "NONE"}]_row
=============================================================================
