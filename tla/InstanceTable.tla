---------------------------- MODULE InstanceTable ----------------------------
(***************************************************************************)
(* What the capacity_instances table promises about one row, whoever       *)
(* writes it and however stale the copy was it wrote from: the row moves   *)
(* only by the four kinds of write that ApplyTransition (sqlite.go) knows. *)
(* Lifecycle implements this specification.                                *)
(*                                                                         *)
(* The stored row determines the step, so no step names the request it     *)
(* came from: merging is idempotent (MergeIdempotent in                    *)
(* InstanceTable_proofs), hence a row that some request produced is also   *)
(* the row that writing itself would produce.                              *)
(***************************************************************************)
EXTENDS Store

VARIABLE row

Init == row = FreshRow(1)

\* The columns are typed.
TypeOK == row \in Row

\* An ordinary transition.
Write ==
    /\ row' \in Row
    /\ Accepts(row, row')
    /\ row' = Merged(row, row')

\* Transition.RequestRelease
Request == row' = RequestRelease(row)

\* Transition.Reoffer
Offer ==
    /\ row' \in Row
    /\ AcceptsReoffer(row, row')
    /\ row' = Reoffered(row, row')

\* Transition.ApplyPendingUpdate
ApplyUpdate ==
    /\ row' \in Row
    /\ AcceptsUpdate(row, row')
    /\ row' = Updated(row, row')

Next == Write \/ Request \/ Offer \/ ApplyUpdate

Spec == Init /\ [][Next]_row

-----------------------------------------------------------------------------
(***************************************************************************)
(* CheckCombination guards every write (sqlite.go:617), and the request    *)
(* and the reoffer write rows that satisfy it: no container state is ever  *)
(* stored with a service state that cannot accompany it.                   *)
(***************************************************************************)
LegalRow == CheckCombination(row)

(***************************************************************************)
(* A reclaim request outlives every write but the one that records         *)
(* RELEASED (sqlite.go:574-586): until then it is not forgotten, the row   *)
(* keeps the identity it was requested for and the deadline it was given,  *)
(* and no stale writer brings the service back up, unless the container is *)
(* LOST and the state stored is only what was last known of it.            *)
(***************************************************************************)
ReclaimSticky ==
    [][row.pr /\ row'.inst # "RELEASED" =>
          /\ row'.pr
          /\ row'.ident = row.ident
          /\ row'.deadline = row.deadline
          /\ row'.svc \in LiveService => row'.inst = "LOST"]_row

(***************************************************************************)
(* RELEASED is final for the lease it ended: the row leaves it only when   *)
(* the partner offers the instance under another lease (sqlite.go:553-563),*)
(* and then starts from the beginning.                                     *)
(***************************************************************************)
ReleasedIsFinal ==
    [][row.inst = "RELEASED" /\ row'.inst # "RELEASED" =>
          /\ row'.ident # row.ident
          /\ row'.inst = "ALLOCATING" /\ row'.svc = "NONE" /\ ~row'.pr]_row

(***************************************************************************)
(* Partner observations arrive without the instance lock; a writer with an *)
(* older copy never takes one back (sqlite.go:622-635).                    *)
(***************************************************************************)
ObservationsMoveForward == [][row'.seen >= row.seen]_row
=============================================================================
