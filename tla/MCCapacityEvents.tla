-------------------------- MODULE MCCapacityEvents --------------------------
(***************************************************************************)
(* CapacityEvents for TLC: the constants get their values in the .cfg      *)
(* files.  Addresses and API requests are interchangeable, instances are   *)
(* ordered by their ids.                                                   *)
(***************************************************************************)
EXTENDS CapacityEventsProperties, TLC

Symmetry ==
    Permutations(Address) \cup Permutations(Executor \ {Reconciler, Puller})

(***************************************************************************)
(* A narrow search: two containers are offered, then pulls go on without   *)
(* lifecycle operations or replay, and at last the first is confirmed.     *)
(* What TLC finds under it is a behaviour of Spec.                         *)
(***************************************************************************)
LatePush ==
    /\ \A i \in Instance : lock[i] # Owner
    /\ exec[Reconciler] = Idle /\ replay.todo = {}
    /\ \A e \in sent : IF e.kind = "ADDED" THEN e.at = e.inst
                         ELSE e.inst = 1 /\ e.at = MaxTime
    /\ now > Cardinality(Instance) => Cardinality(sent) >= Cardinality(Instance)
    /\ \A e \in DOMAIN log : e.src = "push" => e.kind = "UPDATED"
=============================================================================
