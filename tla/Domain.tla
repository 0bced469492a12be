------------------------------- MODULE Domain -------------------------------
(***************************************************************************)
(* The state graph of internal/domain/state.go: the container states, the  *)
(* service states, the edges between them and the pairs that may be stored *)
(* together.  Constant-level: the store and the controller build on it.    *)
(*                                                                         *)
(* An operator named X_Variant is X with a plausible bug: it shows that a  *)
(* property would notice the bug, and no specification uses it.            *)
(***************************************************************************)
CONSTANTS
    Role,       \* the roles a worker can be assigned (prefill, decode, regular)
    NoRole      \* domain.RoleNone: the role column is empty

ASSUME RoleAssumption == NoRole \notin Role

AnyRole == Role \cup {NoRole}

InstanceState ==
    {"ALLOCATING", "PREPARING", "IDLE", "RELEASING", "RELEASED", "LOST"}

ServiceState ==
    {"NONE", "STARTING", "HEALTHY", "REGISTERING", "SERVING", "DRAINING", "FAILED"}

\* The service states of a model process the controller is driving upwards.
LiveService == {"STARTING", "HEALTHY", "REGISTERING", "SERVING"}

(***************************************************************************)
(* The edges a container may take, self-loops left out.                    *)
(***************************************************************************)
instanceTransitions_Reopened ==
    [ALLOCATING |-> {"PREPARING", "RELEASING", "LOST"},
     PREPARING  |-> {"IDLE", "RELEASING", "LOST"},
     IDLE       |-> {"PREPARING", "RELEASING", "LOST"},
     RELEASING  |-> {"RELEASED", "LOST"},
     RELEASED   |-> {"PREPARING"},
     LOST       |-> {"PREPARING", "RELEASING", "RELEASED"}]

instanceTransitions ==
    [ALLOCATING |-> {"PREPARING", "RELEASING", "LOST"},
     PREPARING  |-> {"IDLE", "RELEASING", "LOST"},
     IDLE       |-> {"PREPARING", "RELEASING", "LOST"},
     RELEASING  |-> {"RELEASED", "LOST"},
     RELEASED   |-> {},
     LOST       |-> {"PREPARING", "RELEASING", "RELEASED"}]

serviceTransitions ==
    [NONE        |-> {"STARTING"},
     STARTING    |-> {"HEALTHY", "FAILED", "DRAINING"},
     HEALTHY     |-> {"REGISTERING", "FAILED", "DRAINING"},
     REGISTERING |-> {"SERVING", "FAILED", "DRAINING"},
     SERVING     |-> {"DRAINING", "FAILED"},
     DRAINING    |-> {"NONE", "FAILED"},
     FAILED      |-> {"NONE", "STARTING", "DRAINING"}]

\* Writing the state that is already there is always allowed.
CanTransitionInstance(from, to) == from = to \/ to \in instanceTransitions[from]

CanTransitionService(from, to) == from = to \/ to \in serviceTransitions[from]

(***************************************************************************)
(* Both halves of a row have to follow an edge.                            *)
(***************************************************************************)
ValidateTransition(current, next) ==
    /\ CanTransitionInstance(current.inst, next.inst)
    /\ CanTransitionService(current.svc, next.svc)

(***************************************************************************)
(* Which service state may accompany a container state.  A service that is *)
(* running or draining needs a role; LOST accepts every service state (the *)
(* code raises an alert and stores it).                                    *)
(***************************************************************************)
CheckCombination(row) ==
    /\ row.svc \in LiveService \cup {"DRAINING"} => row.role \in Role
    /\ row.inst \in {"ALLOCATING", "RELEASED"} => row.svc = "NONE"
    /\ row.inst = "PREPARING" => row.svc \in {"NONE", "FAILED"}
    /\ row.inst = "RELEASING" => row.svc \notin LiveService
=============================================================================
