----------------------------- MODULE MCProvision -----------------------------
(***************************************************************************)
(* Setups for TLC: one request whose first name may be taken, over SSH or  *)
(* with a bootstrap of its own, with crashes, faults and a cancel; two     *)
(* requests for one name, as two calls on the console may give, in either  *)
(* way; and one whose next name is the name of the other.                  *)
(***************************************************************************)
EXTENDS Provision, TLC

CONSTANTS r1, r2

One(way, used, c) ==
    [ladder |-> r1 :> <<"a", "b">>, path |-> r1 :> way, taken |-> used, fresh |-> "queued",
     crashes |-> c, faults |-> 1, cancels |-> 1]
Two(way, other, used, c, x) ==
    [ladder |-> (r1 :> <<"a", "b">>) @@ (r2 :> <<other>>), path |-> [r \in {r1, r2} |-> way],
     taken |-> used, fresh |-> "running", crashes |-> c, faults |-> 0, cancels |-> x]

MCSetups ==
    { One("ssh", {"a"}, 2), One("ssh", {}, 2), One("self", {}, 2),
      Two("ssh", "a", {}, 1, 0), Two("ssh", "a", {}, 0, 1), Two("ssh", "b", {"a"}, 1, 0),
      Two("self", "a", {}, 1, 1) }
=============================================================================
