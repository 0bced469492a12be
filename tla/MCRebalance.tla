----------------------------- MODULE MCRebalance -----------------------------
(***************************************************************************)
(* Small pools for TLC.  A setup fixes the tuning, the modes and loads the *)
(* run may meet, and the pool it starts with.                              *)
(***************************************************************************)
EXTENDS Rebalance

Tuned(change, serving, capacity, paced) ==
    [maxChange |-> change, maxServing |-> serving, capacity |-> capacity,
     minHold |-> paced, cooldown |-> paced]

Cold       == <<"idle", "idle", "idle", "absent">>
TwoPlusOne == <<"prefill", "prefill", "decode", "absent">>
OneEach    == <<"prefill", "decode", "absent", "released">>
Spare      == <<"prefill", "prefill", "decode", "idle">>

MCSetups == {
    \* a cold start behind a gate of one slot
    [conf |-> Tuned(3, 0, FALSE, FALSE), slots |-> 1, modes |-> {"fixed"}, gears |-> {1},
     loads |-> {"none"}, pool |-> Cold, faults |-> 1, switches |-> 0],
    \* from one shape of deployment to the other and back
    [conf |-> Tuned(1, 0, FALSE, TRUE), slots |-> 1, modes |-> {"fixed", "aggregated"}, gears |-> {2},
     loads |-> {"none"}, pool |-> OneEach, faults |-> 0, switches |-> 1],
    \* a pool larger than max_serving, and the gear changed by hand
    [conf |-> Tuned(2, 3, FALSE, FALSE), slots |-> 1, modes |-> {"fixed"}, gears |-> {1, 3},
     loads |-> {"none"}, pool |-> Spare, faults |-> 1, switches |-> 1],
    \* the ladder
    [conf |-> Tuned(2, 0, FALSE, FALSE), slots |-> 1, modes |-> {"auto"}, gears |-> {2},
     loads |-> {"prefill", "decode"}, pool |-> TwoPlusOne, faults |-> 0, switches |-> 0],
    \* the ladder and the partner
    [conf |-> Tuned(1, 0, TRUE, FALSE), slots |-> 1, modes |-> {"auto"}, gears |-> {1},
     loads |-> {"decode", "idleBoth"}, pool |-> OneEach, faults |-> 1, switches |-> 0]}

\* An idle pool that may change two workers in a round.
MCLast == {
    [conf |-> Tuned(2, 0, TRUE, FALSE), slots |-> 1, modes |-> {"auto"}, gears |-> {1},
     loads |-> {"idlePrefill"}, pool |-> TwoPlusOne, faults |-> 0, switches |-> 0]}
=============================================================================
