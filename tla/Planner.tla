------------------------------- MODULE Planner -------------------------------
(***************************************************************************)
(* The decision of one planner round, internal/planner/planner.go, as      *)
(* operators: what Plan returns for the population and the load it is      *)
(* given.  Rebalance gives it the rows and carries out the actions.        *)
(*                                                                         *)
(* Notes, reasons and the fields of a decision that only the console reads *)
(* are left out.  Instances are numbers, because ids are compared.  Times  *)
(* are left out for what is read from them: the order in which the roles   *)
(* were assigned, and which assignments are younger than min_hold.         *)
(***************************************************************************)
EXTENDS Integers, Sequences, SequencesExt

PD      == {"prefill", "decode"}
PDRoles == PD \cup {"regular"}
Other(r) == IF r = "prefill" THEN "decode" ELSE "prefill"

Mode == {"fixed", "auto", "aggregated"}

(***************************************************************************)
(* gearLadder: the gears in ascending prefill share.  A gear is its rung.  *)
(***************************************************************************)
Gears == << [p |-> 1, of |-> 3], [p |-> 1, of |-> 2], [p |-> 2, of |-> 3] >>
Gear  == DOMAIN Gears

(***************************************************************************)
(* What the two pressures and the queues tell apart: no complete sample,   *)
(* requests queueing with the gap outside the dead band on one side,       *)
(* everything idle (and which role is the less loaded), or neither.        *)
(***************************************************************************)
Load == {"none", "level", "prefill", "decode", "idlePrefill", "idleDecode", "idleBoth"}
Pressed(load) == load \in PD
Idling(load)  == load \in {"idlePrefill", "idleDecode", "idleBoth"}

(***************************************************************************)
(* The input of a round:                                                   *)
(*   conf                 maxChange, maxServing (0: none), capacity        *)
(*   mode, gear           the active mode and the gear the round starts at *)
(*   role                 the role of every candidate that holds a service *)
(*   order                those candidates, oldest assignment first        *)
(*   held                 those whose assignment is younger than min_hold  *)
(*   idle, recovering     the other two buckets                            *)
(*   provisioning         capacity requested and not delivered             *)
(***************************************************************************)
Number(in, r) == Cardinality({i \in DOMAIN in.role : in.role[i] = r})
ServingPD(in) == Number(in, "prefill") + Number(in, "decode")

\* The members of S that occur in s, in their order, and all of S in ascending
\* order: the element that has k - 1 smaller ones is the k-th.
Only(s, S) == FoldLeft(LAMBDA kept, i : IF i \in S THEN Append(kept, i) ELSE kept, <<>>, s)

Sorted(S) ==
    [k \in 1..Cardinality(S) |-> CHOOSE i \in S : Cardinality({j \in S : j < i}) = k - 1]

Act(kind, id, role) == [kind |-> kind, id |-> id, role |-> role]

Touched(acts, i) == \E a \in Range(acts) : a.id = i     \* alreadyPlanned
Full(in, acts)   == Len(acts) >= in.conf.maxChange

movable(in) == Only(in.order, DOMAIN in.role \ in.held)

Untouched(in, acts) == Only(movable(in), {i \in DOMAIN in.role : ~Touched(acts, i)})

nextConversion(in, acts, from) ==
    Only(movable(in), {i \in DOMAIN in.role : in.role[i] = from /\ ~Touched(acts, i)})

(***************************************************************************)
(* autoStep: one rung towards the role under pressure, if there is one.    *)
(***************************************************************************)
stepGear(gear, load) == CASE load = "prefill" -> gear + 1
                          [] load = "decode"  -> gear - 1
                          [] OTHER            -> gear

autoStep(gear, load) == IF stepGear(gear, load) \in Gear THEN stepGear(gear, load) ELSE gear

Capped(in, n) == IF in.conf.maxServing = 0 THEN n ELSE Min({n, in.conf.maxServing})

(***************************************************************************)
(* The targets of a disaggregated pool: the share rounded down, and both   *)
(* roles present as soon as there are two instances.                       *)
(***************************************************************************)
Total(in) == Capped(in, ServingPD(in) + Cardinality(in.idle))

TargetPrefill_Rounded(n, gear) == (n * Gears[gear].p) \div Gears[gear].of
TargetPrefill(n, gear) ==
    LET share == (n * Gears[gear].p) \div Gears[gear].of
    IN  IF n >= 2 THEN Max({1, Min({n - 1, share})}) ELSE share

Target(in, gear) ==
    [prefill |-> TargetPrefill(Total(in), gear),
     decode  |-> Total(in) - TargetPrefill(Total(in), gear)]

(***************************************************************************)
(* A round accumulates the actions it planned and the number of workers    *)
(* each role will have after them.                                         *)
(***************************************************************************)
Repeat(n, op(_), acc) == FoldLeft(LAMBDA x, k : op(x), acc, [k \in 1..n |-> k])

\* A worker without --disaggregation-mode has no place in a P/D pool.
DrainRegulars(in) ==
    LET regulars == nextConversion(in, <<>>, "regular")
    IN  [k \in 1..Min({Len(regulars), in.conf.maxChange}) |-> Act("DRAIN", regulars[k], "regular")]

(***************************************************************************)
(* capacityStep.  provisionStep asks for an instance of the role the       *)
(* ladder cannot help any more; releaseStep offers one back from an idle   *)
(* pool, an unassigned one first, else one of the less loaded role.        *)
(***************************************************************************)
provisionStep(in, gear) ==
    IF Pressed(in.load) /\ stepGear(gear, in.load) \notin Gear /\ in.order # <<>>
    THEN <<Act("PROVISION", 0, in.load)>> ELSE <<>>

\* Whatever is not a prefill worker counts as a decode worker here.
Prefills(in) == Number(in, "prefill")
Decodes(in)  == Cardinality(DOMAIN in.role) - Prefills(in)

LessLoaded(in) ==
    IF in.load = "idleDecode" \/ (in.load = "idleBoth" /\ Decodes(in) >= Prefills(in))
    THEN "decode" ELSE "prefill"

releaseStep(in, acts) ==
    LET role  == LessLoaded(in)
        count == IF role = "decode" THEN Decodes(in) ELSE Prefills(in)
        free  == nextConversion(in, acts, role)
    IN  CASE ~Idling(in.load) -> <<>>
          [] Idling(in.load) /\ in.idle # {} -> <<Act("RELEASE", Min(in.idle), "none")>>
          [] OTHER ->
                IF Prefills(in) > 0 /\ Decodes(in) > 0 /\ count > 1 /\ free # <<>>
                THEN <<Act("RELEASE", free[1], role)>> ELSE <<>>

capacityStep(in, gear, acts, rungMoved) ==
    IF \/ in.load = "none" \/ in.provisioning > 0 \/ in.recovering # {} \/ Full(in, acts)
    THEN <<>>
    ELSE IF rungMoved \/ provisionStep(in, gear) = <<>>
         THEN releaseStep(in, acts) ELSE provisionStep(in, gear)

(***************************************************************************)
(* Surplus beyond max_serving: the oldest movable worker of a role above   *)
(* its target, else the oldest movable worker there is.                    *)
(***************************************************************************)
DrainOne(in, target, acc) ==
    LET free == Untouched(in, acc.acts)
        over == Only(free, {i \in DOMAIN in.role :
                               in.role[i] \in PD /\ acc.n[in.role[i]] > target[in.role[i]]})
        i    == IF over # <<>> THEN over[1] ELSE free[1]
        r    == IF in.role[i] = "prefill" THEN "prefill" ELSE "decode"
    IN  IF Full(in, acc.acts) \/ free = <<>> THEN acc
        ELSE [acts |-> Append(acc.acts, Act("DRAIN", i, in.role[i])),
              n    |-> [acc.n EXCEPT ![r] = @ - 1]]

Drained(in, target, start) ==
    Repeat(ServingPD(in) - Total(in), LAMBDA acc : DrainOne(in, target, acc), start)

\* Phase 1: an idle instance fills the prefill deficit first.
AssignOne(in, target, acc, i) ==
    LET r == IF acc.n.prefill < target.prefill THEN "prefill" ELSE "decode"
    IN  IF Full(in, acc.acts) \/ acc.n.prefill + acc.n.decode >= Total(in) THEN acc
        ELSE [acts |-> Append(acc.acts, Act("ASSIGN", i, r)),
              n    |-> [acc.n EXCEPT ![r] = @ + 1]]

Assigned(in, target, start) ==
    FoldLeft(LAMBDA acc, i : AssignOne(in, target, acc, i), start, Sorted(in.idle))

(***************************************************************************)
(* Phase 2: convert the oldest movable worker of the other role.  It is    *)
(* refused for the last one, and a deficit that cannot be filled is        *)
(* written off for this round.                                             *)
(***************************************************************************)
Convert_Last(in, target, acc, to) ==
    LET from == Other(to)
        free == nextConversion(in, acc.acts, from)
    IN  IF free # <<>>
        THEN [acts |-> Append(acc.acts, Act("REASSIGN", free[1], to)),
              n    |-> [acc.n EXCEPT ![to] = @ + 1, ![from] = @ - 1]]
        ELSE [acc EXCEPT !.n[to] = target[to]]
Convert(in, target, acc, to) ==
    LET from == Other(to)
        free == nextConversion(in, acc.acts, from)
    IN  IF free # <<>> /\ acc.n[from] > 1
        THEN [acts |-> Append(acc.acts, Act("REASSIGN", free[1], to)),
              n    |-> [acc.n EXCEPT ![to] = @ + 1, ![from] = @ - 1]]
        ELSE [acc EXCEPT !.n[to] = target[to]]

ConvertOne(in, target, acc) ==
    IF Full(in, acc.acts)                    THEN acc
    ELSE IF acc.n.prefill < target.prefill   THEN Convert(in, target, acc, "prefill")
    ELSE IF acc.n.decode < target.decode     THEN Convert(in, target, acc, "decode")
    ELSE acc

\* Every conversion takes a place in the round and is followed by at most one
\* deficit that is written off; two more may be written off at the end.
Conversions(in) == 2 * in.conf.maxChange + 2

Converted(in, target, start) ==
    Repeat(Conversions(in), LAMBDA acc : ConvertOne(in, target, acc), start)

PlanPD(in, gear, rungMoved) ==
    LET target    == Target(in, gear)
        regulars  == DrainRegulars(in)
        capacity  == IF in.conf.capacity /\ in.mode = "auto"
                     THEN capacityStep(in, gear, regulars, rungMoved) ELSE <<>>
        start     == [acts |-> regulars \o capacity,
                      n    |-> [prefill |-> Number(in, "prefill"), decode |-> Number(in, "decode")]]
    IN  Converted(in, target, Assigned(in, target, Drained(in, target, start))).acts

(***************************************************************************)
(* planAggregated: one kind of worker on every instance up to the cap.     *)
(***************************************************************************)
TargetRegular(in) == Capped(in, Cardinality(DOMAIN in.role) + Cardinality(in.idle))

RetireOne(in, acc, i) ==
    IF Full(in, acc.acts) THEN acc
    ELSE IF acc.surplus > 0
         THEN [acts |-> Append(acc.acts, Act("DRAIN", i, in.role[i])), surplus |-> acc.surplus - 1]
    ELSE IF in.role[i] # "regular"
         THEN [acc EXCEPT !.acts = Append(@, Act("DRAIN", i, in.role[i]))]
    ELSE acc

Retired(in, start) == FoldLeft(LAMBDA acc, i : RetireOne(in, acc, i), start, movable(in))

planAggregated(in) ==
    LET target  == TargetRegular(in)
        surplus == Cardinality(DOMAIN in.role) + Cardinality(in.idle) - target
        retired == Retired(in, [acts |-> <<>>, surplus |-> surplus]).acts
        regular == Cardinality({i \in DOMAIN in.role : in.role[i] = "regular" /\ ~Touched(retired, i)})
        places  == Max({0, Min({target - regular, in.conf.maxChange - Len(retired), Cardinality(in.idle)})})
    IN  retired \o [k \in 1..places |-> Act("ASSIGN", Sorted(in.idle)[k], "regular")]

(***************************************************************************)
(* Plan, of a round that no cooldown holds back: the gear it used, and the *)
(* actions in the order they are carried out.  The ladder moves first and  *)
(* the rest of the round uses the rung it moved to.                        *)
(***************************************************************************)
Plan(in) ==
    LET gear == IF in.mode = "auto" THEN autoStep(in.gear, in.load) ELSE in.gear
    IN  [gear |-> gear,
         acts |-> IF in.mode = "aggregated" THEN planAggregated(in)
                  ELSE PlanPD(in, gear, gear # in.gear)]
=============================================================================
