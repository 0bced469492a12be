--------------------------- MODULE Provision_proofs ---------------------------
(***************************************************************************)
(* What holds of the creation of containers for every set of requests and  *)
(* names, every rename ladder and any number of crashes, faults and        *)
(* cancels.                                                                *)
(*                                                                         *)
(* The invariant says what is typed (Typed, Named), that no record and no  *)
(* pipeline knows a container that was not asked for (Known), that a       *)
(* resumed job is touched by nobody before its pipeline begins             *)
(* (ResumedAlone), that a request which was not accepted yet appears in no *)
(* record (Unused), and what onboarding has (Onboarded).  The second part  *)
(* counts who may still ask for a container (CInv).                        *)
(***************************************************************************)
EXTENDS Provision, SequenceTheorems, FiniteSetTheorems, TLAPS

Req  == DOMAIN setup.ladder
Slip == [state : State, key : Nat, box : Nat, req : Req] \cup {None}

Pipeline ==
    [pc : Pc, name : Name \cup {"none"}, try : Nat \ {0}, box : Nat, seen : BOOLEAN, ctx : BOOLEAN,
     req : Req \cup {"none"}, save : Slip]

Status    == {"queued", "placed", "running", "failed", "released", "gone"}
Container == [name : Name, req : Req, st : Status]

Typed ==
    /\ setup \in Setups /\ crashes \in Nat
    /\ api \in [Request -> {"new", "checked", "done", "refused"}]
    /\ job \in [Name -> Slip] /\ row \in [Name -> Slip]
    /\ pipe \in [Thread -> Pipeline]
    /\ op \in [pc : {"idle", "cancel", "save"}, name : Name \cup {"none"}, save : Slip]
    /\ box \in Seq(Container)

\* A pipeline that runs, or has yet to store, is that of a name; one that was
\* resumed keeps the name it was resumed for.
Busy(x) == x.pc # "none" \/ x.save # None

Named ==
    /\ \A t \in Thread : /\ Busy(pipe[t]) => pipe[t].name \in Name
                         /\ pipe[t].pc # "none" => pipe[t].req \in Req
    /\ \A n \in Name : Busy(pipe[n]) => pipe[n].name = n
    /\ op.pc # "idle" => op.name \in Name

Placed  == {"wait", "await", "submit", "enrol", "abandon"}
Fits(x) == x.key <= Len(box) /\ x.box <= Len(box)

Known ==
    /\ \A n \in Name : Fits(job[n]) /\ Fits(row[n])
    /\ \A t \in Thread : /\ Fits(pipe[t].save)
                         /\ pipe[t].box <= Len(box)
                         /\ pipe[t].pc \in Placed => pipe[t].box # 0
    /\ Fits(op.save)

Same(x, n) == x.key = row[n].key /\ x.box = row[n].box

Alone(n) ==
    /\ Tracked(n) /\ pipe[n].save = None /\ Same(job[n], n)
    /\ pipe[n].box = IF row[n].box = 0 THEN row[n].key ELSE row[n].box
    /\ \A r \in Request : Busy(pipe[r]) => pipe[r].name # n
    /\ \A r \in Req : api[r] = "checked" => setup.ladder[r][1] # n
    /\ op.pc = "save" /\ op.name = n => Same(op.save, n)

ResumedAlone == \A n \in Name : pipe[n].pc = "begin" => Alone(n)

Unused ==
    \A r \in Request : api[r] # "done" =>
        /\ \A n \in Name : job[n].req # r /\ row[n].req # r
        /\ \A t \in Thread : pipe[t].save.req # r
        /\ op.save.req # r

Entry ==
    [name : Name, box : Nat, st : {"QUEUED", "RUNNING", "MANAGED", "FAILED"}, result : BOOLEAN]

Onboarded ==
    /\ onb \in Seq(Entry)
    /\ \A k \in DOMAIN onb : onb[k].box \in DOMAIN box
    /\ runner \in [pc : {"idle", "install", "enrol", "prepare"}, job : Nat]
    /\ runner.job <= Len(onb) /\ (runner.pc # "idle" => runner.job # 0)
    /\ inst \in [Name -> DOMAIN Enrolled]
    /\ ManagedIsEnrolled

IInv == Typed /\ Named /\ Known /\ ResumedAlone /\ Unused /\ Onboarded

-----------------------------------------------------------------------------
(***************************************************************************)
(* Records, containers and what the constants say.                         *)
(***************************************************************************)
LEMMA Constants ==
    ASSUME setup \in Setups
    PROVE  /\ Req \subseteq Request /\ setup.fresh \in {"queued", "running"}
           /\ \A r \in Req : setup.ladder[r] \in Seq(Name) \ {<<>>}
  BY ProvisionAssumption DEF Req

LEMMA FirstName ==
    ASSUME setup \in Setups, NEW r \in Req
    PROVE  setup.ladder[r][1] \in Name
  BY Constants

LEMMA SlipParts ==
    ASSUME setup \in Setups, NEW x \in Slip
    PROVE  /\ x.key \in Nat /\ x.box \in Nat
           /\ x.req \in Req \cup {"none"}
           /\ x # None => x.req \in Req /\ x.state \in State
  BY DEF Slip, None

LEMMA NoneIsSlip == None \in Slip /\ None.key = 0 /\ None.box = 0 /\ None.req = "none"
  BY DEF Slip, None

LEMMA RecordIsNotNone ==
    ASSUME NEW x, x.state \in State
    PROVE  x # None
  BY DEF None, State

LEMMA WithState ==
    ASSUME NEW x \in Slip, x # None, NEW s \in State, NEW y, y = [x EXCEPT !.state = s]
    PROVE  /\ y \in Slip /\ y.state = s
           /\ y.key = x.key /\ y.box = x.box /\ y.req = x.req
  BY DEF Slip

LEMMA WithKey ==
    ASSUME NEW x \in Slip, x # None, NEW k \in Nat, NEW y, y = [x EXCEPT !.key = k]
    PROVE  /\ y \in Slip /\ y.state = x.state
           /\ y.key = k /\ y.box = x.box /\ y.req = x.req
  BY DEF Slip

LEMMA WithBox ==
    ASSUME NEW x \in Slip, x # None, NEW b \in Nat, NEW y, y = [x EXCEPT !.box = b]
    PROVE  /\ y \in Slip /\ y.state = x.state
           /\ y.key = x.key /\ y.box = b /\ y.req = x.req
  BY DEF Slip

\* The platform keeps what it was asked for.
Grown == box' \in Seq(Container) /\ Len(box') >= Len(box)

LEMMA BoxStays ==
    ASSUME box \in Seq(Container), UNCHANGED <<setup, box>>
    PROVE  Grown
  <1>1. Container' = Container
    BY DEF Container, Req
  <1>2. Len(box) \in Nat
    BY LenProperties
  <1>. QED BY <1>1, <1>2 DEF Grown

\* The containers are the same, in another status, and none comes back.
Moved ==
    /\ box' \in Seq(Container) /\ Len(box') = Len(box)
    /\ \A d \in DOMAIN box : /\ box'[d].name = box[d].name
                             /\ box[d].st = "gone" => box'[d].st = "gone"

LEMMA BoxMoves ==
    ASSUME box \in Seq(Container), UNCHANGED setup, Moved
    PROVE  Grown
  <1>1. Container' = Container
    BY DEF Container, Req
  <1>2. Len(box) \in Nat
    BY LenProperties
  <1>. QED BY <1>1, <1>2 DEF Grown, Moved

\* The platform gives container c another status.
LEMMA StatusMoves ==
    ASSUME box \in Seq(Container), NEW c \in DOMAIN box, box[c].st # "gone",
           NEW st \in Status, box' = [box EXCEPT ![c].st = st]
    PROVE  Moved
  <1>1. DOMAIN box = 1 .. Len(box) /\ Len(box) \in Nat
    BY LenProperties
  <1>2. \A d \in DOMAIN box : box[d] \in Container
    BY <1>1, ElementOfSeq
  <1>3. [box[c] EXCEPT !.st = st] \in Container /\ [box[c] EXCEPT !.st = st].name = box[c].name
    BY <1>2 DEF Container
  <1>4. box' = [box EXCEPT ![c] = [box[c] EXCEPT !.st = st]]
    OBVIOUS
  <1>. HIDE DEF Container
  <1>5. box' \in Seq(Container) /\ Len(box') = Len(box)
    BY <1>1, <1>3, <1>4, ExceptSeq
  <1>6. \A d \in DOMAIN box : box'[d] = IF d = c THEN [box[c] EXCEPT !.st = st] ELSE box[d]
    BY <1>4
  <1>. QED BY <1>3, <1>5, <1>6 DEF Moved

LEMMA ReleasedMoves ==
    ASSUME box \in Seq(Container), NEW c \in DOMAIN box, box' = Released(c)
    PROVE  Moved
  <1>1. DOMAIN box = 1 .. Len(box) /\ Len(box) \in Nat
    BY LenProperties
  <1>2. \A d \in DOMAIN box : box[d] \in Container
    BY <1>1, ElementOfSeq
  <1>3. \A d \in DOMAIN box :
            box'[d] = IF box[d].name = box[c].name /\ IsPod(d) = IsPod(c) /\ box[d].st # "gone"
                      THEN [box[d] EXCEPT !.st = "released"] ELSE box[d]
    BY DEF Released
  <1>4. ASSUME NEW d \in DOMAIN box
        PROVE  /\ box'[d] \in Container /\ box'[d].name = box[d].name
               /\ box[d].st = "gone" => box'[d].st = "gone"
    BY <1>2, <1>3 DEF Container, Status
  <1>5. box' = [d \in 1 .. Len(box) |-> box'[d]]
    BY <1>1 DEF Released
  <1>. HIDE DEF Container
  <1>6. box' \in Seq(Container)
    BY <1>1, <1>4, <1>5
  <1>7. Len(box') = Len(box)
    <2>1. DOMAIN box' = 1 .. Len(box)
      BY <1>1 DEF Released
    <2>. QED BY <1>1, <1>6, <2>1, LenProperties
  <1>. QED BY <1>4, <1>6, <1>7 DEF Moved

LEMMA BoxOrdered ==
    ASSUME box \in Seq(Container), setup \in Setups, UNCHANGED setup,
           NEW n \in Name, NEW r \in Req, NEW st \in {"queued", "placed", "running"},
           box' = Append(box, [name |-> n, req |-> r, st |-> st])
    PROVE  Grown /\ Len(box') = Len(box) + 1
  <1>. DEFINE c == [name |-> n, req |-> r, st |-> st]
  <1>1. Container' = Container
    BY DEF Container, Req
  <1>2. c \in Container
    BY DEF Container, Status
  <1>. HIDE DEF c, Container
  <1>3. Len(box) \in Nat
    BY LenProperties
  <1>4. box' \in Seq(Container) /\ Len(box') = Len(box) + 1
    BY <1>2, AppendProperties DEF c
  <1>. QED BY <1>1, <1>3, <1>4 DEF Grown

-----------------------------------------------------------------------------
(***************************************************************************)
(* What each part of the system leaves alone.  The tracker's part of the   *)
(* invariant asks of the platform only that nothing disappears, and so     *)
(* does the part of onboarding.                                            *)
(***************************************************************************)
JobInv == Typed /\ Named /\ Known /\ ResumedAlone /\ Unused

LEMMA Lengths ==
    ASSUME Typed
    PROVE  /\ Len(box) \in Nat /\ DOMAIN box = 1 .. Len(box)
           /\ \A t \in Thread : pipe[t].box \in Nat
           /\ \A n \in Name : /\ job[n].key \in Nat /\ job[n].box \in Nat
                              /\ row[n].key \in Nat /\ row[n].box \in Nat
           /\ \A t \in Thread : pipe[t].save.key \in Nat /\ pipe[t].save.box \in Nat
           /\ op.save.key \in Nat /\ op.save.box \in Nat
  <1>1. Len(box) \in Nat /\ DOMAIN box = 1 .. Len(box)
    BY LenProperties DEF Typed
  <1>2. \A t \in Thread : pipe[t] \in Pipeline
    BY DEF Typed
  <1>3. \A t \in Thread : pipe[t].box \in Nat /\ pipe[t].save \in Slip
    BY <1>2 DEF Pipeline
  <1>4. op.save \in Slip
    BY DEF Typed
  <1>5. \A n \in Name : job[n] \in Slip /\ row[n] \in Slip
    BY DEF Typed
  <1>6. \A x \in Slip : x.key \in Nat /\ x.box \in Nat
    BY SlipParts DEF Typed
  <1>. QED BY <1>1, <1>3, <1>4, <1>5, <1>6

LEMMA SetsStay ==
    ASSUME UNCHANGED setup
    PROVE  Req' = Req /\ Slip' = Slip /\ Pipeline' = Pipeline /\ Container' = Container
  BY DEF Req, Slip, Pipeline, Container

LEMMA JobsKeep ==
    ASSUME JobInv, UNCHANGED <<setup, jobs, crashes>>, Grown
    PROVE  JobInv'
  <1>. USE DEF JobInv, jobs
  <1>1. Typed'
    BY SetsStay DEF Typed, Grown
  <1>2. Named'
    BY SetsStay DEF Named, Busy
  <1>3. Known'
    <2>1. Len(box') \in Nat /\ Len(box) \in Nat /\ Len(box) <= Len(box')
      BY LenProperties, Lengths DEF Grown
    <2>2. \A n \in Name : Fits(job[n])' /\ Fits(row[n])'
      BY <2>1, Lengths DEF Known, Fits
    <2>3. \A t \in Thread : /\ Fits(pipe[t].save)' /\ pipe'[t].box <= Len(box')
                            /\ pipe'[t].pc \in Placed => pipe'[t].box # 0
      BY <2>1, Lengths DEF Known, Fits
    <2>4. Fits(op.save)'
      BY <2>1, Lengths DEF Known, Fits
    <2>. QED BY <2>2, <2>3, <2>4 DEF Known
  <1>4. ResumedAlone'
    BY SetsStay DEF ResumedAlone, Alone, Tracked, Same, Busy
  <1>5. Unused'
    BY DEF Unused
  <1>. QED BY <1>1, <1>2, <1>3, <1>4, <1>5

LEMMA OnboardingKeeps ==
    ASSUME IInv, UNCHANGED onboarding, Grown
    PROVE  Onboarded'
  <1>1. /\ Len(box) \in Nat /\ DOMAIN box = 1 .. Len(box)
        /\ Len(box') \in Nat /\ DOMAIN box' = 1 .. Len(box') /\ Len(box') >= Len(box)
    BY LenProperties DEF Grown, IInv, Typed
  <1>. QED BY <1>1 DEF IInv, Onboarded, ManagedIsEnrolled, onboarding

(***************************************************************************)
(* A step of the pipeline of t that writes the record of its name: the     *)
(* record it writes, and where it goes on.                                 *)
(***************************************************************************)
Derived(n, rec) ==
    /\ rec \in Slip /\ rec.req \in {job[n].req, "none"}
    /\ rec.key <= Len(box') /\ rec.box <= Len(box')
    /\ Cancelled(n) => rec.state = "CANCELLED"

Onward(t, x) ==
    /\ x \in Pipeline /\ x.name = pipe[t].name
    /\ x.pc # "begin" /\ (x.pc # "none" => x.req \in Req)
    /\ x.box <= Len(box') /\ (x.pc \in Placed => x.box # 0)

\* The operator's decision stands, as CancelHolds has it.
Holds ==
    \A n \in Name : Cancelled(n) =>
        \/ Cancelled(n)'
        \/ \E m \in Name : job'[m] = job[n]
        \/ job'[n].req \notin {job[n].req, "none"}

LEMMA JobsHold ==
    ASSUME UNCHANGED job
    PROVE  Holds
  BY DEF Holds, Cancelled, Tracked

LEMMA WriteKeeps ==
    ASSUME JobInv, NEW t \in Thread, pipe[t].pc # "none",
           NEW rec, NEW x, Derived(pipe[t].name, rec), Onward(t, x), Write(t, rec, x),
           UNCHANGED <<setup, api, row, op, crashes>>, Grown
    PROVE  JobInv' /\ Holds
  <1>. USE ProvisionAssumption DEF JobInv
  <1>. DEFINE n == pipe[t].name
              save == IF Cancelled(n) /\ rec = job[n] THEN None ELSE rec
              y == [x EXCEPT !.save = save]
  <1>1. n \in Name
    BY DEF Named, Busy
  <1>2. rec \in Slip /\ save \in Slip /\ (save = rec \/ save = None)
    BY NoneIsSlip DEF Derived
  <1>3. /\ y \in Pipeline /\ y.pc = x.pc /\ y.name = n /\ y.req = x.req
        /\ y.box = x.box /\ y.save = save
    BY <1>2 DEF Onward, Pipeline
  <1>4. job' = [job EXCEPT ![n] = rec] /\ pipe' = [pipe EXCEPT ![t] = y]
    BY DEF Write
  <1>. HIDE DEF n, save, y
  <1>5. /\ \A m \in Name : job'[m] = IF m = n THEN rec ELSE job[m]
        /\ \A u \in Thread : pipe'[u] = IF u = t THEN y ELSE pipe[u]
    BY <1>1, <1>4 DEF Typed
  <1>6. Typed'
    BY <1>1, <1>2, <1>3, <1>4, SetsStay DEF Typed, Grown
  <1>7. Named'
    <2>1. \A m \in Name : m = t => n = t
      BY DEF Named, Busy, n
    <2>. QED BY <1>1, <1>3, <1>5, <2>1, SetsStay DEF Named, Busy, Onward, Thread
  <1>8. Known'
    <2>1. Len(box') \in Nat
      BY LenProperties DEF Grown
    <2>2. save.key <= Len(box') /\ save.box <= Len(box')
      BY <1>2, <2>1, NoneIsSlip DEF Derived
    <2>3. ASSUME NEW m \in Name
          PROVE  Fits(job[m])' /\ Fits(row[m])'
      BY <2>1, <1>5, Lengths DEF Known, Fits, Grown, Derived
    <2>4. ASSUME NEW u \in Thread
          PROVE  /\ Fits(pipe[u].save)'
                 /\ pipe'[u].box <= Len(box')
                 /\ pipe'[u].pc \in Placed => pipe'[u].box # 0
      <3>1. CASE u = t
        BY <3>1, <1>3, <1>5, <2>2 DEF Fits, Onward
      <3>2. CASE u # t
        BY <3>2, <1>5, <2>1, Lengths DEF Known, Fits, Grown
      <3>. QED BY <3>1, <3>2
    <2>5. Fits(op.save)'
      BY <2>1, Lengths DEF Known, Fits, Grown
    <2>. QED BY <2>3, <2>4, <2>5 DEF Known
  <1>9. ResumedAlone'
    <2>. SUFFICES ASSUME NEW m \in Name, pipe'[m].pc = "begin"
                  PROVE  Alone(m)'
      BY DEF ResumedAlone
    <2>1. m # t /\ pipe'[m] = pipe[m] /\ Alone(m)
      BY <1>3, <1>5 DEF Onward, ResumedAlone, Thread
    <2>2. m # n
      BY <2>1 DEF Alone, Named, Busy, Thread, n
    <2>3. job'[m] = job[m]
      BY <2>2, <1>5
    <2>4. \A r \in Request : Busy(pipe'[r]) => pipe'[r].name # m
      BY <2>1, <2>2, <1>3, <1>5 DEF Alone, Thread
    <2>. QED BY <2>1, <2>3, <2>4, SetsStay DEF Alone, Tracked, Same, Busy
  <1>10. Unused'
    <2>. SUFFICES ASSUME NEW r \in Request, api[r] # "done"
                  PROVE  /\ \A m \in Name : job'[m].req # r /\ row[m].req # r
                         /\ \A u \in Thread : pipe'[u].save.req # r
                         /\ op.save.req # r
      BY DEF Unused
    <2>1. rec.req # r /\ save.req # r
      BY <1>1, <1>2, NoneIsSlip DEF Derived, Unused, n
    <2>. QED BY <2>1, <1>3, <1>5 DEF Unused
  <1>11. Holds
    <2>1. ASSUME NEW m \in Name, Cancelled(m)
          PROVE  Cancelled(m)'
      <3>1. CASE m = n
        <4>1. rec.state = "CANCELLED"
          BY <2>1, <3>1 DEF Derived, n
        <4>. QED BY <4>1, <3>1, <1>5, RecordIsNotNone DEF Cancelled, Tracked, State
      <3>2. CASE m # n
        BY <2>1, <3>2, <1>5 DEF Cancelled, Tracked
      <3>. QED BY <3>1, <3>2
    <2>. QED BY <2>1 DEF Holds
  <1>. QED BY <1>6, <1>7, <1>8, <1>9, <1>10, <1>11
-----------------------------------------------------------------------------
(***************************************************************************)
(* The records and the places that the actions use.                        *)
(***************************************************************************)
LEMMA StaysBelow ==
    ASSUME Typed, Grown, NEW k \in Nat, k <= Len(box)
    PROVE  k <= Len(box')
  <1>1. Len(box) \in Nat /\ Len(box') \in Nat
    BY LenProperties DEF Grown, Typed
  <1>. QED BY <1>1 DEF Grown

LEMMA JobDerived ==
    ASSUME JobInv, NEW n \in Name, Grown
    PROVE  Derived(n, job[n])
  <1>1. job[n] \in Slip /\ job[n].key \in Nat /\ job[n].box \in Nat
    BY Lengths DEF JobInv, Typed
  <1>2. job[n].key <= Len(box') /\ job[n].box <= Len(box')
    BY <1>1, StaysBelow DEF JobInv, Known, Fits
  <1>. QED BY <1>1, <1>2 DEF Derived, Cancelled

LEMMA NoneDerived ==
    ASSUME NEW n \in Name, ~Tracked(n), Grown
    PROVE  Derived(n, None)
  <1>1. Len(box') \in Nat
    BY LenProperties DEF Grown
  <1>. QED BY <1>1, NoneIsSlip DEF Derived, Cancelled

LEMMA UpdatedDerived ==
    ASSUME JobInv, NEW n \in Name, NEW s \in State, Grown
    PROVE  Derived(n, Updated(n, s))
  <1>1. Derived(n, job[n])
    BY JobDerived
  <1>2. CASE Tracked(n) /\ ~Cancelled(n)
    <2>1. Updated(n, s) = [job[n] EXCEPT !.state = s]
      BY <1>2 DEF Updated
    <2>2. job[n] \in Slip /\ job[n] # None
      BY <1>1, <1>2 DEF Derived, Tracked
    <2>3. /\ Updated(n, s) \in Slip /\ Updated(n, s).key = job[n].key
          /\ Updated(n, s).box = job[n].box /\ Updated(n, s).req = job[n].req
      BY <2>1, <2>2, WithState
    <2>. QED BY <1>1, <1>2, <2>3 DEF Derived
  <1>3. CASE ~(Tracked(n) /\ ~Cancelled(n))
    BY <1>1, <1>3 DEF Updated
  <1>. QED BY <1>2, <1>3

LEMMA GoneIsPipeline ==
    ASSUME NEW n \in Name \cup {"none"}
    PROVE  /\ [Gone EXCEPT !.name = n] \in Pipeline /\ [Gone EXCEPT !.name = n].name = n
           /\ [Gone EXCEPT !.name = n].pc = "none" /\ [Gone EXCEPT !.name = n].box = 0
           /\ [Gone EXCEPT !.name = n].save = None
           /\ Gone \in Pipeline /\ Gone.pc = "none" /\ Gone.box = 0 /\ Gone.save = None
  <1>1. None \in Slip
    BY NoneIsSlip
  <1>2. Gone \in Pipeline
    BY <1>1 DEF Gone, Pipeline, Pc
  <1>3. Gone.pc = "none" /\ Gone.box = 0 /\ Gone.save = None
    BY DEF Gone
  <1>. QED BY <1>2, <1>3 DEF Pipeline

LEMMA GoneOnward ==
    ASSUME Typed, NEW t \in Thread, Grown
    PROVE  Onward(t, [Gone EXCEPT !.name = pipe[t].name])
  <1>1. pipe[t].name \in Name \cup {"none"}
    BY DEF Typed, Pipeline
  <1>2. Len(box') \in Nat
    BY LenProperties DEF Grown
  <1>. QED BY <1>1, <1>2, GoneIsPipeline DEF Onward, Placed

LEMMA PcOnward ==
    ASSUME JobInv, NEW t \in Thread, pipe[t].pc # "none", NEW pc \in Pc \ {"begin"},
           pc \in Placed => pipe[t].box # 0, Grown
    PROVE  Onward(t, [pipe[t] EXCEPT !.pc = pc])
  <1>1. pipe[t] \in Pipeline /\ pipe[t].req \in Req
    BY DEF JobInv, Typed, Named
  <1>2. pipe[t].box <= Len(box')
    BY Lengths, StaysBelow DEF JobInv, Known
  <1>3. LET x == [pipe[t] EXCEPT !.pc = pc]
        IN  x \in Pipeline /\ x.pc = pc /\ x.name = pipe[t].name /\ x.req = pipe[t].req
            /\ x.box = pipe[t].box
    BY <1>1 DEF Pipeline
  <1>. QED BY <1>1, <1>2, <1>3 DEF Onward

LEMMA ExitKeeps ==
    ASSUME JobInv, NEW t \in Thread, pipe[t].pc # "none", NEW s \in State, Exit(t, s),
           UNCHANGED <<setup, api, row, op, crashes>>, Grown
    PROVE  JobInv' /\ Holds
  <1>1. pipe[t].name \in Name
    BY DEF JobInv, Named, Busy
  <1>. QED BY <1>1, WriteKeeps, UpdatedDerived, GoneOnward DEF Exit, JobInv

LEMMA UpdateKeeps ==
    ASSUME JobInv, NEW t \in Thread, pipe[t].pc # "none", NEW s \in State,
           NEW pc \in Pc \ {"begin"}, pc \in Placed => pipe[t].box # 0, Update(t, s, pc),
           UNCHANGED <<setup, api, row, op, crashes>>, Grown
    PROVE  JobInv' /\ Holds
  <1>1. pipe[t].name \in Name
    BY DEF JobInv, Named, Busy
  <1>. QED BY <1>1, WriteKeeps, UpdatedDerived, PcOnward DEF Update

\* A step of a pipeline that writes no record.
LEMMA PipeKeeps ==
    ASSUME JobInv, NEW t \in Thread, pipe[t].pc # "begin", NEW y \in Pipeline,
           \/ y = Gone
           \/ /\ y.pc = pipe[t].pc \/ (y.pc = "up" /\ pipe[t].pc # "none")
              /\ y.name = pipe[t].name /\ y.req = pipe[t].req
              /\ y.box = pipe[t].box /\ y.save = pipe[t].save,
           pipe' = [pipe EXCEPT ![t] = y], UNCHANGED <<setup, api, job, row, op, crashes>>, Grown
    PROVE  JobInv' /\ Holds
  <1>. USE ProvisionAssumption DEF JobInv
  <1>1. \A u \in Thread : pipe'[u] = IF u = t THEN y ELSE pipe[u]
    BY DEF Typed
  <1>2. Gone.pc = "none" /\ Gone.box = 0 /\ Gone.save = None
    BY DEF Gone
  <1>3. Len(box) \in Nat /\ Len(box') \in Nat
    BY LenProperties DEF Typed, Grown
  <1>4. Typed'
    BY SetsStay DEF Typed, Grown
  <1>5. \A u \in Thread : Busy(pipe'[u]) => /\ Busy(pipe[u]) /\ pipe'[u].name = pipe[u].name
                                            /\ pipe'[u].req = pipe[u].req
    BY <1>1, <1>2 DEF Busy
  <1>6. Named'
    <2>1. \A u \in Thread : pipe'[u].pc # "none" =>
              pipe[u].pc # "none" /\ pipe'[u].req = pipe[u].req
      BY <1>1, <1>2
    <2>. QED BY <1>5, <2>1, SetsStay DEF Named, Thread
  <1>7. Known'
    <2>1. ASSUME NEW u \in Thread
          PROVE  /\ Fits(pipe[u].save)'
                 /\ pipe'[u].box <= Len(box')
                 /\ pipe'[u].pc \in Placed => pipe'[u].box # 0
      <3>1. CASE u = t /\ y = Gone
        BY <3>1, <1>1, <1>2, <1>3, NoneIsSlip DEF Fits, Placed
      <3>2. CASE u # t \/ y # Gone
        <4>1. Len(box) <= Len(box')
          BY Lengths DEF Grown
        <4>2. /\ pipe'[u].save = pipe[u].save /\ pipe'[u].box = pipe[u].box
              /\ pipe'[u].pc \in Placed => pipe[u].pc \in Placed
          BY <3>2, <1>1 DEF Placed
        <4>3. pipe[u].save \in Slip /\ pipe[u].box \in Nat
          BY DEF Typed, Pipeline
        <4>. QED BY <4>1, <4>2, <4>3, <1>3, Lengths DEF Known, Fits
      <3>. QED BY <3>1, <3>2
    <2>2. Len(box) <= Len(box')
      BY Lengths DEF Grown
    <2>3. Fits(op.save)'
      BY <1>3, <2>2, Lengths DEF Known, Fits
    <2>4. \A n \in Name : Fits(job[n])' /\ Fits(row[n])'
      BY <1>3, <2>2, Lengths DEF Known, Fits
    <2>. QED BY <2>1, <2>3, <2>4 DEF Known
  <1>8. ResumedAlone'
    <2>. SUFFICES ASSUME NEW n \in Name, pipe'[n].pc = "begin"
                  PROVE  Alone(n)'
      BY DEF ResumedAlone
    <2>1. pipe'[n] = pipe[n] /\ Alone(n)
      BY <1>1, <1>2 DEF ResumedAlone, Thread
    <2>2. \A r \in Request : Busy(pipe'[r]) => pipe'[r].name # n
      BY <2>1, <1>5 DEF Alone, Thread
    <2>. QED BY <2>1, <2>2, SetsStay DEF Alone, Tracked, Same, Busy
  <1>9. Unused'
    BY <1>1, <1>2, NoneIsSlip DEF Unused
  <1>. QED BY <1>4, <1>6, <1>7, <1>8, <1>9, JobsHold
-----------------------------------------------------------------------------
(***************************************************************************)
(* The actions of a pipeline, one by one.                                  *)
(***************************************************************************)
LEMMA Running ==
    ASSUME JobInv, NEW t \in Thread, pipe[t].pc # "none"
    PROVE  /\ pipe[t] \in Pipeline /\ pipe[t].name \in Name /\ pipe[t].req \in Req
           /\ job[pipe[t].name] \in Slip
           /\ pipe[t].pc \in Placed => pipe[t].box \in DOMAIN box
  <1>1. pipe[t].name \in Name /\ pipe[t] \in Pipeline /\ pipe[t].req \in Req
    BY DEF JobInv, Typed, Named, Busy
  <1>2. pipe[t].pc \in Placed => pipe[t].box \in DOMAIN box
    BY Lengths DEF JobInv, Known
  <1>. QED BY <1>1, <1>2 DEF JobInv, Typed

\* A resumed pipeline that goes on with a container has one, because nobody has
\* touched its row since the restart.
LEMMA BeginKeeps ==
    ASSUME JobInv, NEW t \in Thread, Begin(t)
    PROVE  JobInv' /\ Holds
  <1>. DEFINE rec == row[pipe[t].name]
              pc == IF setup.path[pipe[t].req] = "self" THEN "node"
                    ELSE IF t \in Request \/ rec.box + rec.key = 0 THEN "create"
                    ELSE IF rec.box = 0 THEN "wait" ELSE "await"
              s == IF pc = "await" THEN "WAITING_SSH" ELSE "CREATING"
  <1>1. /\ pipe[t].pc = "begin" /\ Update(t, s, pc)
        /\ UNCHANGED <<setup, api, row, op, box, onboarding, bounds>>
    BY DEF Begin, At
  <1>2. s \in State /\ pc \in Pc \ {"begin"}
    BY DEF State, Pc
  <1>3. pc \in Placed => pipe[t].box # 0
    <2>1. CASE t \in Request
      BY <2>1 DEF Placed
    <2>2. CASE t \in Name
      <3>1. pipe[t].name = t /\ Alone(t)
        BY <2>2, <1>1 DEF JobInv, Named, ResumedAlone, Busy
      <3>2. row[t].key \in Nat /\ row[t].box \in Nat
        BY <2>2, Lengths DEF JobInv
      <3>. QED BY <3>1, <3>2 DEF Alone, Placed
    <2>. QED BY <2>1, <2>2 DEF Thread
  <1>4. Grown
    BY <1>1, BoxStays DEF JobInv, Typed
  <1>. HIDE DEF s, pc
  <1>. QED BY <1>1, <1>2, <1>3, <1>4, UpdateKeeps DEF bounds

LEMMA OrderedGrows ==
    ASSUME JobInv, NEW t \in Thread, pipe[t].pc # "none", UNCHANGED setup, box' = Ordered(t)
    PROVE  Grown /\ Len(box') = Len(box) + 1
  BY Running, BoxOrdered, Constants DEF Ordered, JobInv, Typed

LEMMA CreateKeeps ==
    ASSUME JobInv, NEW t \in Thread, Create(t)
    PROVE  JobInv' /\ Holds
  <1>. DEFINE n == pipe[t].name
              k == Len(box')
              rec == IF Tracked(n) THEN [job[n] EXCEPT !.key = k] ELSE None
              x == [pipe[t] EXCEPT !.pc = "wait", !.box = k]
  <1>1. /\ pipe[t].pc = "create" /\ box' = Ordered(t) /\ Write(t, rec, x)
        /\ UNCHANGED <<setup, api, row, op, crashes>>
    BY DEF Create, At, bounds
  <1>2. Grown /\ Len(box') = Len(box) + 1 /\ Len(box) \in Nat
    BY <1>1, OrderedGrows, Lengths DEF JobInv
  <1>3. n \in Name /\ pipe[t] \in Pipeline /\ pipe[t].req \in Req
    BY <1>1, Running
  <1>4. Derived(n, rec)
    <2>1. CASE Tracked(n)
      <3>1. Derived(n, job[n])
        BY <1>2, <1>3, JobDerived
      <3>2. /\ rec \in Slip /\ rec.state = job[n].state
            /\ rec.key = Len(box') /\ rec.box = job[n].box /\ rec.req = job[n].req
        BY <2>1, <3>1, <1>2, WithKey DEF Tracked, Derived
      <3>. QED BY <3>1, <3>2, <1>2 DEF Derived
    <2>2. CASE ~Tracked(n)
      BY <2>2, <1>2, <1>3, NoneDerived
    <2>. QED BY <2>1, <2>2
  <1>5. Onward(t, x)
    <2>1. x \in Pipeline /\ x.pc = "wait" /\ x.name = n /\ x.box = Len(box') /\ x.req = pipe[t].req
      <3>1. k \in Nat
        BY <1>2
      <3>. HIDE DEF k, rec
      <3>2. x \in Pipeline /\ x.pc = "wait" /\ x.name = n /\ x.box = k /\ x.req = pipe[t].req
        BY <3>1, <1>3 DEF Pipeline, Pc
      <3>. QED BY <3>2 DEF k
    <2>. QED BY <2>1, <1>2, <1>3 DEF Onward
  <1>. HIDE DEF rec, x
  <1>. QED BY <1>1, <1>2, <1>4, <1>5, WriteKeeps

LEMMA CreateFailsKeeps ==
    ASSUME JobInv, NEW t \in Thread, CreateFails(t)
    PROVE  JobInv' /\ Holds
  <1>1. /\ pipe[t].pc = "create" /\ Exit(t, "FAILED") /\ box' \in {box, Ordered(t)}
        /\ UNCHANGED <<setup, api, row, op, crashes>>
    BY DEF CreateFails, At
  <1>2. Grown
    BY <1>1, OrderedGrows, BoxStays DEF JobInv, Typed
  <1>. QED BY <1>1, <1>2, ExitKeeps DEF State

LEMMA WaitCreationKeeps ==
    ASSUME JobInv, NEW t \in Thread, WaitCreation(t)
    PROVE  JobInv' /\ Holds
  <1>. DEFINE n == pipe[t].name
              rec == IF Tracked(n) /\ ~Cancelled(n)
                     THEN [Identified(t) EXCEPT !.state = "WAITING_SSH"] ELSE Identified(t)
              x == [pipe[t] EXCEPT !.pc = "await"]
  <1>1. /\ pipe[t].pc = "wait" /\ Write(t, rec, x)
        /\ UNCHANGED <<setup, api, row, op, box, crashes>>
    BY DEF WaitCreation, At, bounds
  <1>2. Grown
    BY <1>1, BoxStays DEF JobInv, Typed
  <1>3. n \in Name /\ pipe[t].box \in Nat /\ pipe[t].box <= Len(box) /\ pipe[t].box # 0
    BY <1>1, Running, Lengths DEF JobInv, Known, Placed
  <1>4. pipe[t].box <= Len(box')
    BY <1>2, <1>3, StaysBelow DEF JobInv
  <1>5. Derived(n, rec)
    <2>1. CASE Tracked(n)
      <3>1. Derived(n, job[n])
        BY <1>2, <1>3, JobDerived
      <3>2. /\ Identified(t) \in Slip /\ Identified(t).state = job[n].state
            /\ Identified(t).key = job[n].key /\ Identified(t).box = pipe[t].box
            /\ Identified(t).req = job[n].req
        BY <2>1, <3>1, <1>3, WithBox DEF Tracked, Derived, Identified
      <3>3. Identified(t) # None
        <4>1. Identified(t).state \in State
          BY <2>1, <3>1, <3>2, SlipParts DEF JobInv, Typed, Tracked, Derived
        <4>. QED BY <4>1, RecordIsNotNone
      <3>4. /\ rec \in Slip /\ rec.key = job[n].key /\ rec.box = pipe[t].box
            /\ rec.req = job[n].req
        <4>1. CASE Cancelled(n)
          BY <4>1, <3>2
        <4>2. CASE ~Cancelled(n)
          <5>1. rec = [Identified(t) EXCEPT !.state = "WAITING_SSH"] /\ "WAITING_SSH" \in State
            BY <2>1, <4>2 DEF State
          <5>. QED BY <5>1, <3>2, <3>3, WithState
        <4>. QED BY <4>1, <4>2
      <3>. QED BY <3>1, <3>2, <3>4, <1>4 DEF Derived
    <2>2. CASE ~Tracked(n)
      BY <2>2, <1>2, <1>3, NoneDerived DEF Identified
    <2>. QED BY <2>1, <2>2
  <1>6. Onward(t, x)
    BY <1>1, <1>2, <1>3, PcOnward DEF Pc
  <1>. HIDE DEF rec, x
  <1>. QED BY <1>1, <1>2, <1>5, <1>6, WriteKeeps

LEMMA ExitsKeep ==
    ASSUME JobInv, NEW t \in Thread,
           WaitFails(t) \/ AwaitHeld(t) \/ Stopped(t) \/ Submit(t)
    PROVE  JobInv' /\ Holds
  <1>1. PICK s \in State : Exit(t, s)
    BY DEF WaitFails, AwaitHeld, Stopped, Submit, State
  <1>2. /\ pipe[t].pc \in {"create", "wait", "await", "submit"}
        /\ UNCHANGED <<setup, api, row, op, box, crashes>>
    BY DEF WaitFails, AwaitHeld, Stopped, Submit, At, bounds
  <1>3. Grown
    BY <1>2, BoxStays DEF JobInv, Typed
  <1>. QED BY <1>1, <1>2, <1>3, ExitKeeps

LEMMA UpdatesKeep ==
    ASSUME JobInv, NEW t \in Thread, Await(t) \/ AwaitFails(t) \/ SubmitFails(t)
    PROVE  JobInv' /\ Holds
  <1>1. PICK s \in State, pc \in {"submit", "abandon"} : Update(t, s, pc)
    BY DEF Await, AwaitFails, SubmitFails, State
  <1>2. /\ pipe[t].pc \in {"await", "submit"}
        /\ UNCHANGED <<setup, api, row, op, box, crashes>>
    BY DEF Await, AwaitFails, SubmitFails, At, bounds
  <1>3. Grown
    BY <1>2, BoxStays DEF JobInv, Typed
  <1>4. pipe[t].box # 0 /\ pc \in Pc \ {"begin"}
    BY <1>2 DEF JobInv, Known, Placed, Pc
  <1>. QED BY <1>1, <1>2, <1>3, <1>4, UpdateKeeps

LEMMA AwaitSeesKeeps ==
    ASSUME JobInv, NEW t \in Thread, AwaitSees(t)
    PROVE  JobInv' /\ Holds
  <1>. DEFINE y == [pipe[t] EXCEPT !.seen = TRUE]
  <1>1. /\ pipe[t].pc = "await" /\ pipe' = [pipe EXCEPT ![t] = y]
        /\ UNCHANGED <<setup, api, job, row, op, box, crashes>>
    BY DEF AwaitSees, At, bounds
  <1>2. pipe[t] \in Pipeline
    BY <1>1, Running
  <1>3. /\ y \in Pipeline /\ y.pc = pipe[t].pc /\ y.name = pipe[t].name /\ y.req = pipe[t].req
        /\ y.box = pipe[t].box /\ y.save = pipe[t].save
    BY <1>2 DEF Pipeline
  <1>4. Grown
    BY <1>1, BoxStays DEF JobInv, Typed
  <1>. HIDE DEF y
  <1>. QED BY <1>1, <1>3, <1>4, PipeKeeps

LEMMA AbandonKeeps ==
    ASSUME JobInv, NEW t \in Thread, Abandon(t)
    PROVE  JobInv' /\ Holds
  <1>1. /\ pipe[t].pc = "abandon" /\ pipe' = [pipe EXCEPT ![t] = Gone]
        /\ box' \in {box, Released(pipe[t].box)}
        /\ UNCHANGED <<setup, api, job, row, op, crashes>>
    BY DEF Abandon, At
  <1>2. pipe[t].box \in DOMAIN box
    BY <1>1, Running DEF Placed
  <1>3. Grown
    BY <1>1, <1>2, BoxStays, BoxMoves, ReleasedMoves DEF JobInv, Typed
  <1>4. Gone \in Pipeline
    BY GoneIsPipeline
  <1>. QED BY <1>1, <1>3, <1>4, PipeKeeps

\* The step that asks for a Pod.
LEMMA PodGrows ==
    ASSUME JobInv, NEW t \in Thread, ProvisionNode(t)
    PROVE  Grown
  <1>1. /\ pipe[t].pc = "node" /\ UNCHANGED setup
        /\ \/ box' = box
           \/ box' = Append(box, [name |-> pipe[t].name, req |-> pipe[t].req, st |-> "placed"])
    BY DEF ProvisionNode, At
  <1>2. pipe[t].name \in Name /\ pipe[t].req \in Req
    BY <1>1, Running
  <1>. QED BY <1>1, <1>2, BoxStays, BoxOrdered DEF JobInv, Typed

LEMMA ProvisionNodeKeeps ==
    ASSUME JobInv, NEW t \in Thread, ProvisionNode(t)
    PROVE  JobInv' /\ Holds
  <1>. DEFINE y == [pipe[t] EXCEPT !.pc = "up"]
  <1>1. /\ pipe[t].pc = "node" /\ UNCHANGED <<setup, api, row, op, crashes>> /\ Grown
        /\ \/ pipe' = [pipe EXCEPT ![t] = y] /\ UNCHANGED job
           \/ Exit(t, "FAILED")
    BY PodGrows DEF ProvisionNode, At
  <1>2. CASE Exit(t, "FAILED")
    BY <1>1, <1>2, ExitKeeps DEF State
  <1>3. CASE pipe' = [pipe EXCEPT ![t] = y] /\ UNCHANGED job
    <2>1. pipe[t] \in Pipeline /\ pipe[t].pc = "node"
      BY <1>1, Running
    <2>2. /\ y \in Pipeline /\ y.name = pipe[t].name /\ y.pc = "up" /\ y.box = pipe[t].box
          /\ y.save = pipe[t].save /\ y.req = pipe[t].req
      BY <2>1 DEF Pipeline, Pc
    <2>. HIDE DEF y
    <2>. QED BY <1>1, <1>3, <2>1, <2>2, PipeKeeps DEF Placed
  <1>. QED BY <1>1, <1>2, <1>3

LEMMA WaitRunningKeeps ==
    ASSUME JobInv, NEW t \in Thread, WaitRunning(t)
    PROVE  JobInv' /\ Holds
  <1>. DEFINE n == pipe[t].name
              rec(c) == IF Tracked(n) THEN [Updated(n, "HANDING_OVER") EXCEPT !.box = c] ELSE None
              x(c) == [pipe[t] EXCEPT !.pc = "enrol", !.box = c]
  <1>1. /\ pipe[t].pc = "up" /\ UNCHANGED <<setup, api, row, op, crashes, box>>
        /\ (\E c \in Mine(t) : Write(t, rec(c), x(c))) \/ Exit(t, "FAILED")
    BY DEF WaitRunning, At, bounds
  <1>2. n \in Name /\ pipe[t] \in Pipeline /\ pipe[t].req \in Req
    BY <1>1, Running
  <1>3. Grown
    BY <1>1, BoxStays DEF JobInv, Typed
  <1>4. CASE Exit(t, "FAILED")
    BY <1>1, <1>3, <1>4, ExitKeeps DEF State
  <1>5. ASSUME NEW c \in Mine(t), Write(t, rec(c), x(c))
        PROVE  JobInv' /\ Holds
    <2>1. c \in 1 .. Len(box) /\ Len(box) \in Nat /\ Len(box') = Len(box)
      BY <1>1, Lengths DEF Mine, JobInv
    <2>2. c \in Nat /\ c # 0 /\ c <= Len(box')
      BY <2>1
    <2>3. Derived(n, rec(c))
      <3>1. CASE Tracked(n)
        <4>1. Derived(n, Updated(n, "HANDING_OVER"))
          BY <1>2, <1>3, UpdatedDerived DEF State
        <4>2. Updated(n, "HANDING_OVER") # None
          <5>1. job[n] \in Slip /\ job[n] # None
            BY <3>1, <1>2 DEF JobInv, Typed, Tracked
          <5>2. Updated(n, "HANDING_OVER").state \in State
            BY <5>1, SlipParts, WithState DEF JobInv, Typed, Updated, State
          <5>. QED BY <5>2, RecordIsNotNone
        <4>. HIDE DEF n
        <4>3. rec(c) = [Updated(n, "HANDING_OVER") EXCEPT !.box = c]
          BY <3>1
        <4>4. /\ rec(c) \in Slip /\ rec(c).state = Updated(n, "HANDING_OVER").state
              /\ rec(c).key = Updated(n, "HANDING_OVER").key /\ rec(c).box = c
              /\ rec(c).req = Updated(n, "HANDING_OVER").req
          BY <4>1, <4>2, <4>3, <2>2, WithBox DEF Derived
        <4>. QED BY <4>1, <4>4, <2>2 DEF Derived
      <3>2. CASE ~Tracked(n)
        BY <3>2, <1>2, <1>3, NoneDerived
      <3>. QED BY <3>1, <3>2
    <2>4. Onward(t, x(c))
      <3>1. x(c) \in Pipeline /\ x(c).pc = "enrol" /\ x(c).name = n /\ x(c).box = c /\ x(c).req = pipe[t].req
        BY <1>2, <2>2 DEF Pipeline, Pc
      <3>. QED BY <3>1, <2>2, <1>2 DEF Onward
    <2>. HIDE DEF rec, x
    <2>. QED BY <1>1, <1>3, <1>5, <2>3, <2>4, WriteKeeps
  <1>. QED BY <1>1, <1>4, <1>5

LEMMA EnrolNodeKeeps ==
    ASSUME JobInv, NEW t \in Thread, EnrolNode(t)
    PROVE  JobInv' /\ Holds
  <1>1. /\ pipe[t].pc = "enrol" /\ UNCHANGED <<setup, api, row, op, box, crashes>>
        /\ Exit(t, "MANAGED") \/ Exit(t, "FAILED") \/ UNCHANGED <<job, pipe>>
    BY DEF EnrolNode, At
  <1>2. Grown
    BY <1>1, BoxStays DEF JobInv, Typed
  <1>3. CASE UNCHANGED <<job, pipe>>
    BY <1>1, <1>2, <1>3, JobsKeep, JobsHold DEF jobs
  <1>. QED BY <1>1, <1>2, <1>3, ExitKeeps DEF State

(***************************************************************************)
(* A rename moves the record of a request to a name that nobody tracks,    *)
(* so it meets no job that was resumed.                                    *)
(***************************************************************************)
LEMMA RenameKeeps ==
    ASSUME JobInv, NEW t \in Thread, At(t, "create"), Climbs(t), Rename(t),
           UNCHANGED <<setup, api, op, box, crashes>>
    PROVE  JobInv' /\ Holds
  <1>. USE ProvisionAssumption DEF JobInv
  <1>. DEFINE from == pipe[t].name
              to == Ladder(t)[pipe[t].try + 1]
              k == pipe[t].try + 1
              y == [pipe[t] EXCEPT !.name = to, !.try = k]
              z == [pipe[t] EXCEPT !.try = @ + 1]
  <1>1. pipe[t].pc = "create" /\ pipe[t] \in Pipeline /\ from \in Name /\ pipe[t].req \in Req
    BY Running DEF At
  <1>2. t \in Request /\ t \notin Name
    BY DEF Climbs
  <1>3. to \in Name
    <2>1. Ladder(t) \in Seq(Name)
      BY <1>1, Constants DEF Ladder, Typed
    <2>2. pipe[t].try \in Nat \ {0}
      BY <1>1 DEF Pipeline
    <2>3. pipe[t].try + 1 \in 1 .. Len(Ladder(t))
      BY <2>1, <2>2, LenProperties DEF Climbs
    <2>. QED BY <2>1, <2>3, ElementOfSeq
  <1>4. Grown
    BY BoxStays DEF Typed
  <1>5. CASE ~(Tracked(from) /\ ~Tracked(to))
    <2>1. pipe' = [pipe EXCEPT ![t] = z] /\ UNCHANGED <<job, row>>
      BY <1>5 DEF Rename
    <2>2. /\ z \in Pipeline /\ z.pc = pipe[t].pc /\ z.name = pipe[t].name /\ z.req = pipe[t].req
          /\ z.box = pipe[t].box /\ z.save = pipe[t].save
      BY <1>1 DEF Pipeline
    <2>. HIDE DEF z
    <2>. QED BY <1>1, <1>4, <2>1, <2>2, PipeKeeps
  <1>6. CASE Tracked(from) /\ ~Tracked(to)
    <2>1. /\ job' = [job EXCEPT ![to] = job[from], ![from] = None]
          /\ pipe' = [pipe EXCEPT ![t] = y]
          /\ row' \in {[row EXCEPT ![to] = job[from], ![from] = None], [row EXCEPT ![to] = job[from]]}
      <3>1. job' = [job EXCEPT ![to] = job[from], ![from] = None]
        BY <1>6 DEF Rename
      <3>2. pipe' = [pipe EXCEPT ![t] = y]
        <4>. DEFINE q == [pipe[t] EXCEPT !.name = to]
                    f == [pipe EXCEPT ![t] = q]
        <4>1. pipe' = [f EXCEPT ![t] = [f[t] EXCEPT !.try = pipe[t].try + 1]]
          BY <1>6 DEF Rename
        <4>2. pipe[t].try = q.try
          BY <1>1 DEF Pipeline
        <4>3. f \in [Thread -> {pipe[u] : u \in Thread} \cup {q}] /\ f[t] = q
          BY DEF Typed
        <4>4. y = [q EXCEPT !.try = k]
          BY <1>1 DEF Pipeline
        <4>. HIDE DEF q, y
        <4>5. f = [pipe EXCEPT ![t] = q]
          OBVIOUS
        <4>. HIDE DEF f
        <4>6. pipe' = [f EXCEPT ![t] = y]
          BY <4>1, <4>3, <4>4
        <4>. QED BY <4>5, <4>6 DEF Typed
      <3>3. row' = [row EXCEPT ![to] = job[from], ![from] = None] \/ row' = [row EXCEPT ![to] = job[from]]
        BY <1>6 DEF Rename
      <3>. QED BY <3>1, <3>2, <3>3
    <2>2. /\ y \in Pipeline /\ y.pc = "create" /\ y.name = to /\ y.req = pipe[t].req
          /\ y.box = pipe[t].box /\ y.save = pipe[t].save
      <3>1. k \in Nat \ {0}
        BY <1>1 DEF Pipeline
      <3>. HIDE DEF k, to, z
      <3>. DEFINE q == [pipe[t] EXCEPT !.name = to]
      <3>2. /\ q \in Pipeline /\ q.pc = "create" /\ q.name = to /\ q.req = pipe[t].req
            /\ q.box = pipe[t].box /\ q.save = pipe[t].save
        BY <1>1, <1>3 DEF Pipeline
      <3>3. y = [q EXCEPT !.try = k]
        BY <1>1 DEF Pipeline
      <3>. HIDE DEF q, y
      <3>. QED BY <3>1, <3>2, <3>3 DEF Pipeline
    <2>3. None \in Slip /\ None.key = 0 /\ None.box = 0 /\ None.req = "none" /\ job[from] \in Slip
      BY <1>1, NoneIsSlip DEF Typed
    <2>4. from # to
      BY <1>6
    <2>. HIDE DEF y, z, k, from, to
    <2>5. /\ \A n \in Name : /\ job'[n] = IF n = from THEN None
                                          ELSE IF n = to THEN job[from] ELSE job[n]
                             /\ row'[n] \in {IF n = to THEN job[from] ELSE row[n], None}
                             /\ n \notin {from, to} => row'[n] = row[n]
          /\ \A u \in Thread : pipe'[u] = IF u = t THEN y ELSE pipe[u]
      BY <1>1, <1>3, <2>1, <2>4 DEF Typed
    <2>6. Typed'
      <3>1. job' \in [Name -> Slip] /\ row' \in [Name -> Slip]
        BY <2>1, <2>3, <1>1, <1>3 DEF Typed
      <3>. QED BY <3>1, <2>1, <2>2, <1>4, SetsStay DEF Typed, Grown
    <2>7. Named'
      <3>1. \A n \in Name : pipe'[n] = pipe[n]
        BY <2>5, <1>2 DEF Thread
      <3>2. \A u \in Thread : /\ Busy(pipe'[u]) => pipe'[u].name \in Name
                              /\ pipe'[u].pc # "none" => pipe'[u].req \in Req
        BY <2>2, <2>5, <1>1, <1>3 DEF Named, Busy
      <3>3. \A n \in Name : Busy(pipe'[n]) => pipe'[n].name = n
        BY <3>1 DEF Named
      <3>4. Req' = Req /\ (op'.pc # "idle" => op'.name \in Name)
        BY SetsStay DEF Named
      <3>5. (\A u \in Thread : Busy(pipe[u]) => pipe[u].name \in Name)'
        BY <3>2 DEF Busy
      <3>6. (\A u \in Thread : pipe[u].pc # "none" => pipe[u].req \in Req)'
        BY <3>2, <3>4
      <3>7. (\A n \in Name : Busy(pipe[n]) => pipe[n].name = n)'
        BY <3>3 DEF Busy
      <3>. QED BY <3>5, <3>6, <3>7, <3>4 DEF Named
    <2>8. Known'
      <3>1. Len(box) \in Nat
        BY LenProperties DEF Typed
      <3>2. Fits(None) /\ Fits(job[from])
        BY <3>1, <2>3, <1>1 DEF Fits, Known
      <3>3. \A n \in Name : Fits(job'[n]) /\ Fits(row'[n])
        BY <3>2, <2>5 DEF Known
      <3>. QED BY <3>3, <2>2, <2>5, <1>1 DEF Known, Fits, Placed
    <2>9. ResumedAlone'
      <3>. SUFFICES ASSUME NEW n \in Name, pipe'[n].pc = "begin"
                    PROVE  Alone(n)'
        BY DEF ResumedAlone
      <3>1. pipe'[n] = pipe[n] /\ Alone(n)
        BY <1>2, <2>5 DEF ResumedAlone, Thread
      <3>2. n # from
        BY <1>1, <1>2, <3>1 DEF Alone, Busy, from
      <3>3. n # to
        BY <1>6, <3>1 DEF Alone
      <3>4. \A r \in Request : Busy(pipe'[r]) => pipe'[r].name # n
        BY <3>1, <3>3, <2>2, <2>5 DEF Alone, Thread
      <3>. QED BY <3>1, <3>2, <3>3, <3>4, <2>5, SetsStay DEF Alone, Tracked, Same, Busy
    <2>10. Unused'
      <3>. SUFFICES ASSUME NEW r \in Request, api[r] # "done"
                    PROVE  /\ \A n \in Name : job'[n].req # r /\ row'[n].req # r
                           /\ \A u \in Thread : pipe'[u].save.req # r
                           /\ op.save.req # r
        BY DEF Unused
      <3>1. None.req # r
        BY <2>3, ProvisionAssumption
      <3>2. /\ \A n \in Name : job[n].req # r /\ row[n].req # r
            /\ \A u \in Thread : pipe[u].save.req # r
            /\ op.save.req # r
        BY DEF Unused
      <3>3. \A n \in Name : job'[n].req # r /\ row'[n].req # r
        BY <3>1, <3>2, <2>5, <1>1
      <3>4. \A u \in Thread : pipe'[u].save.req # r
        BY <3>2, <2>2, <2>5
      <3>. QED BY <3>2, <3>3, <3>4
    <2>11. Holds
      <3>1. ASSUME NEW n \in Name, Cancelled(n)
            PROVE  Cancelled(n)' \/ \E m \in Name : job'[m] = job[n]
        <4>1. n # to
          BY <3>1, <1>6 DEF Cancelled
        <4>2. CASE n = from
          BY <4>2, <2>4, <2>5, <1>3
        <4>3. CASE n # from
          BY <4>1, <4>3, <2>5
        <4>. QED BY <4>2, <4>3
      <3>. QED BY <3>1 DEF Holds
    <2>. QED BY <2>6, <2>7, <2>8, <2>9, <2>10, <2>11
  <1>. QED BY <1>5, <1>6

LEMMA NameInUseKeeps ==
    ASSUME JobInv, NEW t \in Thread, NameInUse(t)
    PROVE  JobInv' /\ Holds
  <1>1. /\ At(t, "create") /\ UNCHANGED <<setup, api, op, box, crashes>>
        /\ (Climbs(t) /\ Rename(t)) \/ (Exit(t, "FAILED") /\ UNCHANGED row)
    BY DEF NameInUse
  <1>2. CASE Exit(t, "FAILED") /\ UNCHANGED row
    BY <1>1, <1>2, BoxStays, ExitKeeps DEF JobInv, Typed, At, State
  <1>. QED BY <1>1, <1>2, RenameKeeps

LEMMA CallsKeep ==
    ASSUME JobInv, NEW t \in Thread, Calls(t)
    PROVE  JobInv' /\ Holds
  BY BeginKeeps, CreateKeeps, CreateFailsKeeps, NameInUseKeeps, WaitCreationKeeps, ExitsKeep,
     UpdatesKeep, AwaitSeesKeeps, AbandonKeeps, ProvisionNodeKeeps, WaitRunningKeeps,
     EnrolNodeKeeps DEF Calls
-----------------------------------------------------------------------------
(***************************************************************************)
(* The request, what is stored later, the cancel and the restart.          *)
(***************************************************************************)
LEMMA CheckNameKeeps ==
    ASSUME JobInv, NEW r \in Req, CheckName(r)
    PROVE  JobInv' /\ Holds
  <1>. USE ProvisionAssumption DEF JobInv
  <1>. DEFINE a == IF Tracked(setup.ladder[r][1]) THEN "refused" ELSE "checked"
  <1>1. /\ api[r] = "new" /\ api' = [api EXCEPT ![r] = a]
        /\ UNCHANGED <<setup, job, row, pipe, op, box, crashes>>
    BY DEF CheckName, bounds
  <1>2. r \in Request /\ Grown
    BY <1>1, Constants, BoxStays DEF Typed
  <1>3. a \in {"refused", "checked"} /\ (a = "checked" => ~Tracked(setup.ladder[r][1]))
    OBVIOUS
  <1>. HIDE DEF a
  <1>4. \A q \in Request : api'[q] = IF q = r THEN a ELSE api[q]
    BY <1>1, <1>2 DEF Typed
  <1>5. Typed'
    BY <1>1, <1>2, <1>3, SetsStay DEF Typed, Grown
  <1>6. Named'
    BY <1>1, SetsStay DEF Named, Busy
  <1>7. Known'
    BY <1>1 DEF Known, Fits
  <1>8. ResumedAlone'
    <2>. SUFFICES ASSUME NEW n \in Name, pipe'[n].pc = "begin"
                  PROVE  Alone(n)'
      BY DEF ResumedAlone
    <2>1. Alone(n)
      BY <1>1 DEF ResumedAlone
    <2>2. \A q \in Req : api'[q] = "checked" => setup.ladder[q][1] # n
      <3>1. Req \subseteq Request
        BY Constants DEF Typed
      <3>. QED BY <3>1, <2>1, <1>3, <1>4 DEF Alone
    <2>. QED BY <2>1, <2>2, <1>1, SetsStay DEF Alone, Tracked, Same, Busy
  <1>9. Unused'
    BY <1>1, <1>3, <1>4 DEF Unused
  <1>. QED BY <1>1, <1>5, <1>6, <1>7, <1>8, <1>9, JobsHold

\* The record of a name that was added twice is another request's.
LEMMA AddKeeps ==
    ASSUME JobInv, NEW r \in Req, Add(r)
    PROVE  JobInv' /\ Holds
  <1>. USE ProvisionAssumption DEF JobInv
  <1>. DEFINE n == setup.ladder[r][1]
              rec == [state |-> "QUEUED", key |-> 0, box |-> 0, req |-> r]
              y == [Gone EXCEPT !.pc = "begin", !.name = n, !.req = r]
  <1>1. /\ api[r] = "checked" /\ api' = [api EXCEPT ![r] = "done"]
        /\ job' = [job EXCEPT ![n] = rec] /\ row' = [row EXCEPT ![n] = rec]
        /\ pipe' = [pipe EXCEPT ![r] = y]
        /\ UNCHANGED <<setup, op, box, crashes>>
    BY DEF Add, bounds
  <1>2. r \in Request /\ r \in Thread /\ r \notin Name /\ Grown
    BY <1>1, Constants, BoxStays DEF Typed, Thread
  <1>3. n \in Name
    BY FirstName DEF Typed
  <1>4. /\ rec \in Slip /\ rec.key = 0 /\ rec.box = 0 /\ rec.req = r
    BY DEF Slip, State
  <1>5. /\ y \in Pipeline /\ y.pc = "begin" /\ y.name = n /\ y.req = r
        /\ y.box = 0 /\ y.save = None
    <2>. HIDE DEF n
    <2>1. Gone \in Pipeline /\ Gone.box = 0 /\ Gone.save = None
      BY GoneIsPipeline
    <2>. QED BY <1>3, <2>1 DEF Pipeline, Pc
  <1>. HIDE DEF n, rec, y
  <1>6. /\ \A q \in Request : api'[q] = IF q = r THEN "done" ELSE api[q]
        /\ \A m \in Name : /\ job'[m] = IF m = n THEN rec ELSE job[m]
                           /\ row'[m] = IF m = n THEN rec ELSE row[m]
        /\ \A u \in Thread : pipe'[u] = IF u = r THEN y ELSE pipe[u]
    BY <1>1, <1>2, <1>3 DEF Typed
  <1>7. Typed'
    BY <1>1, <1>2, <1>3, <1>4, <1>5, SetsStay DEF Typed, Grown
  <1>8. Named'
    <2>1. \A m \in Name : pipe'[m] = pipe[m]
      BY <1>2, <1>6 DEF Thread
    <2>2. (\A u \in Thread : Busy(pipe[u]) => pipe[u].name \in Name)'
      BY <1>3, <1>5, <1>6 DEF Named, Busy
    <2>3. (\A u \in Thread : pipe[u].pc # "none" => pipe[u].req \in Req)'
      BY <1>1, <1>5, <1>6, SetsStay DEF Named
    <2>4. (\A m \in Name : Busy(pipe[m]) => pipe[m].name = m)'
      BY <2>1 DEF Named, Busy
    <2>. QED BY <1>1, <2>2, <2>3, <2>4 DEF Named
  <1>9. Known'
    <2>1. Len(box) \in Nat
      BY LenProperties DEF Typed
    <2>2. (\A m \in Name : Fits(job[m]) /\ Fits(row[m]))'
      BY <1>1, <1>4, <1>6, <2>1 DEF Known, Fits
    <2>3. (\A u \in Thread : /\ Fits(pipe[u].save)
                             /\ pipe[u].box <= Len(box)
                             /\ pipe[u].pc \in Placed => pipe[u].box # 0)'
      BY <1>1, <1>5, <1>6, <2>1, NoneIsSlip DEF Known, Fits, Placed
    <2>. QED BY <1>1, <2>2, <2>3 DEF Known, Fits
  <1>10. ResumedAlone'
    <2>. SUFFICES ASSUME NEW m \in Name, pipe'[m].pc = "begin"
                  PROVE  Alone(m)'
      BY DEF ResumedAlone
    <2>1. pipe'[m] = pipe[m] /\ Alone(m)
      BY <1>2, <1>6 DEF ResumedAlone, Thread
    <2>2. m # n
      BY <1>1, <2>1 DEF Alone, n
    <2>3. job'[m] = job[m] /\ row'[m] = row[m]
      BY <2>2, <1>6
    <2>4. \A q \in Request : Busy(pipe'[q]) => pipe'[q].name # m
      BY <2>1, <2>2, <1>5, <1>6 DEF Alone, Thread
    <2>5. \A q \in Req : api'[q] = "checked" => setup.ladder[q][1] # m
      <3>1. Req \subseteq Request
        BY Constants DEF Typed
      <3>. QED BY <3>1, <2>1, <1>6 DEF Alone
    <2>. QED BY <1>1, <2>1, <2>3, <2>4, <2>5, SetsStay DEF Alone, Tracked, Same, Busy
  <1>11. Unused'
    BY <1>1, <1>4, <1>5, <1>6, NoneIsSlip DEF Unused
  <1>12. Holds
    <2>1. ASSUME NEW m \in Name, Cancelled(m)
          PROVE  Cancelled(m)' \/ job'[m].req \notin {job[m].req, "none"}
      <3>1. job[m].req # r /\ r # "none"
        BY <1>1, <1>2 DEF Unused
      <3>. QED BY <2>1, <3>1, <1>4, <1>6 DEF Cancelled, Tracked
    <2>. QED BY <2>1 DEF Holds
  <1>. QED BY <1>7, <1>8, <1>9, <1>10, <1>11, <1>12

LEMMA StoreRecordKeeps ==
    ASSUME JobInv, NEW t \in Thread, StoreRecord(t)
    PROVE  JobInv' /\ Holds
  <1>. USE ProvisionAssumption DEF JobInv
  <1>. DEFINE n == pipe[t].name
              y == IF pipe[t].pc = "none" THEN Gone ELSE [pipe[t] EXCEPT !.save = None]
  <1>1. /\ pipe[t].save # None /\ row' = [row EXCEPT ![n] = pipe[t].save]
        /\ pipe' = [pipe EXCEPT ![t] = y]
        /\ UNCHANGED <<setup, api, job, op, box, crashes>>
    BY DEF StoreRecord, bounds
  <1>2. n \in Name /\ pipe[t] \in Pipeline /\ pipe[t].save \in Slip /\ Grown
    BY <1>1, BoxStays DEF Typed, Named, Busy, Pipeline
  <1>3. /\ y \in Pipeline /\ y.save = None /\ y.pc = pipe[t].pc /\ y.box \in {0, pipe[t].box}
        /\ y.pc # "none" => y.name = n /\ y.req = pipe[t].req /\ y.box = pipe[t].box
    <2>1. CASE pipe[t].pc = "none"
      BY <2>1, GoneIsPipeline
    <2>2. CASE pipe[t].pc # "none"
      <3>1. None \in Slip
        BY NoneIsSlip
      <3>. QED BY <2>2, <3>1, <1>2 DEF Pipeline
    <2>. QED BY <2>1, <2>2
  <1>. HIDE DEF n, y
  <1>4. /\ \A m \in Name : row'[m] = IF m = n THEN pipe[t].save ELSE row[m]
        /\ \A u \in Thread : pipe'[u] = IF u = t THEN y ELSE pipe[u]
    BY <1>1, <1>2 DEF Typed
  <1>5. Typed'
    BY <1>1, <1>2, <1>3, SetsStay DEF Typed, Grown
  <1>6. \A u \in Thread : Busy(pipe'[u]) =>
            /\ pipe[u].pc # "none" /\ pipe'[u].name = pipe[u].name
            /\ pipe'[u].req = pipe[u].req
           \/ pipe'[u] = pipe[u]
    BY <1>3, <1>4 DEF Busy, n
  <1>7. Named'
    <2>1. (\A u \in Thread : Busy(pipe[u]) => pipe[u].name \in Name)'
      BY <1>6 DEF Named, Busy
    <2>2. (\A u \in Thread : pipe[u].pc # "none" => pipe[u].req \in Req)'
      BY <1>1, <1>6, SetsStay DEF Named, Busy
    <2>3. (\A m \in Name : Busy(pipe[m]) => pipe[m].name = m)'
      BY <1>6 DEF Named, Busy, Thread
    <2>. QED BY <1>1, <2>1, <2>2, <2>3 DEF Named
  <1>8. Known'
    <2>1. Len(box) \in Nat
      BY LenProperties DEF Typed
    <2>2. (\A m \in Name : Fits(job[m]) /\ Fits(row[m]))'
      BY <1>1, <1>4 DEF Known, Fits
    <2>3. (\A u \in Thread : /\ Fits(pipe[u].save)
                             /\ pipe[u].box <= Len(box)
                             /\ pipe[u].pc \in Placed => pipe[u].box # 0)'
      BY <1>1, <1>3, <1>4, <2>1, NoneIsSlip DEF Known, Fits, Placed
    <2>. QED BY <1>1, <2>2, <2>3 DEF Known, Fits
  <1>9. ResumedAlone'
    <2>. SUFFICES ASSUME NEW m \in Name, pipe'[m].pc = "begin"
                  PROVE  Alone(m)'
      BY DEF ResumedAlone
    <2>1. pipe[m].pc = "begin" /\ Alone(m)
      BY <1>3, <1>4 DEF ResumedAlone, Thread
    <2>2. m # t /\ m # n
      <3>1. m # t
        BY <1>1, <2>1 DEF Alone
      <3>. QED BY <3>1, <1>1, <2>1 DEF Alone, Named, Busy, Thread, n
    <2>3. row'[m] = row[m] /\ pipe'[m] = pipe[m]
      BY <2>2, <1>4 DEF Thread
    <2>4. \A r \in Request : Busy(pipe'[r]) => pipe'[r].name # m
      BY <2>1, <1>6 DEF Alone, Busy, Thread
    <2>. QED BY <1>1, <2>1, <2>3, <2>4, SetsStay DEF Alone, Tracked, Same, Busy
  <1>10. Unused'
    BY <1>1, <1>3, <1>4, NoneIsSlip DEF Unused
  <1>. QED BY <1>1, <1>5, <1>7, <1>8, <1>9, <1>10, JobsHold
LEMMA CancelReadKeeps ==
    ASSUME JobInv, NEW n \in Name, CancelRead(n)
    PROVE  JobInv' /\ Holds
  <1>. USE DEF JobInv
  <1>1. /\ op' = [pc |-> "cancel", name |-> n, save |-> None]
        /\ box' = box \/ (job[n].box # 0 /\ box' = Released(job[n].box))
        /\ UNCHANGED <<setup, api, job, row, pipe, crashes>>
    BY DEF CancelRead
  <1>2. job[n].box # 0 => job[n].box \in DOMAIN box
    BY Lengths DEF Known, Fits
  <1>3. Grown
    BY <1>1, <1>2, BoxStays, BoxMoves, ReleasedMoves DEF Typed
  <1>4. Len(box') \in Nat
    BY <1>3, LenProperties DEF Grown
  <1>5. op'.pc = "cancel" /\ op'.name = n /\ op'.save = None
    BY <1>1
  <1>6. Typed'
    <2>1. op' \in [pc : {"idle", "cancel", "save"}, name : Name \cup {"none"}, save : Slip]
      BY <1>1, NoneIsSlip
    <2>. QED BY <1>1, <1>3, <2>1, SetsStay DEF Typed, Grown
  <1>7. Named'
    BY <1>1, <1>5, SetsStay DEF Named, Busy
  <1>8. Known'
    BY <1>1, <1>3, <1>4, <1>5, Lengths, NoneIsSlip DEF Known, Fits, Grown
  <1>9. ResumedAlone'
    BY <1>1, <1>5, SetsStay DEF ResumedAlone, Alone, Tracked, Same, Busy
  <1>10. Unused'
    BY <1>1, <1>5, NoneIsSlip, ProvisionAssumption DEF Unused
  <1>. QED BY <1>1, <1>6, <1>7, <1>8, <1>9, <1>10, JobsHold

LEMMA CancelMarkKeeps ==
    ASSUME JobInv, CancelMark
    PROVE  JobInv' /\ Holds
  <1>. USE DEF JobInv
  <1>. DEFINE n == op.name
  <1>1. /\ op.pc = "cancel" /\ n \in Name
        /\ UNCHANGED <<setup, api, row, box, crashes>>
    BY DEF CancelMark, Named, bounds
  <1>2. Grown
    BY <1>1, BoxStays DEF Typed
  <1>3. CASE op' = Calm /\ UNCHANGED <<job, pipe>>
    <2>1. op'.pc = "idle" /\ op'.save = None
      BY <1>3 DEF Calm
    <2>2. Typed'
      <3>1. op' \in [pc : {"idle", "cancel", "save"}, name : Name \cup {"none"}, save : Slip]
        BY <1>3, NoneIsSlip DEF Calm
      <3>. QED BY <1>1, <1>2, <1>3, <3>1, SetsStay DEF Typed, Grown
    <2>3. Named'
      BY <1>1, <1>3, <2>1, SetsStay DEF Named, Busy
    <2>4. Known'
      <3>1. Len(box) \in Nat
        BY LenProperties DEF Typed
      <3>. QED BY <1>1, <1>3, <2>1, <3>1, NoneIsSlip DEF Known, Fits
    <2>5. ResumedAlone'
      BY <1>1, <1>3, <2>1, SetsStay DEF ResumedAlone, Alone, Tracked, Same, Busy
    <2>6. Unused'
      BY <1>1, <1>3, <2>1, NoneIsSlip, ProvisionAssumption DEF Unused
    <2>. QED BY <1>3, <2>2, <2>3, <2>4, <2>5, <2>6, JobsHold
  <1>4. CASE ~(op' = Calm /\ UNCHANGED <<job, pipe>>)
    <2>. DEFINE rec == [job[n] EXCEPT !.state = "CANCELLED"]
    <2>1. /\ Tracked(n)
          /\ job' = [job EXCEPT ![n].state = "CANCELLED"]
          /\ pipe' = [t \in Thread |->
                        IF t = n /\ pipe[t].pc \notin {"none", "begin"}
                        THEN [pipe[t] EXCEPT !.ctx = FALSE] ELSE pipe[t]]
          /\ op' = [op EXCEPT !.pc = "save", !.save = job'[n]]
      BY <1>4 DEF CancelMark
    <2>2. job[n] \in Slip /\ job[n] # None /\ "CANCELLED" \in State
      BY <1>1, <2>1 DEF Typed, Tracked, State
    <2>3. /\ rec \in Slip /\ rec.state = "CANCELLED" /\ rec.key = job[n].key
          /\ rec.box = job[n].box /\ rec.req = job[n].req
      BY <2>2, WithState
    <2>4. rec # None
      BY <2>2, <2>3, RecordIsNotNone
    <2>5. \A m \in Name : job'[m] = IF m = n THEN rec ELSE job[m]
      BY <1>1, <2>1 DEF Typed
    <2>6. op'.pc = "save" /\ op'.name = n /\ op'.save = rec
      BY <1>1, <2>1, <2>5 DEF Typed
    <2>7. \A u \in Thread :
            /\ pipe'[u] \in Pipeline /\ pipe'[u].pc = pipe[u].pc /\ pipe'[u].name = pipe[u].name
            /\ pipe'[u].req = pipe[u].req /\ pipe'[u].box = pipe[u].box
            /\ pipe'[u].save = pipe[u].save
      <3>. SUFFICES ASSUME NEW u \in Thread
                    PROVE  LET y == pipe'[u]
                           IN  /\ y \in Pipeline /\ y.pc = pipe[u].pc /\ y.name = pipe[u].name
                               /\ y.req = pipe[u].req /\ y.box = pipe[u].box
                               /\ y.save = pipe[u].save
        OBVIOUS
      <3>1. pipe[u] \in Pipeline
        BY DEF Typed
      <3>2. LET y == [pipe[u] EXCEPT !.ctx = FALSE]
            IN  /\ y \in Pipeline /\ y.pc = pipe[u].pc /\ y.name = pipe[u].name
                /\ y.req = pipe[u].req /\ y.box = pipe[u].box /\ y.save = pipe[u].save
        BY <3>1 DEF Pipeline
      <3>3. pipe'[u] \in {pipe[u], [pipe[u] EXCEPT !.ctx = FALSE]}
        BY <2>1
      <3>. QED BY <3>1, <3>2, <3>3
    <2>. HIDE DEF rec
    <2>8. Typed'
      <3>1. job' \in [Name -> Slip]
        BY <1>1, <2>1, <2>3, <2>5 DEF Typed
      <3>2. pipe' \in [Thread -> Pipeline]
        <4>1. pipe' = [t \in Thread |-> pipe'[t]]
          BY <2>1
        <4>. QED BY <4>1, <2>7
      <3>3. op' \in [pc : {"idle", "cancel", "save"}, name : Name \cup {"none"}, save : Slip]
        <4>1. op' = [op EXCEPT !.pc = "save", !.save = rec]
          BY <2>1, <2>6, <1>1, <2>5
        <4>. QED BY <4>1, <2>3 DEF Typed
      <3>. QED BY <1>1, <1>2, <3>1, <3>2, <3>3, SetsStay DEF Typed, Grown
    <2>9. Named'
      <3>1. (\A u \in Thread : Busy(pipe[u]) => pipe[u].name \in Name)'
        BY <2>7 DEF Named, Busy
      <3>2. (\A u \in Thread : pipe[u].pc # "none" => pipe[u].req \in Req)'
        BY <1>1, <2>7, SetsStay DEF Named
      <3>3. (\A m \in Name : Busy(pipe[m]) => pipe[m].name = m)'
        BY <2>7 DEF Named, Busy, Thread
      <3>. QED BY <1>1, <2>6, <3>1, <3>2, <3>3 DEF Named
    <2>10. Known'
      BY <1>1, <2>3, <2>5, <2>6, <2>7 DEF Known, Fits
    <2>11. ResumedAlone'
      <3>. SUFFICES ASSUME NEW m \in Name, pipe'[m].pc = "begin"
                    PROVE  Alone(m)'
        BY DEF ResumedAlone
      <3>1. m \in Thread /\ Alone(m)
        BY <2>7 DEF ResumedAlone, Thread
      <3>2. job'[m] # None /\ job'[m].key = job[m].key /\ job'[m].box = job[m].box
        BY <3>1, <2>3, <2>4, <2>5 DEF Alone, Tracked
      <3>3. \A r \in Request : Busy(pipe'[r]) => pipe'[r].name # m
        BY <3>1, <2>7 DEF Alone, Busy, Thread
      <3>4. op'.name = m => Same(op'.save, m)
        BY <3>1, <2>3, <2>6 DEF Alone, Same
      <3>5. pipe'[m].save = None /\ pipe'[m].box = pipe[m].box
        BY <3>1, <2>7 DEF Alone
      <3>6. Same(job[m], m)'
        BY <1>1, <3>1, <3>2 DEF Alone, Same
      <3>7. (\A r \in Req : api[r] = "checked" => setup.ladder[r][1] # m)'
        BY <1>1, <3>1, SetsStay DEF Alone
      <3>. QED BY <1>1, <3>1, <3>2, <3>3, <3>4, <3>5, <3>6, <3>7 DEF Alone, Tracked, Same, Busy
    <2>12. Unused'
      BY <1>1, <2>3, <2>5, <2>6, <2>7 DEF Unused
    <2>13. Holds
      <3>1. ASSUME NEW m \in Name, Cancelled(m)
            PROVE  Cancelled(m)'
        BY <3>1, <2>3, <2>4, <2>5 DEF Cancelled, Tracked
      <3>. QED BY <3>1 DEF Holds
    <2>. QED BY <2>8, <2>9, <2>10, <2>11, <2>12, <2>13
  <1>. QED BY <1>3, <1>4

LEMMA CancelStoreKeeps ==
    ASSUME JobInv, CancelStore
    PROVE  JobInv' /\ Holds
  <1>. USE DEF JobInv
  <1>1. /\ op.pc = "save" /\ row' = [row EXCEPT ![op.name] = op.save] /\ op' = Calm
        /\ UNCHANGED <<setup, api, job, pipe, box, crashes>>
    BY DEF CancelStore, bounds
  <1>2. op.name \in Name /\ op.save \in Slip /\ Grown
    BY <1>1, BoxStays DEF Typed, Named
  <1>3. op'.pc = "idle" /\ op'.save = None
    BY <1>1 DEF Calm
  <1>4. \A m \in Name : row'[m] = IF m = op.name THEN op.save ELSE row[m]
    BY <1>1, <1>2 DEF Typed
  <1>5. Typed'
    <2>1. op' \in [pc : {"idle", "cancel", "save"}, name : Name \cup {"none"}, save : Slip]
      BY <1>1, NoneIsSlip DEF Calm
    <2>2. row' \in [Name -> Slip]
      BY <1>1, <1>2 DEF Typed
    <2>. QED BY <1>1, <1>2, <2>1, <2>2, SetsStay DEF Typed, Grown
  <1>6. Named'
    BY <1>1, <1>3, SetsStay DEF Named, Busy
  <1>7. Known'
    <2>1. Len(box) \in Nat
      BY LenProperties DEF Typed
    <2>. QED BY <1>1, <1>3, <1>4, <2>1, NoneIsSlip DEF Known, Fits
  <1>8. ResumedAlone'
    <2>. SUFFICES ASSUME NEW m \in Name, pipe'[m].pc = "begin"
                  PROVE  Alone(m)'
      BY DEF ResumedAlone
    <2>1. Alone(m)
      BY <1>1 DEF ResumedAlone
    <2>2. row'[m].key = row[m].key /\ row'[m].box = row[m].box
      BY <1>1, <1>4, <2>1 DEF Alone, Same
    <2>. QED BY <1>1, <1>3, <2>1, <2>2, SetsStay DEF Alone, Tracked, Same, Busy
  <1>9. Unused'
    BY <1>1, <1>3, <1>4, NoneIsSlip, ProvisionAssumption DEF Unused
  <1>. QED BY <1>1, <1>5, <1>6, <1>7, <1>8, <1>9, JobsHold

\* The tracker is what was stored; nothing is in flight.
LEMMA RestartKeeps ==
    ASSUME JobInv, Restart
    PROVE  JobInv'
  <1>. USE ProvisionAssumption DEF JobInv
  <1>1. /\ job' = row /\ op' = Calm
        /\ pipe' = [t \in Thread |-> IF t \in Name THEN Resumed(t) ELSE Gone]
        /\ api' = [r \in Request |-> IF api[r] = "checked" THEN "refused" ELSE api[r]]
        /\ crashes' = crashes + 1
        /\ UNCHANGED <<setup, row, box>>
    BY DEF Restart
  <1>2. Grown
    BY <1>1, BoxStays DEF Typed
  <1>3. op'.pc = "idle" /\ op'.save = None
    BY <1>1 DEF Calm
  <1>4. /\ Gone \in Pipeline /\ Gone.pc = "none" /\ Gone.box = 0 /\ Gone.save = None
    BY GoneIsPipeline
  <1>5. ASSUME NEW n \in Name
        PROVE  /\ Resumed(n) \in Pipeline /\ Resumed(n).save = None
               /\ Resumed(n).pc \in {"none", "begin"}
               /\ Resumed(n).box \in {0, row[n].key, row[n].box}
               /\ Resumed(n).pc # "none" =>
                     /\ Resumed(n).name = n /\ Resumed(n).req \in Req /\ row[n] # None
                     /\ Resumed(n).box = IF row[n].box = 0 THEN row[n].key ELSE row[n].box
    <2>1. CASE row[n] = None \/ row[n].state \in Terminal
      <3>1. Resumed(n) = Gone
        BY <2>1 DEF Resumed
      <3>. QED BY <3>1, <1>4
    <2>2. CASE ~(row[n] = None \/ row[n].state \in Terminal)
      <3>. DEFINE b == IF row[n].box = 0 THEN row[n].key ELSE row[n].box
                  q == row[n].req
      <3>1. b \in Nat /\ b \in {row[n].key, row[n].box} /\ q \in Req
        BY <2>2, Lengths, SlipParts DEF Typed
      <3>2. Resumed(n) = [Gone EXCEPT !.pc = "begin", !.name = n, !.req = q, !.box = b]
        BY <2>2 DEF Resumed
      <3>. HIDE DEF b, q
      <3>. DEFINE g == [Gone EXCEPT !.name = n]
      <3>5. g \in Pipeline /\ g.pc = "none" /\ g.name = n /\ g.save = None
        BY GoneIsPipeline
      <3>6. Resumed(n) = [g EXCEPT !.pc = "begin", !.req = q, !.box = b]
        BY <3>2, <1>4 DEF Pipeline
      <3>. HIDE DEF g
      <3>3. /\ Resumed(n) \in Pipeline /\ Resumed(n).save = None /\ Resumed(n).pc = "begin"
            /\ Resumed(n).name = n /\ Resumed(n).req = q /\ Resumed(n).box = b
        BY <3>1, <3>5, <3>6 DEF Pipeline, Pc
      <3>4. b = IF row[n].box = 0 THEN row[n].key ELSE row[n].box
        BY DEF b
      <3>. QED BY <2>2, <3>1, <3>3, <3>4
    <2>. QED BY <2>1, <2>2
  <1>6. /\ \A n \in Name : pipe'[n] = Resumed(n)
        /\ \A r \in Request : pipe'[r] = Gone
    BY <1>1 DEF Thread
  <1>7. \A t \in Thread : /\ pipe'[t] \in Pipeline /\ pipe'[t].save = None
                          /\ pipe'[t].pc \in {"none", "begin"}
    BY <1>4, <1>5, <1>6 DEF Thread
  <1>8. Typed'
    <2>1. pipe' \in [Thread -> Pipeline]
      <3>1. pipe' = [t \in Thread |-> pipe'[t]]
        BY <1>1
      <3>. QED BY <3>1, <1>7
    <2>2. op' \in [pc : {"idle", "cancel", "save"}, name : Name \cup {"none"}, save : Slip]
      BY <1>1, NoneIsSlip DEF Calm
    <2>3. api' \in [Request -> {"new", "checked", "done", "refused"}] /\ crashes' \in Nat
      BY <1>1 DEF Typed
    <2>. QED BY <1>1, <1>2, <2>1, <2>2, <2>3, SetsStay DEF Typed, Grown
  <1>9. Named'
    <2>1. \A t \in Thread : pipe'[t].pc # "none" => /\ t \in Name /\ pipe'[t].name = t
                                                    /\ pipe'[t].req \in Req
      BY <1>4, <1>5, <1>6 DEF Thread
    <2>2. (\A u \in Thread : Busy(pipe[u]) => pipe[u].name \in Name)'
      BY <1>7, <2>1 DEF Busy
    <2>3. (\A u \in Thread : pipe[u].pc # "none" => pipe[u].req \in Req)'
      BY <1>1, <2>1, SetsStay
    <2>4. (\A m \in Name : Busy(pipe[m]) => pipe[m].name = m)'
      BY <1>7, <2>1 DEF Busy, Thread
    <2>. QED BY <1>3, <2>2, <2>3, <2>4 DEF Named
  <1>10. Known'
    <2>1. Len(box) \in Nat
      BY LenProperties DEF Typed
    <2>2. \A n \in Name : row[n].key <= Len(box) /\ row[n].box <= Len(box)
      BY DEF Known, Fits
    <2>3. \A t \in Thread : pipe'[t].box <= Len(box)
      BY <1>4, <1>5, <1>6, <2>1, <2>2 DEF Thread
    <2>. QED BY <1>1, <1>3, <1>7, <2>1, <2>2, <2>3, NoneIsSlip DEF Known, Fits, Placed
  <1>11. ResumedAlone'
    <2>. SUFFICES ASSUME NEW m \in Name, pipe'[m].pc = "begin"
                  PROVE  Alone(m)'
      BY DEF ResumedAlone
    <2>1. /\ row[m] # None /\ pipe'[m].save = None
          /\ pipe'[m].box = IF row[m].box = 0 THEN row[m].key ELSE row[m].box
      BY <1>5, <1>6
    <2>2. \A r \in Request : ~Busy(pipe'[r])
      BY <1>4, <1>6 DEF Busy
    <2>3. \A r \in Req : api'[r] # "checked"
      BY <1>1, Constants DEF Typed
    <2>4. Req' = Req
      BY <1>1, SetsStay
    <2>. QED BY <1>1, <1>3, <2>1, <2>2, <2>3, <2>4 DEF Alone, Tracked, Same, Busy
  <1>12. Unused'
    <2>1. \A r \in Request : api'[r] # "done" => api[r] # "done"
      BY <1>1
    <2>. QED BY <1>1, <1>3, <1>7, <2>1, NoneIsSlip DEF Unused
  <1>. QED BY <1>8, <1>9, <1>10, <1>11, <1>12
-----------------------------------------------------------------------------
(***************************************************************************)
(* What the platform sees of a step.                                       *)
(***************************************************************************)
LEMMA CallsGrow ==
    ASSUME JobInv, NEW t \in Thread, Calls(t)
    PROVE  Grown
  <1>. USE DEF JobInv, Typed
  <1>1. ASSUME Begin(t) \/ NameInUse(t) \/ WaitCreation(t) \/ WaitFails(t) \/ Await(t)
               \/ AwaitSees(t) \/ AwaitHeld(t) \/ AwaitFails(t) \/ Stopped(t) \/ Submit(t)
               \/ SubmitFails(t) \/ WaitRunning(t) \/ EnrolNode(t)
        PROVE  Grown
    <2>1. UNCHANGED <<setup, box>>
      BY <1>1 DEF Begin, NameInUse, WaitCreation, WaitFails, Await, AwaitSees, AwaitHeld,
                  AwaitFails, Stopped, Submit, SubmitFails, WaitRunning, EnrolNode
    <2>. QED BY <2>1, BoxStays
  <1>2. ASSUME Create(t) \/ CreateFails(t)
        PROVE  Grown
    <2>1. pipe[t].pc = "create" /\ UNCHANGED setup /\ (box' = box \/ box' = Ordered(t))
      BY <1>2 DEF Create, CreateFails, At
    <2>. QED BY <2>1, BoxStays, OrderedGrows
  <1>3. CASE Abandon(t)
    <2>1. /\ pipe[t].pc = "abandon" /\ UNCHANGED setup
          /\ box' = box \/ box' = Released(pipe[t].box)
      BY <1>3 DEF Abandon, At
    <2>2. pipe[t].box \in DOMAIN box
      BY <2>1, Running DEF Placed
    <2>. QED BY <2>1, <2>2, BoxStays, BoxMoves, ReleasedMoves
  <1>4. CASE ProvisionNode(t)
    BY <1>4, PodGrows
  <1>. QED BY <1>1, <1>2, <1>3, <1>4 DEF Calls

LEMMA PlatformMoves ==
    ASSUME JobInv, NEW c \in DOMAIN box, Platform(c)
    PROVE  Moved
  <1>1. box[c].st \in Status
    <2>1. box[c] \in Container
      BY ElementOfSeq, LenProperties DEF JobInv, Typed
    <2>. QED BY <2>1 DEF Container
  <1>. DEFINE next == [queued |-> {"placed"}, placed |-> {"running", "failed"}, running |-> {},
                       failed |-> {}, released |-> {"gone"}, gone |-> {}]
  <1>2. next[box[c].st] \subseteq Status /\ (box[c].st = "gone" => next[box[c].st] = {})
    BY <1>1 DEF Status
  <1>3. \E st \in next[box[c].st] : box' = [box EXCEPT ![c].st = st]
    BY DEF Platform
  <1>. HIDE DEF next
  <1>4. box[c].st # "gone" /\ \E st \in Status : box' = [box EXCEPT ![c].st = st]
    BY <1>2, <1>3
  <1>. QED BY <1>4, StatusMoves DEF JobInv, Typed

LEMMA PlatformGrows ==
    ASSUME JobInv, NEW c \in DOMAIN box, Platform(c)
    PROVE  Grown
  BY PlatformMoves, BoxMoves DEF Platform, JobInv, Typed

(***************************************************************************)
(* Onboarding.                                                             *)
(***************************************************************************)
LEMMA EntryParts ==
    ASSUME Onboarded
    PROVE  /\ Len(onb) \in Nat /\ DOMAIN onb = 1 .. Len(onb)
           /\ \A k \in DOMAIN onb : onb[k] \in Entry
           /\ runner.pc # "idle" => runner.job \in DOMAIN onb
  <1>1. onb \in Seq(Entry)
    BY DEF Onboarded
  <1>2. Len(onb) \in Nat /\ DOMAIN onb = 1 .. Len(onb)
    BY <1>1, LenProperties
  <1>3. \A k \in DOMAIN onb : onb[k] \in Entry
    BY <1>1, <1>2, ElementOfSeq
  <1>. QED BY <1>2, <1>3 DEF Onboarded

\* Job k of onboarding becomes e.
LEMMA EntryKeeps ==
    ASSUME Onboarded, NEW k \in DOMAIN onb, NEW e \in Entry,
           onb' = [onb EXCEPT ![k] = e], e.box = onb[k].box, e.name = onb[k].name,
           runner' \in [pc : {"idle", "install", "enrol", "prepare"}, job : {0, k}],
           runner'.pc # "idle" => runner'.job # 0,
           inst' \in [Name -> DOMAIN Enrolled],
           \A n \in Name : inst[n] = "preparing" => inst'[n] = "preparing",
           e.st = "MANAGED" => inst'[e.name] = "preparing",
           UNCHANGED box
    PROVE  Onboarded'
  <1>1. /\ Len(onb) \in Nat /\ DOMAIN onb = 1 .. Len(onb) /\ onb \in Seq(Entry)
        /\ \A i \in DOMAIN onb : onb[i] \in Entry
    BY EntryParts DEF Onboarded
  <1>2. onb' \in Seq(Entry) /\ Len(onb') = Len(onb)
    BY <1>1, ExceptSeq
  <1>3. /\ DOMAIN onb' = DOMAIN onb
        /\ \A i \in DOMAIN onb : onb'[i] = IF i = k THEN e ELSE onb[i]
    BY <1>1
  <1>4. \A i \in DOMAIN onb : onb[i].name \in Name
    BY <1>1 DEF Entry
  <1>5. \A i \in DOMAIN onb' : onb'[i].box \in DOMAIN box'
    BY <1>3 DEF Onboarded
  <1>6. ManagedIsEnrolled'
    BY <1>3, <1>4 DEF Onboarded, ManagedIsEnrolled
  <1>7. /\ runner' \in [pc : {"idle", "install", "enrol", "prepare"}, job : Nat]
        /\ runner'.job <= Len(onb')
    BY <1>1, <1>2
  <1>. QED BY <1>2, <1>5, <1>6, <1>7 DEF Onboarded

LEMMA EntryMoves ==
    ASSUME NEW x \in Entry, NEW st \in {"QUEUED", "RUNNING", "MANAGED", "FAILED"}
    PROVE  LET y == [x EXCEPT !.st = st]
           IN  y \in Entry /\ y.st = st /\ y.name = x.name /\ y.box = x.box
  BY DEF Entry

LEMMA FinishKeeps ==
    ASSUME Onboarded, runner.pc # "idle", NEW st \in {"MANAGED", "FAILED"}, Finish(st),
           inst' \in [Name -> DOMAIN Enrolled],
           \A n \in Name : inst[n] = "preparing" => inst'[n] = "preparing",
           st = "MANAGED" => inst'[onb[runner.job].name] = "preparing",
           UNCHANGED box
    PROVE  Onboarded'
  <1>. DEFINE k == runner.job
              e == [onb[k] EXCEPT !.st = st]
  <1>1. k \in DOMAIN onb /\ onb[k] \in Entry
    BY EntryParts
  <1>2. e \in Entry /\ e.st = st /\ e.name = onb[k].name /\ e.box = onb[k].box
    BY <1>1 DEF Entry
  <1>3. onb' = [onb EXCEPT ![k] = e] /\ runner' = Off
    BY DEF Finish
  <1>4. /\ runner' \in [pc : {"idle", "install", "enrol", "prepare"}, job : {0, k}]
        /\ runner'.pc # "idle" => runner'.job # 0
    BY <1>3 DEF Off
  <1>. HIDE DEF k, e
  <1>5. e.st = "MANAGED" => inst'[e.name] = "preparing"
    BY <1>2 DEF k
  <1>. QED BY <1>1, <1>2, <1>3, <1>4, <1>5, EntryKeeps

LEMMA PickKeeps ==
    ASSUME Onboarded, NEW k \in DOMAIN onb, Pick(k)
    PROVE  Onboarded'
  <1>. DEFINE e == [onb[k] EXCEPT !.st = "RUNNING"]
  <1>1. onb[k] \in Entry
    BY EntryParts
  <1>2. e \in Entry /\ e.st = "RUNNING" /\ e.name = onb[k].name /\ e.box = onb[k].box
    BY <1>1, EntryMoves
  <1>3. /\ onb' = [onb EXCEPT ![k] = e] /\ UNCHANGED <<inst, box>>
        /\ runner' \in [pc : {"install", "enrol"}, job : {k}]
    BY DEF Pick
  <1>4. /\ runner' \in [pc : {"idle", "install", "enrol", "prepare"}, job : {0, k}]
        /\ runner'.job = k /\ k # 0
    BY <1>3, EntryParts
  <1>. HIDE DEF e
  <1>. QED BY <1>2, <1>3, <1>4, EntryKeeps DEF Onboarded

LEMMA InstallKeeps ==
    ASSUME Onboarded, Install
    PROVE  Onboarded'
  <1>1. runner.pc = "install" /\ UNCHANGED <<inst, box>>
    BY DEF Install
  <1>2. CASE Finish("FAILED")
    BY <1>1, <1>2, FinishKeeps DEF Onboarded
  <1>3. CASE /\ onb' = [onb EXCEPT ![runner.job].result = TRUE]
             /\ runner' = [runner EXCEPT !.pc = "enrol"]
    <2>. DEFINE k == runner.job
                e == [onb[k] EXCEPT !.result = TRUE]
    <2>1. k \in DOMAIN onb /\ onb[k] \in Entry /\ k # 0
      BY <1>1, EntryParts DEF Onboarded
    <2>2. e \in Entry /\ e.st = onb[k].st /\ e.name = onb[k].name /\ e.box = onb[k].box
      BY <2>1 DEF Entry
    <2>3. onb' = [onb EXCEPT ![k] = e]
      BY <1>3
    <2>4. /\ runner' \in [pc : {"idle", "install", "enrol", "prepare"}, job : {0, k}]
          /\ runner'.job = k
      BY <1>3 DEF Onboarded
    <2>5. onb[k].st = "MANAGED" => inst[onb[k].name] = "preparing"
      BY <2>1 DEF Onboarded, ManagedIsEnrolled
    <2>. HIDE DEF e, k
    <2>6. inst' \in [Name -> DOMAIN Enrolled] /\ inst' = inst /\ box' = box
      BY <1>1 DEF Onboarded
    <2>7. e.st = "MANAGED" => inst'[e.name] = "preparing"
      BY <2>2, <2>5, <2>6
    <2>. QED BY <2>1, <2>2, <2>3, <2>4, <2>6, <2>7, EntryKeeps
  <1>. QED BY <1>2, <1>3 DEF Install

\* A row that is queued for preparation stays so, and a job is MANAGED only
\* after it.
LEMMA EnrolKeeps ==
    ASSUME Onboarded, Enrol
    PROVE  Onboarded'
  <1>. DEFINE n == onb[runner.job].name
  <1>1. runner.pc = "enrol" /\ UNCHANGED box
    BY DEF Enrol
  <1>2. runner.job \in DOMAIN onb /\ runner.job # 0 /\ n \in Name
    BY <1>1, EntryParts DEF Onboarded, Entry
  <1>. HIDE DEF n
  <1>3. CASE Finish("FAILED") /\ UNCHANGED inst
    BY <1>1, <1>3, FinishKeeps DEF Onboarded
  <1>4. CASE /\ inst' = [inst EXCEPT ![n] = IF @ = "none" THEN "allocating" ELSE @]
             /\ IF inst[n] = "preparing" THEN Finish("MANAGED")
                ELSE runner' = [runner EXCEPT !.pc = "prepare"] /\ UNCHANGED onb
    <2>1. /\ inst' \in [Name -> DOMAIN Enrolled]
          /\ \A m \in Name : inst[m] = "preparing" => inst'[m] = "preparing"
      BY <1>2, <1>4 DEF Onboarded, Enrolled
    <2>2. CASE inst[n] = "preparing"
      BY <2>1, <2>2, <1>1, <1>2, <1>4, FinishKeeps DEF n
    <2>3. CASE inst[n] # "preparing"
      <3>1. /\ runner' = [runner EXCEPT !.pc = "prepare"] /\ onb' = onb /\ box' = box
        BY <1>1, <1>4, <2>3
      <3>2. \A k \in DOMAIN onb : onb[k].name \in Name
        BY EntryParts DEF Entry
      <3>3. ManagedIsEnrolled'
        BY <2>1, <3>1, <3>2 DEF Onboarded, ManagedIsEnrolled
      <3>. QED BY <1>2, <2>1, <3>1, <3>3 DEF Onboarded
    <2>. QED BY <2>2, <2>3
  <1>. QED BY <1>3, <1>4 DEF Enrol, n

LEMMA PrepareKeeps ==
    ASSUME Onboarded, Prepare
    PROVE  Onboarded'
  <1>. DEFINE n == onb[runner.job].name
  <1>1. runner.pc = "prepare" /\ UNCHANGED box
    BY DEF Prepare
  <1>2. runner.job \in DOMAIN onb /\ n \in Name
    BY <1>1, EntryParts DEF Entry
  <1>. HIDE DEF n
  <1>3. PICK st \in {"MANAGED", "FAILED"} :
            /\ Finish(st)
            /\ inst' = [inst EXCEPT ![n] = "preparing"] \/ (inst' = inst /\ st = "FAILED")
    BY DEF Prepare, n
  <1>4. /\ inst' \in [Name -> DOMAIN Enrolled]
        /\ \A m \in Name : inst[m] = "preparing" => inst'[m] = "preparing"
        /\ st = "MANAGED" => inst'[n] = "preparing"
    BY <1>2, <1>3 DEF Onboarded, Enrolled
  <1>. QED BY <1>1, <1>3, <1>4, FinishKeeps DEF n

LEMMA SubmitKeeps ==
    ASSUME IInv, NEW t \in Thread, Submit(t)
    PROVE  Onboarded'
  <1>. DEFINE e == [name |-> pipe[t].name, box |-> pipe[t].box, st |-> "QUEUED", result |-> FALSE]
  <1>1. /\ pipe[t].pc = "submit" /\ onb' = Append(onb, e)
        /\ UNCHANGED <<box, runner, inst>>
    BY DEF Submit, At
  <1>2. pipe[t].name \in Name /\ pipe[t].box \in DOMAIN box /\ pipe[t].box \in Nat
    BY <1>1, Running, Lengths DEF Placed, IInv, JobInv
  <1>3. e \in Entry /\ e.st = "QUEUED" /\ e.box \in DOMAIN box
    BY <1>2 DEF Entry
  <1>. HIDE DEF e
  <1>4. onb \in Seq(Entry) /\ Len(onb) \in Nat /\ DOMAIN onb = 1 .. Len(onb)
    BY EntryParts DEF IInv, Onboarded
  <1>5. /\ onb' \in Seq(Entry) /\ Len(onb') = Len(onb) + 1
        /\ \A i \in 1 .. Len(onb) : onb'[i] = onb[i]
        /\ onb'[Len(onb) + 1] = e
    BY <1>1, <1>3, <1>4, AppendProperties
  <1>6. DOMAIN onb' = 1 .. (Len(onb) + 1)
    BY <1>5, LenProperties
  <1>7. \A k \in DOMAIN onb' : /\ onb'[k].box \in DOMAIN box
                               /\ onb'[k].st = "MANAGED" => inst[onb'[k].name] = "preparing"
    <2>. SUFFICES ASSUME NEW k \in 1 .. (Len(onb) + 1)
                  PROVE  /\ onb'[k].box \in DOMAIN box
                         /\ onb'[k].st = "MANAGED" => inst[onb'[k].name] = "preparing"
      BY <1>6
    <2>1. CASE k = Len(onb) + 1
      BY <2>1, <1>3, <1>5
    <2>2. CASE k # Len(onb) + 1
      <3>1. k \in DOMAIN onb /\ onb'[k] = onb[k]
        BY <2>2, <1>4, <1>5
      <3>. QED BY <3>1 DEF IInv, Onboarded, ManagedIsEnrolled
    <2>. QED BY <2>1, <2>2
  <1>8. runner'.job <= Len(onb')
    BY <1>1, <1>4, <1>5 DEF IInv, Onboarded
  <1>. QED BY <1>1, <1>5, <1>7, <1>8 DEF IInv, Onboarded, ManagedIsEnrolled

LEMMA EnrolNodeOnboards ==
    ASSUME IInv, NEW t \in Thread, EnrolNode(t)
    PROVE  Onboarded'
  <1>1. /\ pipe[t].pc = "enrol" /\ UNCHANGED <<box, onb, runner>>
        /\ inst' = inst \/ inst' = [inst EXCEPT ![pipe[t].name] = Enrolled[@]]
    BY DEF EnrolNode, At
  <1>2. pipe[t].name \in Name
    BY <1>1, Running DEF IInv, JobInv
  <1>3. /\ inst' \in [Name -> DOMAIN Enrolled]
        /\ \A m \in Name : inst[m] = "preparing" => inst'[m] = "preparing"
    BY <1>1, <1>2 DEF IInv, Onboarded, Enrolled
  <1>4. \A k \in DOMAIN onb : onb[k].name \in Name
    BY EntryParts DEF IInv, Entry
  <1>5. ManagedIsEnrolled'
    BY <1>1, <1>3, <1>4 DEF IInv, Onboarded, ManagedIsEnrolled
  <1>. QED BY <1>1, <1>3, <1>5 DEF IInv, Onboarded
-----------------------------------------------------------------------------
(***************************************************************************)
(* The theorems.                                                           *)
(***************************************************************************)
LEMMA InitHolds == Init => IInv
  <1>. SUFFICES ASSUME Init
                PROVE  IInv
    OBVIOUS
  <1>. USE DEF Init
  <1>1. Gone \in Pipeline /\ Gone.pc = "none" /\ Gone.box = 0 /\ Gone.save = None
    BY GoneIsPipeline
  <1>2. None \in Slip /\ None.key = 0 /\ None.box = 0 /\ None.req = "none"
    BY NoneIsSlip
  <1>3. Calm.pc = "idle" /\ Calm.save = None /\ Calm.name = "none"
    BY DEF Calm
  <1>4. /\ \A t \in Thread : pipe[t] = Gone
        /\ \A n \in Name : job[n] = None /\ row[n] = None
    OBVIOUS
  <1>5. Len(box) = 0 /\ Len(onb) = 0 /\ DOMAIN onb = {} /\ box \in Seq(Container) /\ onb \in Seq(Entry)
    OBVIOUS
  <1>6. Typed
    <2>1. op \in [pc : {"idle", "cancel", "save"}, name : Name \cup {"none"}, save : Slip]
      BY <1>2 DEF Calm
    <2>2. pipe \in [Thread -> Pipeline]
      BY <1>1
    <2>3. job \in [Name -> Slip] /\ row \in [Name -> Slip]
      BY <1>2
    <2>4. api \in [Request -> {"new", "checked", "done", "refused"}]
      OBVIOUS
    <2>. QED BY <1>5, <2>1, <2>2, <2>3, <2>4 DEF Typed
  <1>7. Named
    BY <1>1, <1>3, <1>4 DEF Named, Busy, Thread
  <1>8. Known
    BY <1>1, <1>2, <1>3, <1>4, <1>5 DEF Known, Fits, Placed
  <1>9. ResumedAlone
    BY <1>1, <1>4 DEF ResumedAlone, Thread
  <1>10. Unused
    BY <1>1, <1>2, <1>3, <1>4, ProvisionAssumption DEF Unused
  <1>11. Onboarded
    BY <1>5 DEF Onboarded, ManagedIsEnrolled, Off, Enrolled
  <1>. QED BY <1>6, <1>7, <1>8, <1>9, <1>10, <1>11 DEF IInv

\* A step of the process other than a restart, or of the platform.
LEMMA StepKeeps ==
    ASSUME IInv, Next, ~Restart
    PROVE  IInv' /\ Holds
  <1>. USE DEF IInv
  <1>. JobInv
    BY DEF JobInv
  <1>1. CASE \E r \in Req : CheckName(r) \/ Add(r)
    <2>1. PICK r \in Req : CheckName(r) \/ Add(r)
      BY <1>1
    <2>2. UNCHANGED <<setup, box, onboarding>>
      BY <2>1 DEF CheckName, Add
    <2>3. Onboarded'
      BY <2>2, BoxStays, OnboardingKeeps DEF Typed
    <2>. QED BY <2>1, <2>3, CheckNameKeeps, AddKeeps DEF JobInv
  <1>2. CASE \E t \in Thread : StoreRecord(t)
    <2>1. PICK t \in Thread : StoreRecord(t)
      BY <1>2
    <2>2. UNCHANGED <<setup, box, onboarding>>
      BY <2>1 DEF StoreRecord
    <2>3. Onboarded'
      BY <2>2, BoxStays, OnboardingKeeps DEF Typed
    <2>. QED BY <2>1, <2>3, StoreRecordKeeps DEF JobInv
  <1>3. CASE \E t \in Thread : Calls(t)
    <2>1. PICK t \in Thread : Calls(t)
      BY <1>3
    <2>2. JobInv' /\ Holds /\ Grown
      BY <2>1, CallsKeep, CallsGrow
    <2>3. CASE Submit(t) \/ EnrolNode(t)
      BY <2>2, <2>3, SubmitKeeps, EnrolNodeOnboards DEF JobInv
    <2>4. CASE ~(Submit(t) \/ EnrolNode(t))
      <3>1. UNCHANGED onboarding
        BY <2>1, <2>4 DEF Calls, Begin, Create, CreateFails, NameInUse, WaitCreation, WaitFails,
           Await, AwaitSees, AwaitHeld, AwaitFails, Abandon, Stopped, SubmitFails, ProvisionNode,
           WaitRunning
      <3>. QED BY <2>2, <3>1, OnboardingKeeps DEF JobInv
    <2>. QED BY <2>3, <2>4
  <1>4. CASE \E n \in Name : CancelRead(n)
    <2>1. PICK n \in Name : CancelRead(n)
      BY <1>4
    <2>2. /\ box' = box \/ (job[n].box # 0 /\ box' = Released(job[n].box))
          /\ UNCHANGED <<setup, onboarding>>
      BY <2>1 DEF CancelRead
    <2>3. job[n].box # 0 => job[n].box \in DOMAIN box
      BY Lengths DEF Known, Fits
    <2>4. Grown
      BY <2>2, <2>3, BoxStays, BoxMoves, ReleasedMoves DEF Typed
    <2>. QED BY <2>1, <2>2, <2>4, CancelReadKeeps, OnboardingKeeps DEF JobInv
  <1>5. CASE CancelMark \/ CancelStore
    <2>1. UNCHANGED <<setup, box, onboarding>>
      BY <1>5 DEF CancelMark, CancelStore
    <2>2. Onboarded'
      BY <2>1, BoxStays, OnboardingKeeps DEF Typed
    <2>. QED BY <1>5, <2>2, CancelMarkKeeps, CancelStoreKeeps DEF JobInv
  <1>6. CASE (\E k \in DOMAIN onb : Pick(k)) \/ Install \/ Enrol \/ Prepare
    <2>1. UNCHANGED <<setup, jobs, crashes, box>>
      BY <1>6 DEF Pick, Install, Enrol, Prepare, bounds
    <2>2. JobInv' /\ Holds
      BY <2>1, BoxStays, JobsKeep, JobsHold DEF Typed, jobs
    <2>3. Onboarded'
      BY <1>6, PickKeeps, InstallKeeps, EnrolKeeps, PrepareKeeps
    <2>. QED BY <2>2, <2>3 DEF JobInv
  <1>7. CASE \E c \in DOMAIN box : Platform(c)
    <2>1. PICK c \in DOMAIN box : Platform(c)
      BY <1>7
    <2>2. UNCHANGED <<setup, jobs, crashes, onboarding>>
      BY <2>1 DEF Platform, bounds
    <2>3. Grown
      BY <2>1, PlatformGrows
    <2>. QED BY <2>2, <2>3, JobsKeep, JobsHold, OnboardingKeeps DEF JobInv, jobs
  <1>. QED BY <1>1, <1>2, <1>3, <1>4, <1>5, <1>6, <1>7 DEF Next, Req

LEMMA NextKeeps == IInv /\ [Next]_vars => IInv'
  <1>. SUFFICES ASSUME IInv, [Next]_vars
                PROVE  IInv'
    OBVIOUS
  <1>1. CASE Next /\ ~Restart
    BY <1>1, StepKeeps
  <1>2. CASE Restart
    <2>1. JobInv'
      BY <1>2, RestartKeeps DEF IInv, JobInv
    <2>2. runner' = Off /\ UNCHANGED <<box, onb, inst>>
      BY <1>2 DEF Restart
    <2>3. Onboarded'
      <3>1. runner' \in [pc : {"idle", "install", "enrol", "prepare"}, job : Nat]
            /\ runner'.job = 0 /\ runner'.pc = "idle"
        BY <2>2 DEF Off
      <3>2. 0 <= Len(onb)
        BY EntryParts DEF IInv
      <3>. QED BY <2>2, <3>1, <3>2 DEF IInv, Onboarded, ManagedIsEnrolled
    <2>. QED BY <2>1, <2>3 DEF IInv, JobInv
  <1>3. CASE UNCHANGED vars
    <2>1. UNCHANGED <<setup, jobs, box, onboarding, crashes>>
      BY <1>3 DEF vars, bounds
    <2>2. Grown
      BY <2>1, BoxStays DEF IInv, Typed
    <2>. QED BY <2>1, <2>2, JobsKeep, OnboardingKeeps DEF IInv, JobInv
  <1>. QED BY <1>1, <1>2, <1>3

LEMMA Invariant == Spec => []IInv
  BY InitHolds, NextKeeps, PTL DEF Spec

\* Records, pipelines, containers and onboarding jobs are well-typed, and each
\* of them names only containers that were asked for.
THEOREM ProvisionTyped == Spec => []TypeOK
  <1>1. IInv => TypeOK
    <2>. SUFFICES ASSUME IInv
                  PROVE  TypeOK
      OBVIOUS
    <2>. USE DEF IInv
    <2>1. Slip \subseteq Record \cup {None} /\ Req \subseteq Request
      <3>1. Req \subseteq Request
        BY Constants DEF Typed
      <3>. QED BY <3>1 DEF Slip, Record
    <2>2. job \in [Name -> Record \cup {None}] /\ row \in [Name -> Record \cup {None}]
      BY <2>1 DEF Typed
    <2>3. ASSUME NEW t \in Thread
          PROVE  /\ pipe[t].pc \in Pc /\ pipe[t].box \in 0..Len(box)
                 /\ pipe[t].save \in Record \cup {None}
                 /\ pipe[t].pc # "none" => pipe[t].name \in Name /\ pipe[t].req \in Request
      <3>1. pipe[t] \in Pipeline
        BY DEF Typed
      <3>2. pipe[t].pc \in Pc /\ pipe[t].save \in Slip
        BY <3>1 DEF Pipeline
      <3>3. pipe[t].box \in 0..Len(box)
        BY Lengths DEF Known
      <3>. QED BY <2>1, <3>2, <3>3 DEF Named, Busy
    <2>4. \A c \in DOMAIN box : box[c].st \in {"queued", "placed", "running", "failed", "released", "gone"}
      <3>1. \A c \in DOMAIN box : box[c] \in Container
        BY ElementOfSeq, LenProperties DEF Typed
      <3>. QED BY <3>1 DEF Container, Status
    <2>5. \A k \in DOMAIN onb : /\ onb[k].st \in {"QUEUED", "RUNNING", "MANAGED", "FAILED"}
                                /\ onb[k].box \in DOMAIN box
      BY EntryParts DEF Entry, Onboarded
    <2>6. runner.job \in 0..Len(onb) /\ inst \in [Name -> DOMAIN Enrolled]
      BY EntryParts DEF Onboarded
    <2>7. op.pc \in {"idle", "cancel", "save"}
      BY DEF Typed
    <2>. QED BY <2>2, <2>3, <2>4, <2>5, <2>6, <2>7 DEF TypeOK, Typed
  <1>. QED BY <1>1, Invariant, PTL

\* A node that onboarding reports as MANAGED is queued for preparation, whatever
\* crashes and however often its enrolment is repeated.
THEOREM ProvisionManagedIsEnrolled == Spec => []ManagedIsEnrolled
  <1>1. IInv => ManagedIsEnrolled
    BY DEF IInv, Onboarded
  <1>. QED BY <1>1, Invariant, PTL

\* As long as the process lives, no write of a pipeline that goes on takes a
\* cancelled job back: update leaves it alone, the ids are written beside the
\* state, and a rename takes the record along.
THEOREM ProvisionCancelHolds == Spec => CancelHolds
  <1>. DEFINE Kept == \A n \in Name : Cancelled(n) /\ crashes' = crashes =>
                        \/ Cancelled(n)'
                        \/ \E m \in Name : job'[m] = job[n]
                        \/ job'[n].req \notin {job[n].req, "none"}
  <1>1. IInv /\ [Next]_vars => [Kept]_vars
    <2>. SUFFICES ASSUME IInv, Next
                  PROVE  Kept
      OBVIOUS
    <2>1. CASE ~Restart
      BY <2>1, StepKeeps DEF Holds
    <2>2. CASE Restart
      <3>1. crashes' = crashes + 1 /\ crashes \in Nat
        BY <2>2 DEF Restart, IInv, Typed
      <3>. QED BY <3>1
    <2>. QED BY <2>1, <2>2
  <1>. QED BY <1>1, Invariant, PTL DEF Spec, CancelHolds

-----------------------------------------------------------------------------
(***************************************************************************)
(* No more names than requests.  Whoever may still ask for a container     *)
(* under a new name is either a request whose pipeline has not             *)
(* asked yet (Asking), or a name that a restart would resume, no container *)
(* has and no such pipeline is at (Left).  With the names that have one    *)
(* (Count) they are never more than the requests that were accepted        *)
(* (Done).                                                                 *)
(***************************************************************************)
MayAsk == {"begin", "create", "node"}

Done   == {r \in Request : api[r] = "done"}
Asking == {r \in Request : pipe[r].pc \in MayAsk}

Count    == Cardinality(Supplied)
Given(n) == \E c \in DOMAIN box : box[c].name = n
Free(n)  == ~Given(n) /\ (n \in setup.taken => \A r \in Req : setup.path[r] = "self")

\* Something is recorded of name n, or will be.
Recorded(n) ==
    \/ job[n] # None \/ row[n] # None
    \/ \E t \in Thread : pipe[t].name = n /\ pipe[t].save # None
    \/ op.name = n /\ op.save # None

Left == {n \in Name : Recorded(n) /\ Free(n) /\ \A r \in Asking : pipe[r].name # n}

Counted ==
    /\ IsFiniteSet(Done) /\ IsFiniteSet(Left)
    /\ Count + Cardinality(Asking) + Cardinality(Left) <= Cardinality(Done)

\* A job that was resumed is no request's: its name stays tracked.
Owned ==
    \A n \in Name : pipe[n].pc # "none" =>
        /\ Tracked(n)
        /\ \A r \in Request : Busy(pipe[r]) => pipe[r].name # n
        /\ \A r \in Req : api[r] = "checked" => setup.ladder[r][1] # n

Accepted == \A r \in Request : pipe[r].pc # "none" => api[r] = "done"

OnPath(x) == /\ x.pc = "create" => setup.path[x.req] = "ssh"
             /\ x.pc = "node" => setup.path[x.req] = "self"

Paths == \A t \in Thread : OnPath(pipe[t])

CInv == Counted /\ Owned /\ Accepted /\ Paths

\* All containers of a setup are created in one way.
OnePath == \A s \in Setups : \A r, q \in DOMAIN s.path : s.path[r] = s.path[q]

-----------------------------------------------------------------------------
(***************************************************************************)
(* How the count may change.                                               *)
(***************************************************************************)
LEMMA CountKeeps ==
    ASSUME NEW b \in Nat, NEW A, NEW L, NEW D, IsFiniteSet(D), IsFiniteSet(L), A \subseteq D,
           b + Cardinality(A) + Cardinality(L) <= Cardinality(D),
           NEW c, NEW B, NEW M,
           \/ c = b /\ B \subseteq A /\ M \subseteq L
           \/ \E r \in A, n \in Name : c = b /\ B \subseteq A \ {r} /\ M \subseteq L \cup {n}
           \/ \E r \in A : c = b + 1 /\ B \subseteq A \ {r} /\ M \subseteq L
           \/ \E n \in L : c = b + 1 /\ B \subseteq A /\ M \subseteq L \ {n}
    PROVE  IsFiniteSet(M) /\ c + Cardinality(B) + Cardinality(M) <= Cardinality(D)
  <1>1. IsFiniteSet(A) /\ Cardinality(A) \in Nat /\ Cardinality(L) \in Nat /\ Cardinality(D) \in Nat
    BY FS_Subset, FS_CardinalityType
  <1>2. ASSUME NEW r \in A
        PROVE  IsFiniteSet(A \ {r}) /\ Cardinality(A \ {r}) = Cardinality(A) - 1
    BY <1>1, FS_RemoveElement
  <1>3. ASSUME NEW n
        PROVE  IsFiniteSet(L \cup {n}) /\ Cardinality(L \cup {n}) \in {Cardinality(L), Cardinality(L) + 1}
    BY FS_AddElement
  <1>4. ASSUME NEW n \in L
        PROVE  IsFiniteSet(L \ {n}) /\ Cardinality(L \ {n}) = Cardinality(L) - 1
    BY FS_RemoveElement
  <1>5. ASSUME NEW S, IsFiniteSet(S), NEW T, T \subseteq S
        PROVE  IsFiniteSet(T) /\ Cardinality(T) \in Nat /\ Cardinality(T) <= Cardinality(S)
               /\ Cardinality(S) \in Nat
    BY <1>5, FS_Subset, FS_CardinalityType
  <1>6. CASE c = b /\ B \subseteq A /\ M \subseteq L
    <2>1. Cardinality(B) \in Nat /\ Cardinality(B) <= Cardinality(A)
      BY <1>1, <1>5, <1>6
    <2>2. IsFiniteSet(M) /\ Cardinality(M) \in Nat /\ Cardinality(M) <= Cardinality(L)
      BY <1>5, <1>6
    <2>. QED BY <1>1, <1>6, <2>1, <2>2
  <1>7. CASE \E r \in A, n \in Name : c = b /\ B \subseteq A \ {r} /\ M \subseteq L \cup {n}
    <2>1. PICK r \in A, n \in Name : c = b /\ B \subseteq A \ {r} /\ M \subseteq L \cup {n}
      BY <1>7
    <2>2. Cardinality(B) \in Nat /\ Cardinality(B) <= Cardinality(A) - 1
      BY <1>2, <1>5, <2>1
    <2>3. IsFiniteSet(M) /\ Cardinality(M) \in Nat /\ Cardinality(M) <= Cardinality(L) + 1
      <3>1. /\ IsFiniteSet(M) /\ Cardinality(M) \in Nat
            /\ Cardinality(M) <= Cardinality(L \cup {n})
        BY <1>3, <1>5, <2>1
      <3>2. Cardinality(L \cup {n}) = Cardinality(L) \/ Cardinality(L \cup {n}) = Cardinality(L) + 1
        BY <1>3
      <3>. HIDE <1>3
      <3>. QED BY <3>1, <3>2, <1>1
    <2>. QED BY <1>1, <2>1, <2>2, <2>3
  <1>8. CASE \E r \in A : c = b + 1 /\ B \subseteq A \ {r} /\ M \subseteq L
    <2>1. PICK r \in A : c = b + 1 /\ B \subseteq A \ {r} /\ M \subseteq L
      BY <1>8
    <2>2. Cardinality(B) \in Nat /\ Cardinality(B) <= Cardinality(A) - 1
      BY <1>2, <1>5, <2>1
    <2>3. IsFiniteSet(M) /\ Cardinality(M) \in Nat /\ Cardinality(M) <= Cardinality(L)
      BY <1>5, <2>1
    <2>. QED BY <1>1, <2>1, <2>2, <2>3
  <1>9. CASE \E n \in L : c = b + 1 /\ B \subseteq A /\ M \subseteq L \ {n}
    <2>1. PICK n \in L : c = b + 1 /\ B \subseteq A /\ M \subseteq L \ {n}
      BY <1>9
    <2>2. Cardinality(B) \in Nat /\ Cardinality(B) <= Cardinality(A)
      BY <1>1, <1>5, <2>1
    <2>3. IsFiniteSet(M) /\ Cardinality(M) \in Nat /\ Cardinality(M) <= Cardinality(L) - 1
      BY <1>4, <1>5, <2>1
    <2>. QED BY <1>1, <2>1, <2>2, <2>3
  <1>. QED BY <1>6, <1>7, <1>8, <1>9

\* A restart: every request that may still ask leaves at most the name it is at.
LEMMA CountRestarts ==
    ASSUME NEW b \in Nat, NEW A, NEW L, NEW D, IsFiniteSet(D), IsFiniteSet(L), A \subseteq D,
           b + Cardinality(A) + Cardinality(L) <= Cardinality(D),
           NEW f, NEW M, \A m \in M : m \in L \/ \E r \in A : m = f[r]
    PROVE  IsFiniteSet(M) /\ b + Cardinality({}) + Cardinality(M) <= Cardinality(D)
  <1>1. IsFiniteSet(A) /\ Cardinality(A) \in Nat /\ Cardinality(L) \in Nat /\ Cardinality(D) \in Nat
    BY FS_Subset, FS_CardinalityType
  <1>. DEFINE T == {f[r] : r \in A}
              g == [r \in A |-> f[r]]
  <1>2. g \in Surjection(A, T)
    BY DEF Surjection
  <1>3. IsFiniteSet(T) /\ Cardinality(T) <= Cardinality(A)
    BY <1>1, <1>2, FS_Surjection
  <1>. HIDE DEF T
  <1>4. /\ IsFiniteSet(L \cup T) /\ Cardinality(T) \in Nat /\ Cardinality(L \cap T) \in Nat
        /\ Cardinality(L \cup T) = Cardinality(L) + Cardinality(T) - Cardinality(L \cap T)
    <2>1. IsFiniteSet(L \cap T)
      BY <1>3, FS_Subset
    <2>. QED BY <1>3, <2>1, FS_Union, FS_CardinalityType
  <1>. M \subseteq L \cup T
    BY DEF T
  <1>5. IsFiniteSet(M) /\ Cardinality(M) \in Nat /\ Cardinality(M) <= Cardinality(L \cup T)
    BY <1>4, FS_Subset, FS_CardinalityType
  <1>6. Cardinality({}) = 0
    BY FS_EmptySet
  <1>. QED BY <1>1, <1>3, <1>4, <1>5, <1>6

LEMMA CountIsNat ==
    ASSUME JobInv
    PROVE  IsFiniteSet(Supplied) /\ Count \in Nat
  <1>. DEFINE f == [c \in DOMAIN box |-> box[c].name]
  <1>1. f \in Surjection(DOMAIN box, Supplied)
    BY DEF Surjection, Supplied
  <1>2. IsFiniteSet(DOMAIN box)
    BY Lengths, FS_Interval DEF JobInv
  <1>. QED BY <1>1, <1>2, FS_Surjection, FS_CardinalityType DEF Count

LEMMA Numbers ==
    ASSUME JobInv, CInv
    PROVE  /\ Count \in Nat /\ Asking \subseteq Done
           /\ IsFiniteSet(Done) /\ IsFiniteSet(Left)
           /\ Count + Cardinality(Asking) + Cardinality(Left) <= Cardinality(Done)
  BY CountIsNat DEF CInv, Counted, Accepted, Asking, Done, MayAsk

\* What a step may do to the count, and what it then still says.
Spends ==
    \/ Count' = Count /\ Asking' \subseteq Asking /\ Left' \subseteq Left
    \/ \E r \in Asking, n \in Name :
          Count' = Count /\ Asking' \subseteq Asking \ {r} /\ Left' \subseteq Left \cup {n}
    \/ \E r \in Asking :
          Count' = Count + 1 /\ Asking' \subseteq Asking \ {r} /\ Left' \subseteq Left
    \/ \E n \in Left :
          Count' = Count + 1 /\ Asking' \subseteq Asking /\ Left' \subseteq Left \ {n}

LEMMA SpendsKeeps ==
    ASSUME JobInv, CInv, Spends, Done' = Done
    PROVE  Counted'
  <1>. DEFINE b == Count
              c == Count'
  <1>1. /\ b \in Nat /\ Asking \subseteq Done /\ IsFiniteSet(Done) /\ IsFiniteSet(Left)
        /\ b + Cardinality(Asking) + Cardinality(Left) <= Cardinality(Done)
    BY Numbers
  <1>2. \/ c = b /\ Asking' \subseteq Asking /\ Left' \subseteq Left
        \/ \E r \in Asking, n \in Name :
              c = b /\ Asking' \subseteq Asking \ {r} /\ Left' \subseteq Left \cup {n}
        \/ \E r \in Asking : c = b + 1 /\ Asking' \subseteq Asking \ {r} /\ Left' \subseteq Left
        \/ \E n \in Left : c = b + 1 /\ Asking' \subseteq Asking /\ Left' \subseteq Left \ {n}
    BY DEF Spends
  <1>3. IsFiniteSet(Left') /\ c + Cardinality(Asking') + Cardinality(Left') <= Cardinality(Done)
    <2>. HIDE DEF b, c
    <2>1. PICK A, L, D, B, M : A = Asking /\ L = Left /\ D = Done /\ B = Asking' /\ M = Left'
      OBVIOUS
    <2>. QED BY <1>1, <1>2, <2>1, CountKeeps
  <1>. QED BY <1>1, <1>3 DEF Counted
-----------------------------------------------------------------------------
(***************************************************************************)
(* The names that have a container: the same, or name n more.              *)
(***************************************************************************)
SameNames == Count' = Count /\ \A m \in Name : Given(m)' <=> Given(m)

OneMore(n) == /\ Count' = Count + 1
              /\ \A m \in Name : Given(m)' <=> Given(m) \/ m = n

LEMMA BoxUnchanged ==
    ASSUME UNCHANGED box
    PROVE  SameNames
  BY DEF SameNames, Given, Count, Supplied

LEMMA MovedNames ==
    ASSUME JobInv, Moved
    PROVE  SameNames
  <1>1. DOMAIN box' = DOMAIN box
    BY LenProperties DEF JobInv, Typed, Moved
  <1>2. \A d \in DOMAIN box : box'[d].name = box[d].name
    BY DEF Moved
  <1>3. Supplied' = Supplied
    BY <1>1, <1>2 DEF Supplied
  <1>. QED BY <1>1, <1>2, <1>3 DEF SameNames, Given, Count

\* What a new container does to the sequence.
LEMMA Appended ==
    ASSUME JobInv, NEW n \in Name, NEW q \in Req, NEW st \in Status,
           box' = Append(box, [name |-> n, req |-> q, st |-> st])
    PROVE  /\ Len(box) \in Nat /\ DOMAIN box = 1 .. Len(box) /\ DOMAIN box' = 1 .. (Len(box) + 1)
           /\ \A i \in DOMAIN box : box'[i] = box[i]
           /\ box'[Len(box) + 1].name = n
  <1>. DEFINE e == [name |-> n, req |-> q, st |-> st]
  <1>1. box \in Seq(Container) /\ e \in Container /\ e.name = n
    BY DEF JobInv, Typed, Container
  <1>. HIDE DEF e
  <1>2. /\ Len(box') = Len(box) + 1 /\ box' \in Seq(Container)
        /\ \A i \in 1 .. Len(box) : box'[i] = box[i]
        /\ box'[Len(box) + 1] = e
    BY <1>1, AppendProperties DEF e
  <1>. QED BY <1>1, <1>2, LenProperties

LEMMA AppendedNames ==
    ASSUME JobInv, NEW n \in Name, NEW q \in Req, NEW st \in Status,
           box' = Append(box, [name |-> n, req |-> q, st |-> st])
    PROVE  IF Given(n) THEN SameNames ELSE OneMore(n)
  <1>1. /\ Len(box) \in Nat /\ DOMAIN box = 1 .. Len(box) /\ DOMAIN box' = 1 .. (Len(box) + 1)
        /\ \A i \in DOMAIN box : box'[i] = box[i]
        /\ box'[Len(box) + 1].name = n
    BY Appended
  <1>2. \A i : i \in DOMAIN box' <=> i \in DOMAIN box \/ i = Len(box) + 1
    BY <1>1
  <1>3. Supplied' = Supplied \cup {n}
    BY <1>1, <1>2 DEF Supplied
  <1>4. \A m : /\ Given(m) <=> m \in Supplied
               /\ Given(m)' <=> m \in Supplied'
    BY DEF Given, Supplied
  <1>5. Count' = IF n \in Supplied THEN Count ELSE Count + 1
    BY <1>3, CountIsNat, FS_AddElement DEF Count
  <1>. QED BY <1>3, <1>4, <1>5 DEF SameNames, OneMore

\* A name that may be asked for and is not free cannot be asked for again.
LEMMA FreeStays ==
    ASSUME UNCHANGED setup, NEW n \in Name, SameNames \/ OneMore(n), NEW m \in Name, Free(m)'
    PROVE  Free(m) /\ (OneMore(n) => m # n)
  <1>1. Free(m)' <=> ~Given(m)' /\ (m \in setup.taken => \A r \in Req : setup.path[r] = "self")
    BY SetsStay DEF Free
  <1>. QED BY <1>1 DEF SameNames, OneMore, Free

(***************************************************************************)
(* A step of pipeline t at name n that goes on as y.                       *)
(***************************************************************************)
Steps(t, y) ==
    LET x == pipe[t]
        n == x.name
    IN  /\ Busy(x) /\ pipe' = [pipe EXCEPT ![t] = y]
        /\ \A m \in Name : Tracked(m)' <=> Tracked(m)
        /\ \A m \in Name : row'[m] # None => Recorded(m)
        /\ y.save # None => Recorded(n)
        /\ Busy(y) => y.name = n
        /\ y.pc # "none" => x.pc # "none" /\ OnPath(y)
        /\ y.pc \in MayAsk => x.pc \in MayAsk
        /\ \/ SameNames
           \/ OneMore(n) /\ x.pc \in MayAsk /\ y.pc \notin MayAsk /\ (t \in Name => Free(n))

LEMMA StepsCount ==
    ASSUME JobInv, CInv, NEW t \in Thread, NEW y, Steps(t, y), UNCHANGED <<setup, api, op>>
    PROVE  CInv'
  <1>. USE ProvisionAssumption DEF JobInv, CInv
  <1>. DEFINE n == pipe[t].name
  <1>1. /\ n \in Name /\ (t \in Name => t = n)
        /\ Req' = Req /\ Req \subseteq Request
    BY SetsStay, Constants DEF Steps, Named, Typed
  <1>2. \A u \in Thread : pipe'[u] = IF u = t THEN y ELSE pipe[u]
    BY DEF Steps, Typed
  <1>3. \A u \in Thread : /\ Busy(pipe'[u]) => Busy(pipe[u]) /\ pipe'[u].name = pipe[u].name
                          /\ pipe'[u].pc # "none" => pipe[u].pc # "none"
                          /\ pipe'[u].pc \in MayAsk => /\ pipe[u].pc \in MayAsk
                                                       /\ pipe'[u].name = pipe[u].name
    BY <1>2 DEF Steps, MayAsk, Busy
  <1>4. Owned'
    <2>. SUFFICES ASSUME NEW m \in Name, pipe'[m].pc # "none"
                  PROVE  /\ Tracked(m)'
                         /\ \A r \in Request : Busy(pipe'[r]) => pipe'[r].name # m
                         /\ \A r \in Req : api[r] = "checked" => setup.ladder[r][1] # m
      BY <1>1 DEF Owned, Busy
    <2>1. pipe[m].pc # "none"
      BY <1>3 DEF Thread
    <2>2. /\ Tracked(m)
          /\ \A r \in Request : Busy(pipe[r]) => pipe[r].name # m
          /\ \A r \in Req : api[r] = "checked" => setup.ladder[r][1] # m
      BY <2>1 DEF Owned
    <2>. QED BY <1>3, <2>2 DEF Steps, Thread
  <1>5. Accepted'
    BY <1>3 DEF Accepted, Thread
  <1>6. Paths'
    <2>1. \A u \in Thread : OnPath(pipe[u])
      BY DEF Paths
    <2>2. OnPath(y)
      <3>1. CASE y.pc = "none"
        BY <3>1 DEF OnPath
      <3>2. CASE y.pc # "none"
        BY <3>2 DEF Steps
      <3>. QED BY <3>1, <3>2
    <2>. QED BY <1>2, <2>1, <2>2 DEF Paths, OnPath
  <1>7. Done' = Done /\ Asking' \subseteq Asking
    BY <1>3 DEF Done, Asking, Thread
  <1>8. ASSUME NEW m \in Name, Recorded(m)'
        PROVE  Recorded(m)
    <2>1. CASE job'[m] # None \/ row'[m] # None
      BY <2>1 DEF Steps, Tracked, Recorded
    <2>2. CASE \E u \in Thread : pipe'[u].name = m /\ pipe'[u].save # None
      <3>1. PICK u \in Thread : pipe'[u].name = m /\ pipe'[u].save # None
        BY <2>2
      <3>2. CASE u = t
        BY <3>1, <3>2, <1>2 DEF Steps, Busy
      <3>3. CASE u # t
        BY <3>1, <3>3, <1>2 DEF Recorded
      <3>. QED BY <3>2, <3>3
    <2>3. CASE op.name = m /\ op.save # None
      BY <2>3 DEF Recorded
    <2>. QED BY <1>8, <2>1, <2>2, <2>3 DEF Recorded
  <1>9. \A m \in Left' : /\ m \in Name /\ Recorded(m) /\ Free(m) /\ (OneMore(n) => m # n)
                         /\ \A r \in Asking' : pipe[r].name # m
    <2>. SUFFICES ASSUME NEW m \in Left'
                  PROVE  /\ m \in Name /\ Recorded(m) /\ Free(m) /\ (OneMore(n) => m # n)
                         /\ \A r \in Asking' : pipe[r].name # m
      OBVIOUS
    <2>1. m \in Name /\ Recorded(m)' /\ Free(m)' /\ \A r \in Asking' : pipe'[r].name # m
      BY DEF Left
    <2>2. SameNames \/ OneMore(n)
      BY DEF Steps
    <2>3. \A r \in Asking' : pipe'[r].name = pipe[r].name
      BY <1>3 DEF Asking, Thread
    <2>. QED BY <1>1, <1>8, <2>1, <2>2, <2>3, FreeStays
  <1>10. \A m \in Left' : m # n \/ t \notin Asking \/ t \in Asking' => m \in Left
    <2>1. \A r \in Asking : r \in Asking' \/ r = t
      BY <1>2 DEF Asking, Thread
    <2>. QED BY <1>9, <2>1 DEF Left
  <1>. HIDE DEF n
  <1>11. Spends
    <2>1. CASE SameNames /\ (t \in Asking => t \in Asking')
      BY <1>7, <1>10, <2>1 DEF Spends, SameNames
    <2>2. CASE SameNames /\ t \in Asking /\ t \notin Asking'
      <3>1. Asking' \subseteq Asking \ {t} /\ Left' \subseteq Left \cup {n}
        BY <1>7, <1>9, <1>10, <2>2
      <3>. QED BY <1>1, <2>2, <3>1 DEF Spends, SameNames
    <2>3. CASE ~SameNames
      <3>1. OneMore(n) /\ pipe[t].pc \in MayAsk /\ y.pc \notin MayAsk /\ (t \in Name => Free(n))
        BY <2>3 DEF Steps, n
      <3>2. \A m \in Left' : m \in Left /\ m # n
        BY <1>9, <1>10, <3>1
      <3>3. CASE t \in Request
        <4>1. t \in Asking /\ t \notin Asking'
          BY <3>1, <3>3, <1>2 DEF Asking
        <4>2. Asking' \subseteq Asking \ {t} /\ Left' \subseteq Left
          BY <1>7, <3>2, <4>1
        <4>. QED BY <3>1, <4>1, <4>2 DEF Spends, OneMore
      <3>4. CASE t \in Name
        <4>1. t = n /\ Tracked(n) /\ \A r \in Request : Busy(pipe[r]) => pipe[r].name # n
          BY <1>1, <3>1, <3>4 DEF Owned, MayAsk
        <4>2. n \in Left
          BY <1>1, <3>1, <3>4, <4>1 DEF Left, Recorded, Tracked, Asking, Busy, MayAsk
        <4>3. Left' \subseteq Left \ {n}
          BY <3>2
        <4>. QED BY <1>7, <3>1, <4>2, <4>3 DEF Spends, OneMore
      <3>. QED BY <3>3, <3>4 DEF Thread
    <2>. QED BY <2>1, <2>2, <2>3
  <1>. QED BY <1>4, <1>5, <1>6, <1>7, <1>11, SpendsKeeps
-----------------------------------------------------------------------------
(***************************************************************************)
(* The calls of a pipeline.                                                *)
(***************************************************************************)
LEMMA UpdatedTracked ==
    ASSUME JobInv, NEW n \in Name, NEW s \in State
    PROVE  Updated(n, s) # None <=> Tracked(n)
  <1>1. CASE Tracked(n) /\ ~Cancelled(n)
    <2>1. job[n] \in Slip /\ job[n] # None
      BY <1>1 DEF JobInv, Typed, Tracked
    <2>2. Updated(n, s).state = s
      BY <1>1, <2>1, WithState DEF Updated
    <2>. QED BY <1>1, <2>2, RecordIsNotNone
  <1>2. CASE ~(Tracked(n) /\ ~Cancelled(n))
    BY <1>2 DEF Updated, Tracked
  <1>. QED BY <1>1, <1>2

\* The pipeline writes rec and goes on as x.
LEMMA WriteCounts ==
    ASSUME JobInv, CInv, NEW t \in Thread, pipe[t].pc # "none",
           NEW rec, NEW x \in Pipeline, Write(t, rec, x), rec \in Slip,
           rec # None <=> Tracked(pipe[t].name),
           x.name = pipe[t].name, x.pc # "none" => OnPath(x),
           x.pc \in MayAsk => pipe[t].pc \in MayAsk,
           \/ SameNames
           \/ /\ OneMore(pipe[t].name) /\ pipe[t].pc \in MayAsk /\ x.pc \notin MayAsk
              /\ t \in Name => Free(pipe[t].name),
           UNCHANGED <<setup, api, row, op>>
    PROVE  CInv'
  <1>. DEFINE n == pipe[t].name
              save == IF Cancelled(n) /\ rec = job[n] THEN None ELSE rec
              y == [x EXCEPT !.save = save]
  <1>1. n \in Name /\ job \in [Name -> Slip]
    BY Running DEF JobInv, Typed
  <1>2. save \in Slip /\ (save = rec \/ save = None)
    BY NoneIsSlip
  <1>3. y.pc = x.pc /\ y.name = n /\ y.req = x.req /\ y.save = save
    BY <1>2 DEF Pipeline
  <1>4. job' = [job EXCEPT ![n] = rec] /\ pipe' = [pipe EXCEPT ![t] = y]
    BY DEF Write
  <1>5. OnPath(y) <=> OnPath(x)
    BY <1>3 DEF OnPath
  <1>. HIDE DEF n, save, y
  <1>6. \A m \in Name : job'[m] = IF m = n THEN rec ELSE job[m]
    BY <1>1, <1>4
  <1>7. \A m \in Name : Tracked(m)' <=> Tracked(m)
    BY <1>6 DEF Tracked, n
  <1>8. y.save # None => Recorded(n)
    BY <1>2, <1>3 DEF Recorded, Tracked, n
  <1>9. Steps(t, y)
    BY <1>3, <1>4, <1>5, <1>7, <1>8 DEF Steps, Busy, Recorded, n
  <1>. QED BY <1>9, StepsCount

LEMMA ExitCounts ==
    ASSUME JobInv, CInv, NEW t \in Thread, pipe[t].pc # "none", NEW s \in State, Exit(t, s),
           \/ SameNames
           \/ /\ OneMore(pipe[t].name) /\ pipe[t].pc \in MayAsk
              /\ t \in Name => Free(pipe[t].name),
           UNCHANGED <<setup, api, row, op>>
    PROVE  CInv'
  <1>. DEFINE n == pipe[t].name
              x == [Gone EXCEPT !.name = n]
              rec == Updated(n, s)
  <1>1. n \in Name /\ x \in Pipeline /\ x.name = n /\ x.pc = "none"
    BY Running, GoneIsPipeline
  <1>2. rec \in Slip
    <2>1. CASE Tracked(n) /\ ~Cancelled(n)
      BY <1>1, <2>1, WithState DEF JobInv, Typed, Tracked, Updated
    <2>2. CASE ~(Tracked(n) /\ ~Cancelled(n))
      BY <1>1, <2>2 DEF JobInv, Typed, Updated
    <2>. QED BY <2>1, <2>2
  <1>3. rec # None <=> Tracked(n)
    BY <1>1, UpdatedTracked
  <1>4. Write(t, rec, x) /\ x.pc \notin MayAsk
    BY <1>1 DEF Exit, MayAsk
  <1>. HIDE DEF x, rec
  <1>. QED BY <1>1, <1>2, <1>3, <1>4, WriteCounts

LEMMA UpdateCounts ==
    ASSUME JobInv, CInv, NEW t \in Thread, pipe[t].pc # "none", NEW s \in State, NEW pc \in Pc,
           Update(t, s, pc), pc \in MayAsk => pipe[t].pc \in MayAsk,
           pc = "create" => setup.path[pipe[t].req] = "ssh",
           pc = "node" => setup.path[pipe[t].req] = "self",
           UNCHANGED <<setup, api, row, op, box>>
    PROVE  CInv'
  <1>. DEFINE n == pipe[t].name
              x == [pipe[t] EXCEPT !.pc = pc]
              rec == Updated(n, s)
  <1>1. n \in Name /\ x \in Pipeline /\ x.name = n /\ x.pc = pc /\ x.req = pipe[t].req
    <2>1. n \in Name /\ pipe[t] \in Pipeline
      BY Running
    <2>. QED BY <2>1 DEF Pipeline
  <1>2. rec \in Slip
    <2>1. CASE Tracked(n) /\ ~Cancelled(n)
      BY <1>1, <2>1, WithState DEF JobInv, Typed, Tracked, Updated
    <2>2. CASE ~(Tracked(n) /\ ~Cancelled(n))
      BY <1>1, <2>2 DEF JobInv, Typed, Updated
    <2>. QED BY <2>1, <2>2
  <1>3. rec # None <=> Tracked(n)
    BY <1>1, UpdatedTracked
  <1>4. Write(t, rec, x) /\ OnPath(x) /\ SameNames
    BY <1>1, BoxUnchanged DEF Update, OnPath
  <1>. HIDE DEF x, rec
  <1>. QED BY <1>1, <1>2, <1>3, <1>4, WriteCounts

LEMMA PathsAgree ==
    ASSUME OnePath, Typed
    PROVE  \A r, q \in Req : setup.path[r] = setup.path[q]
  BY ProvisionAssumption DEF Typed, Req, OnePath

\* Whoever asks the ssh platform for a name asks for one that is free.
LEMMA Asked ==
    ASSUME OnePath, JobInv, CInv, NEW t \in Thread, pipe[t].pc = "create", ~Taken(pipe[t].name),
           box' = Ordered(t)
    PROVE  OneMore(pipe[t].name) /\ Free(pipe[t].name)
  <1>1. /\ pipe[t].name \in Name /\ pipe[t].req \in Req /\ setup.fresh \in Status
    BY Running, Constants DEF JobInv, Typed, Status
  <1>2. \A c \in DOMAIN box : ~IsPod(c)
    <2>1. setup.path[pipe[t].req] = "ssh"
      BY DEF CInv, Paths, OnPath
    <2>2. \A c \in DOMAIN box : box[c].req \in Req
      <3>1. \A c \in DOMAIN box : box[c] \in Container
        BY ElementOfSeq, LenProperties DEF JobInv, Typed
      <3>. QED BY <3>1 DEF Container
    <2>. QED BY <1>1, <2>1, <2>2, PathsAgree DEF JobInv, IsPod
  <1>3. ~Given(pipe[t].name) /\ pipe[t].name \notin setup.taken
    BY <1>2 DEF Taken, Given
  <1>4. OneMore(pipe[t].name)
    BY <1>1, <1>3, AppendedNames DEF Ordered
  <1>. QED BY <1>3, <1>4 DEF Free

LEMMA BeginCounts ==
    ASSUME JobInv, CInv, NEW t \in Thread, Begin(t)
    PROVE  CInv'
  <1>. DEFINE rec == row[pipe[t].name]
              pc == IF setup.path[pipe[t].req] = "self" THEN "node"
                    ELSE IF t \in Request \/ rec.box + rec.key = 0 THEN "create"
                    ELSE IF rec.box = 0 THEN "wait" ELSE "await"
              s == IF pc = "await" THEN "WAITING_SSH" ELSE "CREATING"
  <1>1. /\ pipe[t].pc = "begin" /\ Update(t, s, pc)
        /\ UNCHANGED <<setup, api, row, op, box>>
    BY DEF Begin, At
  <1>2. s \in State /\ pc \in Pc
    BY DEF State, Pc
  <1>3. setup.path[pipe[t].req] \in {"ssh", "self"}
    <2>1. pipe[t].req \in Req
      BY <1>1, Running
    <2>. QED BY <2>1, ProvisionAssumption DEF JobInv, Typed, Req
  <1>4. /\ pc = "create" => setup.path[pipe[t].req] = "ssh"
        /\ pc = "node" => setup.path[pipe[t].req] = "self"
    BY <1>3
  <1>. HIDE DEF s, pc
  <1>. QED BY <1>1, <1>2, <1>4, UpdateCounts DEF MayAsk

LEMMA CreateCounts ==
    ASSUME OnePath, JobInv, CInv, NEW t \in Thread, Create(t)
    PROVE  CInv'
  <1>. DEFINE n == pipe[t].name
              k == Len(box')
              rec == IF Tracked(n) THEN [job[n] EXCEPT !.key = k] ELSE None
              x == [pipe[t] EXCEPT !.pc = "wait", !.box = k]
  <1>1. /\ pipe[t].pc = "create" /\ ~Taken(n) /\ box' = Ordered(t) /\ Write(t, rec, x)
        /\ UNCHANGED <<setup, api, row, op>>
    BY DEF Create, At
  <1>2. OneMore(n) /\ Free(n) /\ n \in Name /\ pipe[t] \in Pipeline /\ k \in Nat
    BY <1>1, Asked, Running, Lengths DEF OneMore, JobInv
  <1>. HIDE DEF k
  <1>3. x \in Pipeline /\ x.pc = "wait" /\ x.name = n
    BY <1>2 DEF Pipeline, Pc
  <1>4. rec \in Slip /\ (rec # None <=> Tracked(n))
    <2>1. CASE Tracked(n)
      <3>1. job[n] \in Slip /\ job[n] # None
        BY <1>2, <2>1 DEF JobInv, Typed, Tracked
      <3>2. rec \in Slip /\ rec.state = job[n].state /\ job[n].state \in State
        BY <1>2, <2>1, <3>1, WithKey, SlipParts DEF JobInv, Typed
      <3>. QED BY <2>1, <3>2, RecordIsNotNone
    <2>2. CASE ~Tracked(n)
      BY <2>2, NoneIsSlip
    <2>. QED BY <2>1, <2>2
  <1>. HIDE DEF rec, x
  <1>. QED BY <1>1, <1>2, <1>3, <1>4, WriteCounts DEF OnPath, MayAsk

LEMMA CreateFailsCounts ==
    ASSUME OnePath, JobInv, CInv, NEW t \in Thread, CreateFails(t)
    PROVE  CInv'
  <1>1. /\ pipe[t].pc = "create" /\ Exit(t, "FAILED")
        /\ box' = box \/ (box' = Ordered(t) /\ ~Taken(pipe[t].name))
        /\ UNCHANGED <<setup, api, row, op>>
    BY DEF CreateFails, At
  <1>. QED BY <1>1, Asked, BoxUnchanged, ExitCounts DEF State, MayAsk

LEMMA WaitCreationCounts ==
    ASSUME JobInv, CInv, NEW t \in Thread, WaitCreation(t)
    PROVE  CInv'
  <1>. DEFINE n == pipe[t].name
              rec == IF Tracked(n) /\ ~Cancelled(n)
                     THEN [Identified(t) EXCEPT !.state = "WAITING_SSH"] ELSE Identified(t)
              x == [pipe[t] EXCEPT !.pc = "await"]
  <1>1. /\ pipe[t].pc = "wait" /\ Write(t, rec, x)
        /\ UNCHANGED <<setup, api, row, op, box>>
    BY DEF WaitCreation, At
  <1>2. n \in Name /\ pipe[t] \in Pipeline /\ pipe[t].box \in Nat
    BY <1>1, Running, Lengths DEF JobInv
  <1>3. x \in Pipeline /\ x.pc = "await" /\ x.name = n
    BY <1>2 DEF Pipeline, Pc
  <1>4. rec \in Slip /\ (rec # None <=> Tracked(n))
    <2>1. CASE Tracked(n)
      <3>1. job[n] \in Slip /\ job[n] # None
        BY <1>2, <2>1 DEF JobInv, Typed, Tracked
      <3>2. Identified(t) \in Slip /\ Identified(t).state = job[n].state /\ job[n].state \in State
        BY <1>2, <2>1, <3>1, WithBox, SlipParts DEF JobInv, Typed, Identified
      <3>3. Identified(t) # None
        BY <3>2, RecordIsNotNone
      <3>4. rec \in Slip /\ rec.state \in State
        BY <2>1, <3>2, <3>3, WithState DEF State
      <3>. QED BY <2>1, <3>4, RecordIsNotNone
    <2>2. CASE ~Tracked(n)
      BY <2>2, NoneIsSlip DEF Identified
    <2>. QED BY <2>1, <2>2
  <1>. HIDE DEF rec, x
  <1>. QED BY <1>1, <1>2, <1>3, <1>4, WriteCounts, BoxUnchanged DEF OnPath, MayAsk
LEMMA ExitsCount ==
    ASSUME JobInv, CInv, NEW t \in Thread,
           WaitFails(t) \/ AwaitHeld(t) \/ Stopped(t) \/ Submit(t)
    PROVE  CInv'
  <1>1. PICK s \in State : Exit(t, s)
    BY DEF WaitFails, AwaitHeld, Stopped, Submit, State
  <1>2. pipe[t].pc # "none" /\ UNCHANGED <<setup, api, row, op, box>>
    BY DEF WaitFails, AwaitHeld, Stopped, Submit, At
  <1>. QED BY <1>1, <1>2, ExitCounts, BoxUnchanged

LEMMA UpdatesCount ==
    ASSUME JobInv, CInv, NEW t \in Thread, Await(t) \/ AwaitFails(t) \/ SubmitFails(t)
    PROVE  CInv'
  <1>1. PICK s \in State, pc \in {"submit", "abandon"} : Update(t, s, pc)
    BY DEF Await, AwaitFails, SubmitFails, State
  <1>2. pipe[t].pc # "none" /\ UNCHANGED <<setup, api, row, op, box>>
    BY DEF Await, AwaitFails, SubmitFails, At
  <1>3. pc \in Pc /\ pc \notin MayAsk
    BY DEF Pc, MayAsk
  <1>. QED BY <1>1, <1>2, <1>3, UpdateCounts DEF MayAsk

\* The pipeline goes on, or ends, and writes nothing.
LEMMA PipeCounts ==
    ASSUME JobInv, CInv, NEW t \in Thread, pipe[t].pc # "none",
           NEW y, pipe' = [pipe EXCEPT ![t] = y],
           y.save # None => y.save = pipe[t].save, Busy(y) => y.name = pipe[t].name,
           y.pc # "none" => y.pc = pipe[t].pc /\ y.req = pipe[t].req,
           UNCHANGED <<setup, api, job, row, op>>, SameNames
    PROVE  CInv'
  <1>1. OnPath(pipe[t]) /\ Busy(pipe[t])
    BY DEF CInv, Paths, Busy
  <1>2. \A m \in Name : Tracked(m)' <=> Tracked(m)
    BY DEF Tracked
  <1>3. Steps(t, y)
    BY <1>1, <1>2 DEF Steps, Recorded, OnPath, MayAsk
  <1>. QED BY <1>3, StepsCount

LEMMA AwaitSeesCounts ==
    ASSUME JobInv, CInv, NEW t \in Thread, AwaitSees(t)
    PROVE  CInv'
  <1>. DEFINE y == [pipe[t] EXCEPT !.seen = TRUE]
  <1>1. /\ pipe[t].pc = "await" /\ pipe' = [pipe EXCEPT ![t] = y]
        /\ UNCHANGED <<setup, api, job, row, op, box>>
    BY DEF AwaitSees, At
  <1>2. y.pc = pipe[t].pc /\ y.name = pipe[t].name /\ y.req = pipe[t].req /\ y.save = pipe[t].save
    <2>1. pipe[t] \in Pipeline
      BY <1>1, Running
    <2>. QED BY <2>1 DEF Pipeline
  <1>. HIDE DEF y
  <1>. QED BY <1>1, <1>2, BoxUnchanged, PipeCounts

LEMMA AbandonCounts ==
    ASSUME JobInv, CInv, NEW t \in Thread, Abandon(t)
    PROVE  CInv'
  <1>1. /\ pipe[t].pc = "abandon" /\ pipe' = [pipe EXCEPT ![t] = Gone]
        /\ box' \in {box, Released(pipe[t].box)}
        /\ UNCHANGED <<setup, api, job, row, op>>
    BY DEF Abandon, At
  <1>2. pipe[t].box \in DOMAIN box
    BY <1>1, Running DEF Placed
  <1>3. SameNames
    BY <1>1, <1>2, BoxUnchanged, ReleasedMoves, MovedNames DEF JobInv, Typed
  <1>4. Gone.pc = "none" /\ Gone.save = None
    BY DEF Gone
  <1>. QED BY <1>1, <1>3, <1>4, PipeCounts DEF Busy

LEMMA ProvisionNodeCounts ==
    ASSUME OnePath, JobInv, CInv, NEW t \in Thread, ProvisionNode(t)
    PROVE  CInv'
  <1>. DEFINE n == pipe[t].name
              y == [pipe[t] EXCEPT !.pc = "up"]
  <1>1. /\ pipe[t].pc = "node" /\ UNCHANGED <<setup, api, row, op>>
        /\ \/ box' = box
           \/ box' = Append(box, [name |-> n, req |-> pipe[t].req, st |-> "placed"])
        /\ \/ pipe' = [pipe EXCEPT ![t] = y] /\ UNCHANGED job
           \/ Exit(t, "FAILED")
    BY DEF ProvisionNode, At
  <1>2. n \in Name /\ pipe[t] \in Pipeline /\ pipe[t].req \in Req
    BY <1>1, Running
  <1>3. SameNames \/ (OneMore(n) /\ Free(n))
    <2>1. CASE box' = box
      BY <2>1, BoxUnchanged
    <2>2. CASE box' = Append(box, [name |-> n, req |-> pipe[t].req, st |-> "placed"])
      <3>1. IF Given(n) THEN SameNames ELSE OneMore(n)
        BY <1>2, <2>2, AppendedNames DEF Status
      <3>2. \A r \in Req : setup.path[r] = "self"
        <4>1. setup.path[pipe[t].req] = "self"
          BY <1>1 DEF CInv, Paths, OnPath
        <4>. QED BY <1>2, <4>1, PathsAgree DEF JobInv
      <3>. QED BY <3>1, <3>2 DEF Free
    <2>. QED BY <1>1, <2>1, <2>2
  <1>4. CASE Exit(t, "FAILED")
    BY <1>1, <1>3, <1>4, ExitCounts DEF State, MayAsk
  <1>5. CASE pipe' = [pipe EXCEPT ![t] = y] /\ UNCHANGED job
    <2>1. y.pc = "up" /\ y.name = n /\ y.req = pipe[t].req /\ y.save = pipe[t].save
      BY <1>2 DEF Pipeline
    <2>2. \A m \in Name : Tracked(m)' <=> Tracked(m)
      BY <1>5 DEF Tracked
    <2>. HIDE DEF y
    <2>3. Steps(t, y)
      BY <1>1, <1>3, <1>5, <2>1, <2>2 DEF Steps, Recorded, OnPath, MayAsk, Busy
    <2>. QED BY <1>1, <2>3, StepsCount
  <1>. QED BY <1>1, <1>4, <1>5

LEMMA WaitRunningCounts ==
    ASSUME JobInv, CInv, NEW t \in Thread, WaitRunning(t)
    PROVE  CInv'
  <1>. DEFINE n == pipe[t].name
              rec(c) == IF Tracked(n) THEN [Updated(n, "HANDING_OVER") EXCEPT !.box = c] ELSE None
              x(c) == [pipe[t] EXCEPT !.pc = "enrol", !.box = c]
  <1>1. /\ pipe[t].pc = "up" /\ UNCHANGED <<setup, api, row, op, box>>
        /\ (\E c \in Mine(t) : Write(t, rec(c), x(c))) \/ Exit(t, "FAILED")
    BY DEF WaitRunning, At
  <1>2. n \in Name /\ pipe[t] \in Pipeline /\ pipe[t].req \in Req
    BY <1>1, Running
  <1>3. SameNames
    BY <1>1, BoxUnchanged
  <1>4. CASE Exit(t, "FAILED")
    BY <1>1, <1>3, <1>4, ExitCounts DEF State
  <1>5. ASSUME NEW c \in Mine(t), Write(t, rec(c), x(c))
        PROVE  CInv'
    <2>1. c \in Nat
      BY Lengths DEF Mine, JobInv
    <2>2. x(c) \in Pipeline /\ x(c).pc = "enrol" /\ x(c).name = n
      BY <1>2, <2>1 DEF Pipeline, Pc
    <2>3. rec(c) \in Slip /\ (rec(c) # None <=> Tracked(n))
      <3>1. CASE Tracked(n)
        <4>1. job[n] \in Slip /\ job[n] # None
          BY <1>2, <3>1 DEF JobInv, Typed, Tracked
        <4>2. Updated(n, "HANDING_OVER") \in Slip /\ Updated(n, "HANDING_OVER").state \in State
          BY <4>1, SlipParts, WithState DEF JobInv, Typed, Updated, State
        <4>3. Updated(n, "HANDING_OVER") # None
          BY <4>2, RecordIsNotNone
        <4>. HIDE DEF n
        <4>4. rec(c) = [Updated(n, "HANDING_OVER") EXCEPT !.box = c]
          BY <3>1
        <4>5. rec(c) \in Slip /\ rec(c).state \in State
          BY <4>2, <4>3, <4>4, <2>1, WithBox
        <4>. QED BY <3>1, <4>5, RecordIsNotNone
      <3>2. CASE ~Tracked(n)
        BY <3>2, NoneIsSlip
      <3>. QED BY <3>1, <3>2
    <2>. HIDE DEF rec, x
    <2>. QED BY <1>1, <1>3, <1>5, <2>2, <2>3, WriteCounts DEF OnPath, MayAsk
  <1>. QED BY <1>1, <1>4, <1>5

LEMMA EnrolNodeCounts ==
    ASSUME JobInv, CInv, NEW t \in Thread, EnrolNode(t), pipe' # pipe \/ job' # job
    PROVE  CInv'
  <1>1. /\ pipe[t].pc = "enrol" /\ UNCHANGED <<setup, api, row, op, box>>
        /\ Exit(t, "MANAGED") \/ Exit(t, "FAILED")
    BY DEF EnrolNode, At
  <1>. QED BY <1>1, BoxUnchanged, ExitCounts DEF State

LEMMA StoreRecordCounts ==
    ASSUME JobInv, CInv, NEW t \in Thread, StoreRecord(t)
    PROVE  CInv'
  <1>. DEFINE n == pipe[t].name
              y == IF pipe[t].pc = "none" THEN Gone ELSE [pipe[t] EXCEPT !.save = None]
  <1>1. /\ pipe[t].save # None /\ row' = [row EXCEPT ![n] = pipe[t].save]
        /\ pipe' = [pipe EXCEPT ![t] = y]
        /\ UNCHANGED <<setup, api, job, op, box>>
    BY DEF StoreRecord
  <1>2. /\ n \in Name /\ pipe[t] \in Pipeline /\ row \in [Name -> Slip] /\ OnPath(pipe[t])
        /\ Busy(pipe[t])
    BY <1>1 DEF JobInv, Typed, Named, Busy, CInv, Paths
  <1>3. /\ y.save = None /\ y.pc = pipe[t].pc
        /\ y.pc # "none" => y.name = n /\ y.req = pipe[t].req
    <2>1. CASE pipe[t].pc = "none"
      BY <2>1, GoneIsPipeline
    <2>2. CASE pipe[t].pc # "none"
      <3>1. None \in Slip
        BY NoneIsSlip
      <3>. QED BY <2>2, <3>1, <1>2 DEF Pipeline
    <2>. QED BY <2>1, <2>2
  <1>. HIDE DEF y
  <1>4. \A m \in Name : row'[m] # None => Recorded(m)
    BY <1>1, <1>2 DEF Recorded
  <1>5. /\ SameNames /\ \A m \in Name : Tracked(m)' <=> Tracked(m)
    BY <1>1, BoxUnchanged DEF Tracked
  <1>6. Steps(t, y)
    BY <1>1, <1>2, <1>3, <1>4, <1>5 DEF Steps, Busy, OnPath
  <1>. QED BY <1>1, <1>6, StepsCount
-----------------------------------------------------------------------------
(***************************************************************************)
(* Steps that leave every pipeline where it is.                            *)
(***************************************************************************)
LEMMA QuietCounts ==
    ASSUME JobInv, CInv, UNCHANGED <<setup, api>>, SameNames,
           \A m \in Name : Tracked(m)' <=> Tracked(m),
           \A m \in Name : row'[m] # None => Recorded(m),
           \A m \in Name : op'.save # None /\ op'.name = m => Recorded(m),
           \A t \in Thread : /\ pipe'[t].pc = pipe[t].pc /\ pipe'[t].name = pipe[t].name
                             /\ pipe'[t].req = pipe[t].req /\ pipe'[t].save = pipe[t].save
    PROVE  CInv'
  <1>. USE DEF CInv
  <1>1. Req' = Req
    BY SetsStay
  <1>2. Owned'
    BY <1>1 DEF Owned, Busy, Thread
  <1>3. Accepted' /\ Paths' /\ Done' = Done /\ Asking' = Asking
    BY DEF Accepted, Paths, OnPath, Done, Asking, Thread
  <1>4. \A m \in Name : Recorded(m)' => Recorded(m)
    BY DEF Recorded, Tracked
  <1>5. \A m \in Name : Free(m)' => Free(m)
    BY FreeStays
  <1>6. Left' \subseteq Left
    BY <1>3, <1>4, <1>5 DEF Left, Asking, Thread
  <1>7. Spends
    BY <1>3, <1>6 DEF Spends, SameNames
  <1>. QED BY <1>2, <1>3, <1>7, SpendsKeeps

LEMMA JobsCount ==
    ASSUME JobInv, CInv, UNCHANGED <<setup, jobs>>, SameNames
    PROVE  CInv'
  <1>1. UNCHANGED <<api, job, row, pipe, op>>
    BY DEF jobs
  <1>. QED BY <1>1, QuietCounts DEF Tracked, Recorded

LEMMA CancelReadCounts ==
    ASSUME JobInv, CInv, NEW n \in Name, CancelRead(n)
    PROVE  CInv'
  <1>1. /\ op' = [pc |-> "cancel", name |-> n, save |-> None]
        /\ box' = box \/ (job[n].box # 0 /\ box' = Released(job[n].box))
        /\ UNCHANGED <<setup, api, job, row, pipe>>
    BY DEF CancelRead
  <1>2. job[n].box # 0 => job[n].box \in DOMAIN box
    BY Lengths DEF Known, Fits, JobInv
  <1>3. SameNames
    BY <1>1, <1>2, BoxUnchanged, ReleasedMoves, MovedNames DEF JobInv, Typed
  <1>. QED BY <1>1, <1>3, QuietCounts DEF Tracked, Recorded

LEMMA CancelMarkCounts ==
    ASSUME JobInv, CInv, CancelMark
    PROVE  CInv'
  <1>. DEFINE n == op.name
  <1>1. op.pc = "cancel" /\ n \in Name /\ UNCHANGED <<setup, api, row, box>>
    BY DEF CancelMark, JobInv, Named
  <1>2. SameNames
    BY <1>1, BoxUnchanged
  <1>3. CASE op' = Calm /\ UNCHANGED <<job, pipe>>
    <2>1. op'.save = None
      BY <1>3 DEF Calm
    <2>. QED BY <1>1, <1>2, <1>3, <2>1, QuietCounts DEF Tracked, Recorded
  <1>4. CASE ~(op' = Calm /\ UNCHANGED <<job, pipe>>)
    <2>. DEFINE rec == [job[n] EXCEPT !.state = "CANCELLED"]
    <2>1. /\ Tracked(n) /\ job' = [job EXCEPT ![n] = rec]
          /\ pipe' = [t \in Thread |->
                        IF t = n /\ pipe[t].pc \notin {"none", "begin"}
                        THEN [pipe[t] EXCEPT !.ctx = FALSE] ELSE pipe[t]]
          /\ op' = [op EXCEPT !.pc = "save", !.save = job'[n]]
      BY <1>4 DEF CancelMark
    <2>2. job[n] \in Slip /\ job[n] # None /\ "CANCELLED" \in State
      BY <1>1, <2>1 DEF JobInv, Typed, Tracked, State
    <2>3. rec # None
      BY <2>2, WithState, RecordIsNotNone
    <2>. HIDE DEF rec
    <2>4. \A m \in Name : job'[m] = IF m = n THEN rec ELSE job[m]
      BY <1>1, <2>1 DEF JobInv, Typed
    <2>5. op'.name = n
      BY <2>1 DEF JobInv, Typed
    <2>6. \A t \in Thread : /\ pipe'[t].pc = pipe[t].pc /\ pipe'[t].name = pipe[t].name
                            /\ pipe'[t].req = pipe[t].req /\ pipe'[t].save = pipe[t].save
      <3>. SUFFICES ASSUME NEW t \in Thread
                    PROVE  /\ pipe'[t].pc = pipe[t].pc /\ pipe'[t].name = pipe[t].name
                           /\ pipe'[t].req = pipe[t].req /\ pipe'[t].save = pipe[t].save
        OBVIOUS
      <3>1. pipe'[t] \in {pipe[t], [pipe[t] EXCEPT !.ctx = FALSE]}
        BY <2>1
      <3>2. pipe[t] \in Pipeline
        BY DEF JobInv, Typed
      <3>. QED BY <3>1, <3>2 DEF Pipeline
    <2>7. \A m \in Name : Tracked(m)' <=> Tracked(m)
      BY <2>1, <2>3, <2>4 DEF Tracked
    <2>8. \A m \in Name : op'.save # None /\ op'.name = m => Recorded(m)
      BY <2>1, <2>5 DEF Recorded, Tracked
    <2>. QED BY <1>1, <1>2, <2>6, <2>7, <2>8, QuietCounts DEF Recorded
  <1>. QED BY <1>3, <1>4

LEMMA CancelStoreCounts ==
    ASSUME JobInv, CInv, CancelStore
    PROVE  CInv'
  <1>1. /\ op.pc = "save" /\ row' = [row EXCEPT ![op.name] = op.save] /\ op' = Calm
        /\ UNCHANGED <<setup, api, job, pipe, box>>
    BY DEF CancelStore
  <1>2. op.name \in Name /\ op'.save = None
    BY <1>1 DEF JobInv, Named, Calm
  <1>3. \A m \in Name : row'[m] = IF m = op.name THEN op.save ELSE row[m]
    BY <1>1, <1>2 DEF JobInv, Typed
  <1>. QED BY <1>1, <1>2, <1>3, BoxUnchanged, QuietCounts DEF Tracked, Recorded
-----------------------------------------------------------------------------
(***************************************************************************)
(* The request, the rename and the restart.                                *)
(***************************************************************************)
LEMMA RenameCounts ==
    ASSUME JobInv, CInv, NEW t \in Thread, At(t, "create"), Taken(pipe[t].name), Climbs(t), Rename(t),
           UNCHANGED <<setup, api, op, box>>
    PROVE  CInv'
  <1>. USE ProvisionAssumption DEF JobInv, CInv
  <1>. DEFINE from == pipe[t].name
              to == Ladder(t)[pipe[t].try + 1]
              k == pipe[t].try + 1
              y == [pipe[t] EXCEPT !.name = to, !.try = k]
              z == [pipe[t] EXCEPT !.try = @ + 1]
  <1>1. /\ pipe[t].pc = "create" /\ pipe[t].save = None /\ pipe[t] \in Pipeline
        /\ from \in Name /\ pipe[t].req \in Req
    BY Running DEF At
  <1>2. t \in Request /\ t \notin Name /\ SameNames
    BY BoxUnchanged DEF Climbs
  <1>3. to \in Name
    <2>1. Ladder(t) \in Seq(Name)
      BY <1>1, Constants DEF Ladder, Typed
    <2>2. pipe[t].try \in Nat \ {0}
      BY <1>1 DEF Pipeline
    <2>3. pipe[t].try + 1 \in 1 .. Len(Ladder(t))
      BY <2>1, <2>2, LenProperties DEF Climbs
    <2>. QED BY <2>1, <2>3, ElementOfSeq
  <1>4. CASE ~(Tracked(from) /\ ~Tracked(to))
    <2>1. pipe' = [pipe EXCEPT ![t] = z] /\ UNCHANGED <<job, row>>
      BY <1>4 DEF Rename
    <2>2. /\ z.pc = pipe[t].pc /\ z.name = pipe[t].name /\ z.req = pipe[t].req
          /\ z.save = pipe[t].save
      BY <1>1 DEF Pipeline
    <2>. HIDE DEF z
    <2>. QED BY <1>1, <1>2, <2>1, <2>2, PipeCounts
  <1>5. CASE Tracked(from) /\ ~Tracked(to)
    <2>1. /\ job' = [job EXCEPT ![to] = job[from], ![from] = None]
          /\ \/ row' = [row EXCEPT ![to] = job[from], ![from] = None]
             \/ row' = [row EXCEPT ![to] = job[from]]
      BY <1>5 DEF Rename
    <2>2. pipe' = [pipe EXCEPT ![t] = y]
      <4>. DEFINE q == [pipe[t] EXCEPT !.name = to]
                  f == [pipe EXCEPT ![t] = q]
      <4>1. pipe' = [f EXCEPT ![t] = [f[t] EXCEPT !.try = pipe[t].try + 1]]
        BY <1>5 DEF Rename
      <4>2. pipe[t].try = q.try
        BY <1>1 DEF Pipeline
      <4>3. f \in [Thread -> {pipe[u] : u \in Thread} \cup {q}] /\ f[t] = q
        BY DEF Typed
      <4>4. y = [q EXCEPT !.try = k]
        BY <1>1 DEF Pipeline
      <4>. HIDE DEF q, y
      <4>5. f = [pipe EXCEPT ![t] = q]
        OBVIOUS
      <4>. HIDE DEF f
      <4>6. pipe' = [f EXCEPT ![t] = y]
        BY <4>1, <4>3, <4>4
      <4>. QED BY <4>5, <4>6 DEF Typed
    <2>3. y.pc = "create" /\ y.name = to /\ y.req = pipe[t].req /\ y.save = None
      <3>. HIDE DEF k, to, z
      <3>. DEFINE q == [pipe[t] EXCEPT !.name = to]
      <3>1. q \in Pipeline /\ q.pc = "create" /\ q.name = to /\ q.req = pipe[t].req /\ q.save = None
        BY <1>1, <1>3 DEF Pipeline
      <3>2. y = [q EXCEPT !.try = k]
        BY <1>1 DEF Pipeline
      <3>. HIDE DEF q, y
      <3>. QED BY <3>1, <3>2 DEF Pipeline
    <2>4. from # to
      BY <1>5
    <2>5. ~Free(from)
      <3>1. setup.path[pipe[t].req] = "ssh"
        BY <1>1 DEF Paths, OnPath
      <3>. QED BY <1>1, <3>1 DEF Taken, Free, Given
    <2>. HIDE DEF y, z, k, from, to
    <2>6. /\ \A n \in Name : n \notin {from, to} => job'[n] = job[n] /\ row'[n] = row[n]
          /\ \A u \in Thread : pipe'[u] = IF u = t THEN y ELSE pipe[u]
          /\ \A n \in Name : pipe'[n] = pipe[n]
      BY <1>1, <1>2, <1>3, <2>1, <2>2, <2>4 DEF Typed, Thread
    <2>7. Req' = Req
      BY SetsStay
    <2>8. Owned'
      <3>. SUFFICES ASSUME NEW m \in Name, pipe'[m].pc # "none"
                    PROVE  /\ Tracked(m)'
                           /\ \A r \in Request : Busy(pipe'[r]) => pipe'[r].name # m
                           /\ \A r \in Req : api[r] = "checked" => setup.ladder[r][1] # m
        BY <2>7 DEF Owned, Busy
      <3>1. /\ Tracked(m)
            /\ \A r \in Request : Busy(pipe[r]) => pipe[r].name # m
            /\ \A r \in Req : api[r] = "checked" => setup.ladder[r][1] # m
        BY <2>6 DEF Owned
      <3>2. m # from /\ m # to
        BY <1>1, <1>2, <1>5, <3>1 DEF Busy, from
      <3>. QED BY <2>3, <2>6, <3>1, <3>2 DEF Tracked, Thread
    <2>9. Accepted' /\ Paths' /\ Done' = Done /\ Asking' = Asking
      BY <1>1, <2>3, <2>6 DEF Accepted, Paths, OnPath, Done, Asking, Thread, MayAsk
    <2>10. Left' \subseteq Left
      <3>. SUFFICES ASSUME NEW m \in Left'
                    PROVE  m \in Left
        OBVIOUS
      <3>1. m \in Name /\ Recorded(m)' /\ Free(m)' /\ \A r \in Asking : pipe'[r].name # m
        BY <2>9 DEF Left
      <3>2. Free(m)
        BY <1>2, <3>1, FreeStays
      <3>3. m # to /\ m # from /\ t \in Asking
        BY <1>1, <1>2, <2>3, <2>5, <2>6, <3>1, <3>2 DEF Asking, MayAsk
      <3>4. Recorded(m)
        BY <2>3, <2>6, <3>1, <3>3 DEF Recorded
      <3>5. \A r \in Asking : pipe[r].name # m
        BY <2>6, <3>1, <3>3 DEF from, Asking, Thread
      <3>. QED BY <3>1, <3>2, <3>4, <3>5 DEF Left
    <2>11. Spends
      BY <1>2, <2>9, <2>10 DEF Spends, SameNames
    <2>. QED BY <2>8, <2>9, <2>11, SpendsKeeps
  <1>. QED BY <1>4, <1>5

LEMMA NameInUseCounts ==
    ASSUME JobInv, CInv, NEW t \in Thread, NameInUse(t)
    PROVE  CInv'
  <1>1. /\ At(t, "create") /\ Taken(pipe[t].name) /\ UNCHANGED <<setup, api, op, box>>
        /\ (Climbs(t) /\ Rename(t)) \/ (Exit(t, "FAILED") /\ UNCHANGED row)
    BY DEF NameInUse
  <1>2. CASE Exit(t, "FAILED") /\ UNCHANGED row
    BY <1>1, <1>2, BoxUnchanged, ExitCounts DEF At, State
  <1>. QED BY <1>1, <1>2, RenameCounts

LEMMA CallsCount ==
    ASSUME OnePath, JobInv, CInv, NEW t \in Thread, Calls(t)
    PROVE  CInv'
  <1>1. CASE EnrolNode(t) /\ pipe' = pipe /\ job' = job
    BY <1>1, BoxUnchanged, JobsCount DEF EnrolNode, jobs
  <1>. QED BY <1>1, BeginCounts, CreateCounts, CreateFailsCounts, NameInUseCounts, WaitCreationCounts,
          ExitsCount, UpdatesCount, AwaitSeesCounts, AbandonCounts, ProvisionNodeCounts,
          WaitRunningCounts, EnrolNodeCounts DEF Calls

LEMMA CheckNameCounts ==
    ASSUME JobInv, CInv, NEW r \in Req, CheckName(r)
    PROVE  CInv'
  <1>. USE ProvisionAssumption DEF JobInv, CInv
  <1>1. /\ api[r] = "new" /\ UNCHANGED <<setup, job, row, pipe, op, box>>
        /\ r \in Request /\ Req \subseteq Request /\ Req' = Req
    BY Constants, SetsStay DEF CheckName, Typed
  <1>2. \A q \in Request :
            api'[q] = IF q = r THEN IF Tracked(setup.ladder[r][1]) THEN "refused" ELSE "checked"
                      ELSE api[q]
    BY <1>1 DEF CheckName, Typed
  <1>3. \A q \in Request : /\ api'[q] = "done" <=> api[q] = "done"
                           /\ api'[q] = "checked" => api[q] = "checked" \/ ~Tracked(setup.ladder[q][1])
    BY <1>1, <1>2
  <1>4. Owned'
    <2>. SUFFICES ASSUME NEW m \in Name, pipe[m].pc # "none"
                  PROVE  /\ Tracked(m)
                         /\ \A q \in Request : Busy(pipe[q]) => pipe[q].name # m
                         /\ \A q \in Req : api'[q] = "checked" => setup.ladder[q][1] # m
      BY <1>1 DEF Owned, Busy, Tracked
    <2>1. /\ Tracked(m) /\ \A q \in Request : Busy(pipe[q]) => pipe[q].name # m
          /\ \A q \in Req : api[q] = "checked" => setup.ladder[q][1] # m
      BY DEF Owned
    <2>. QED BY <1>1, <1>3, <2>1
  <1>5. Accepted' /\ Paths' /\ Done' = Done /\ Asking' = Asking /\ SameNames
    BY <1>1, <1>3, BoxUnchanged DEF Accepted, Paths, OnPath, Done, Asking
  <1>6. Left' = Left
    BY <1>1, <1>5 DEF Left, Recorded, Free, Given
  <1>7. Spends
    BY <1>5, <1>6 DEF Spends, SameNames
  <1>. QED BY <1>4, <1>5, <1>7, SpendsKeeps

LEMMA AddCounts ==
    ASSUME JobInv, CInv, NEW r \in Req, Add(r)
    PROVE  CInv'
  <1>. USE ProvisionAssumption DEF JobInv, CInv
  <1>. DEFINE n == setup.ladder[r][1]
              rec == [state |-> "QUEUED", key |-> 0, box |-> 0, req |-> r]
              y == [Gone EXCEPT !.pc = "begin", !.name = n, !.req = r]
  <1>1. /\ api[r] = "checked" /\ api' = [api EXCEPT ![r] = "done"]
        /\ job' = [job EXCEPT ![n] = rec] /\ row' = [row EXCEPT ![n] = rec]
        /\ pipe' = [pipe EXCEPT ![r] = y]
        /\ UNCHANGED <<setup, op, box>>
    BY DEF Add
  <1>2. /\ r \in Request /\ r \in Thread /\ r \notin Name /\ n \in Name
        /\ Req \subseteq Request /\ Req' = Req /\ SameNames
    BY <1>1, Constants, SetsStay, BoxUnchanged, FirstName DEF Typed, Thread
  <1>3. y.pc = "begin" /\ y.name = n /\ y.save = None
    BY DEF Gone
  <1>4. pipe[r].pc = "none"
    BY <1>1, <1>2 DEF Accepted
  <1>. HIDE DEF n, rec, y
  <1>5. /\ \A q \in Request : api'[q] = IF q = r THEN "done" ELSE api[q]
        /\ \A m \in Name : m # n => job'[m] = job[m] /\ row'[m] = row[m]
        /\ \A u \in Thread : pipe'[u] = IF u = r THEN y ELSE pipe[u]
        /\ \A m \in Name : pipe'[m] = pipe[m]
    BY <1>1, <1>2 DEF Typed, Thread
  <1>6. Owned'
    <2>. SUFFICES ASSUME NEW m \in Name, pipe[m].pc # "none"
                  PROVE  /\ Tracked(m)'
                         /\ \A q \in Request : Busy(pipe'[q]) => pipe'[q].name # m
                         /\ \A q \in Req : api'[q] = "checked" => setup.ladder[q][1] # m
      BY <1>1, <1>2, <1>5 DEF Owned, Busy
    <2>1. /\ Tracked(m) /\ \A q \in Request : Busy(pipe[q]) => pipe[q].name # m
          /\ \A q \in Req : api[q] = "checked" => setup.ladder[q][1] # m
      BY DEF Owned
    <2>2. m # n
      BY <1>1, <2>1 DEF n
    <2>. QED BY <1>2, <1>3, <1>5, <2>1, <2>2 DEF Tracked, Thread
  <1>7. Accepted' /\ Paths'
    BY <1>1, <1>2, <1>3, <1>5 DEF Accepted, Paths, OnPath, Thread
  <1>8. Done' = Done \cup {r} /\ r \notin Done /\ Asking' = Asking \cup {r}
    BY <1>1, <1>2, <1>3, <1>5 DEF Done, Asking, MayAsk, Thread
  <1>9. Left' \subseteq Left
    <2>. SUFFICES ASSUME NEW m \in Left'
                  PROVE  m \in Left
      OBVIOUS
    <2>1. m \in Name /\ Recorded(m)' /\ Free(m)' /\ \A q \in Asking' : pipe'[q].name # m
      BY DEF Left
    <2>2. Free(m) /\ m # n
      BY <1>1, <1>2, <1>3, <1>5, <1>8, <2>1, FreeStays
    <2>3. Recorded(m)
      <3>1. CASE job'[m] # None \/ row'[m] # None
        BY <1>5, <2>1, <2>2, <3>1 DEF Recorded
      <3>2. CASE \E u \in Thread : pipe'[u].name = m /\ pipe'[u].save # None
        BY <1>3, <1>5, <3>2 DEF Recorded
      <3>3. CASE op.name = m /\ op.save # None
        BY <3>3 DEF Recorded
      <3>. QED BY <1>1, <2>1, <3>1, <3>2, <3>3 DEF Recorded
    <2>4. \A q \in Asking : pipe[q].name # m
      BY <1>4, <1>5, <1>8, <2>1 DEF Asking, MayAsk, Thread
    <2>. QED BY <2>1, <2>2, <2>3, <2>4 DEF Left
  <1>10. Counted'
    <2>1. /\ Count \in Nat /\ IsFiniteSet(Done) /\ IsFiniteSet(Left) /\ Asking \subseteq Done
          /\ Count + Cardinality(Asking) + Cardinality(Left) <= Cardinality(Done)
      BY Numbers
    <2>2. IsFiniteSet(Asking) /\ IsFiniteSet(Left')
      BY <1>9, <2>1, FS_Subset
    <2>3. IsFiniteSet(Done') /\ Cardinality(Done') = Cardinality(Done) + 1
      BY <1>8, <2>1, FS_AddElement
    <2>4. Cardinality(Asking') = Cardinality(Asking) \/ Cardinality(Asking') = Cardinality(Asking) + 1
      BY <1>8, <2>2, FS_AddElement
    <2>5. Cardinality(Left') <= Cardinality(Left)
      BY <1>9, <2>1, FS_Subset
    <2>6. /\ Cardinality(Asking) \in Nat /\ Cardinality(Left) \in Nat /\ Cardinality(Left') \in Nat
          /\ Cardinality(Done) \in Nat
      BY <2>1, <2>2, FS_CardinalityType
    <2>7. Count' + Cardinality(Asking') + Cardinality(Left') <= Cardinality(Done')
      BY <1>2, <2>1, <2>3, <2>4, <2>5, <2>6 DEF SameNames
    <2>. QED BY <2>2, <2>3, <2>7 DEF Counted
  <1>. QED BY <1>6, <1>7, <1>10

LEMMA RestartCounts ==
    ASSUME JobInv, CInv, Restart
    PROVE  CInv'
  <1>. USE ProvisionAssumption DEF JobInv, CInv
  <1>1. /\ job' = row /\ op' = Calm
        /\ pipe' = [t \in Thread |-> IF t \in Name THEN Resumed(t) ELSE Gone]
        /\ api' = [q \in Request |-> IF api[q] = "checked" THEN "refused" ELSE api[q]]
        /\ UNCHANGED <<setup, row, box>>
    BY DEF Restart
  <1>2. /\ op'.save = None /\ SameNames /\ Req' = Req /\ Req \subseteq Request
        /\ Gone.pc = "none" /\ Gone.save = None
    BY <1>1, BoxUnchanged, SetsStay, Constants DEF Calm, Gone, Typed
  <1>3. \A n \in Name : /\ Resumed(n).save = None /\ Resumed(n).pc \in {"none", "begin"}
                        /\ Resumed(n).pc # "none" => row[n] # None
    BY DEF Resumed, Gone
  <1>4. /\ \A n \in Name : pipe'[n] = Resumed(n)
        /\ \A r \in Request : pipe'[r] = Gone
        /\ \A r \in Request : api'[r] # "checked" /\ (api'[r] = "done" <=> api[r] = "done")
    BY <1>1 DEF Thread
  <1>5. Owned'
    BY <1>1, <1>2, <1>3, <1>4 DEF Owned, Tracked, Busy
  <1>6. Accepted' /\ Paths' /\ Done' = Done /\ Asking' = {}
    BY <1>1, <1>2, <1>3, <1>4 DEF Accepted, Paths, OnPath, Done, Asking, MayAsk, Thread
  <1>. DEFINE f == [r \in Asking |-> pipe[r].name]
  <1>7. Left' \subseteq Left \cup {f[r] : r \in Asking}
    <2>. SUFFICES ASSUME NEW m \in Left', \A r \in Asking : pipe[r].name # m
                  PROVE  m \in Left
      OBVIOUS
    <2>1. m \in Name /\ Recorded(m)' /\ Free(m)'
      BY DEF Left
    <2>2. row[m] # None
      BY <1>1, <1>2, <1>3, <1>4, <2>1 DEF Recorded, Thread
    <2>3. Free(m)
      BY <1>1, <1>2, <2>1, FreeStays
    <2>. QED BY <2>1, <2>2, <2>3 DEF Left, Recorded
  <1>8. Counted'
    <2>1. /\ Count \in Nat /\ IsFiniteSet(Done) /\ IsFiniteSet(Left) /\ Asking \subseteq Done
          /\ Count + Cardinality(Asking) + Cardinality(Left) <= Cardinality(Done)
      BY Numbers
    <2>. HIDE DEF f
    <2>2. PICK b, A, L, D, M, h : /\ b = Count /\ A = Asking /\ L = Left /\ D = Done
                                  /\ M = Left' /\ h = f
      OBVIOUS
    <2>4. /\ b \in Nat /\ IsFiniteSet(D) /\ IsFiniteSet(L) /\ A \subseteq D
          /\ b + Cardinality(A) + Cardinality(L) <= Cardinality(D)
      BY <2>1, <2>2
    <2>5. \A m \in M : m \in L \/ \E r \in A : m = h[r]
      BY <1>7, <2>2
    <2>. HIDE <2>1, <2>2
    <2>3. IsFiniteSet(M) /\ b + Cardinality({}) + Cardinality(M) <= Cardinality(D)
      BY <2>4, <2>5, CountRestarts
    <2>. QED BY <1>2, <1>6, <2>1, <2>2, <2>3 DEF Counted, SameNames
  <1>. QED BY <1>5, <1>6, <1>8

LEMMA PlatformCounts ==
    ASSUME JobInv, CInv, NEW c \in DOMAIN box, Platform(c)
    PROVE  CInv'
  <1>1. SameNames /\ UNCHANGED <<setup, jobs>>
    BY PlatformMoves, MovedNames DEF Platform
  <1>. QED BY <1>1, JobsCount

LEMMA NextCounts ==
    ASSUME OnePath, IInv, CInv, [Next]_vars
    PROVE  CInv'
  <1>. JobInv
    BY DEF IInv, JobInv
  <1>1. CASE \E r \in Req : CheckName(r) \/ Add(r)
    BY <1>1, CheckNameCounts, AddCounts
  <1>2. CASE \E t \in Thread : StoreRecord(t) \/ Calls(t)
    BY <1>2, StoreRecordCounts, CallsCount
  <1>3. CASE (\E n \in Name : CancelRead(n)) \/ CancelMark \/ CancelStore
    BY <1>3, CancelReadCounts, CancelMarkCounts, CancelStoreCounts
  <1>4. CASE (\E k \in DOMAIN onb : Pick(k)) \/ Install \/ Enrol \/ Prepare \/ UNCHANGED vars
    <2>1. UNCHANGED <<setup, jobs, box>>
      BY <1>4 DEF Pick, Install, Enrol, Prepare, vars
    <2>. QED BY <2>1, BoxUnchanged, JobsCount
  <1>5. CASE Restart \/ \E c \in DOMAIN box : Platform(c)
    BY <1>5, RestartCounts, PlatformCounts
  <1>. QED BY <1>1, <1>2, <1>3, <1>4, <1>5 DEF Next, Req

LEMMA InitCounts == Init => CInv
  <1>. SUFFICES ASSUME Init
                PROVE  CInv
    OBVIOUS
  <1>. USE DEF Init
  <1>1. /\ \A t \in Thread : pipe[t].pc = "none" /\ pipe[t].save = None
        /\ \A n \in Name : job[n] = None /\ row[n] = None
        /\ op.save = None
    BY DEF Gone, Calm
  <1>2. Done = {} /\ Asking = {} /\ Left = {} /\ Supplied = {}
    BY <1>1 DEF Supplied, Done, Asking, Left, Recorded, MayAsk, Thread
  <1>3. Counted
    BY <1>2, FS_EmptySet DEF Counted, Count
  <1>4. Owned /\ Accepted /\ Paths
    BY <1>1 DEF Owned, Accepted, Paths, OnPath, Thread
  <1>. QED BY <1>3, <1>4 DEF CInv

-----------------------------------------------------------------------------
(***************************************************************************)
(* Under one name there is a second container only when the first is gone. *)
(* A step that asks for a container asks for a name whose containers, if   *)
(* it has any, are gone, and none of them comes back.                      *)
(***************************************************************************)
Unrepeated ==
    \A c, d \in DOMAIN box : c < d /\ box[c].name = box[d].name => box[c].st = "gone"

Supplies ==
    \E n \in Name, q \in Req, st \in Status :
        /\ box' = Append(box, [name |-> n, req |-> q, st |-> st])
        /\ \A c \in DOMAIN box : box[c].name = n => box[c].st = "gone"

BoxSteps == UNCHANGED box \/ Moved \/ Supplies

LEMMA CallsSupply ==
    ASSUME OnePath, JobInv, CInv, NEW t \in Thread, Calls(t)
    PROVE  BoxSteps
  <1>. USE DEF BoxSteps
  <1>1. \A c \in DOMAIN box : box[c].req \in Req
    <2>1. \A c \in DOMAIN box : box[c] \in Container
      BY ElementOfSeq, LenProperties DEF JobInv, Typed
    <2>. QED BY <2>1 DEF Container
  <1>2. CASE Create(t) \/ CreateFails(t)
    <2>1. pipe[t].pc = "create" /\ (box' = box \/ (box' = Ordered(t) /\ ~Taken(pipe[t].name)))
      BY <1>2 DEF Create, CreateFails, At
    <2>2. /\ pipe[t].name \in Name /\ pipe[t].req \in Req /\ setup.fresh \in Status
          /\ setup.path[pipe[t].req] = "ssh"
      BY <2>1, Running, Constants DEF JobInv, Typed, Status, CInv, Paths, OnPath
    <2>3. \A c \in DOMAIN box : ~IsPod(c)
      BY <1>1, <2>2, PathsAgree DEF JobInv, IsPod
    <2>. QED BY <2>1, <2>2, <2>3 DEF Supplies, Ordered, Taken
  <1>3. CASE Abandon(t)
    <2>1. /\ pipe[t].pc = "abandon"
          /\ box' = box \/ box' = Released(pipe[t].box)
      BY <1>3 DEF Abandon, At
    <2>2. pipe[t].box \in DOMAIN box
      BY <2>1, Running DEF Placed
    <2>. QED BY <2>1, <2>2, ReleasedMoves DEF JobInv, Typed
  <1>4. CASE ProvisionNode(t)
    <2>1. /\ pipe[t].pc = "node"
          /\ \/ box' = box
             \/ /\ box' = Append(box, [name |-> pipe[t].name, req |-> pipe[t].req, st |-> "placed"])
                /\ Mine(t) = {}
      BY <1>4 DEF ProvisionNode, At
    <2>2. /\ pipe[t].name \in Name /\ pipe[t].req \in Req /\ "placed" \in Status
          /\ setup.path[pipe[t].req] = "self"
      BY <2>1, Running DEF Status, CInv, Paths, OnPath
    <2>3. \A c \in DOMAIN box : IsPod(c)
      BY <1>1, <2>2, PathsAgree DEF JobInv, IsPod
    <2>4. Mine(t) = {} => \A c \in DOMAIN box : box[c].name = pipe[t].name => box[c].st = "gone"
      BY <2>3 DEF Mine
    <2>. QED BY <2>1, <2>2, <2>4 DEF Supplies
  <1>5. CASE ~(Create(t) \/ CreateFails(t) \/ Abandon(t) \/ ProvisionNode(t))
    BY <1>5 DEF Calls, Begin, NameInUse, WaitCreation, WaitFails, Await, AwaitSees, AwaitHeld,
                AwaitFails, Stopped, Submit, SubmitFails, WaitRunning, EnrolNode
  <1>. QED BY <1>2, <1>3, <1>4, <1>5

LEMMA NextSupplies ==
    ASSUME OnePath, IInv, CInv, [Next]_vars
    PROVE  BoxSteps
  <1>. JobInv
    BY DEF IInv, JobInv
  <1>1. CASE \E t \in Thread : Calls(t)
    BY <1>1, CallsSupply
  <1>2. CASE \E n \in Name : CancelRead(n)
    <2>1. PICK n \in Name : CancelRead(n)
      BY <1>2
    <2>2. box' = box \/ (job[n].box # 0 /\ box' = Released(job[n].box))
      BY <2>1 DEF CancelRead
    <2>3. job[n].box # 0 => job[n].box \in DOMAIN box
      BY Lengths DEF Known, Fits, JobInv
    <2>. QED BY <2>2, <2>3, ReleasedMoves DEF JobInv, Typed, BoxSteps
  <1>3. CASE \E c \in DOMAIN box : Platform(c)
    BY <1>3, PlatformMoves DEF BoxSteps
  <1>4. CASE ~((\E t \in Thread : Calls(t)) \/ (\E n \in Name : CancelRead(n))
               \/ (\E c \in DOMAIN box : Platform(c)))
    BY <1>4 DEF Next, CheckName, Add, StoreRecord, CancelMark, CancelStore, Pick, Install, Enrol,
                Prepare, Restart, vars, BoxSteps
  <1>. QED BY <1>1, <1>2, <1>3, <1>4

LEMMA UnrepeatedKeeps ==
    ASSUME JobInv, BoxSteps, Unrepeated
    PROVE  Unrepeated'
  <1>1. CASE UNCHANGED box
    BY <1>1 DEF Unrepeated
  <1>2. CASE Moved
    <2>1. DOMAIN box' = DOMAIN box
      BY <1>2, LenProperties DEF JobInv, Typed, Moved
    <2>. QED BY <1>2, <2>1 DEF Moved, Unrepeated
  <1>3. CASE Supplies
    <2>1. PICK n \in Name, q \in Req, st \in Status :
              /\ box' = Append(box, [name |-> n, req |-> q, st |-> st])
              /\ \A c \in DOMAIN box : box[c].name = n => box[c].st = "gone"
      BY <1>3 DEF Supplies
    <2>2. /\ Len(box) \in Nat /\ DOMAIN box = 1 .. Len(box) /\ DOMAIN box' = 1 .. (Len(box) + 1)
          /\ \A i \in DOMAIN box : box'[i] = box[i]
          /\ box'[Len(box) + 1].name = n
      BY <2>1, Appended
    <2>3. ASSUME NEW c \in DOMAIN box', NEW d \in DOMAIN box', c < d, box'[c].name = box'[d].name
          PROVE  box'[c].st = "gone"
      <3>1. c \in DOMAIN box /\ box'[c] = box[c] /\ (d \in DOMAIN box \/ d = Len(box) + 1)
        BY <2>2, <2>3
      <3>. QED BY <2>1, <2>2, <2>3, <3>1 DEF Unrepeated
    <2>. QED BY <2>3 DEF Unrepeated
  <1>. QED BY <1>1, <1>2, <1>3 DEF BoxSteps

\* Containers are created under no more names than requests were accepted, however
\* many names were taken, replies lost and restarts made, and never under a name
\* whose container is still there, as long as all come in one way.  With two ways a name that one platform has
\* given may be free on the other, and a row that a failed rename left behind is
\* then a request of its own (README).
THEOREM ProvisionOneContainer == OnePath => (Spec => []OneContainer)
  <1>. SUFFICES ASSUME OnePath
                PROVE  Spec => []OneContainer
    OBVIOUS
  <1>1. IInv /\ CInv /\ Unrepeated => OneContainer
    <2>. SUFFICES ASSUME IInv, CInv, Unrepeated
                  PROVE  OneContainer
      OBVIOUS
    <2>1. /\ Count \in Nat /\ Asking \subseteq Done /\ IsFiniteSet(Done) /\ IsFiniteSet(Left)
          /\ Count + Cardinality(Asking) + Cardinality(Left) <= Cardinality(Done)
      BY Numbers DEF IInv, JobInv
    <2>2. /\ Cardinality(Asking) \in Nat /\ Cardinality(Left) \in Nat /\ Cardinality(Done) \in Nat
      BY <2>1, FS_Subset, FS_CardinalityType
    <2>3. Count <= Cardinality(Done)
      BY <2>1, <2>2
    <2>. QED BY <2>3 DEF OneContainer, Unrepeated, Done, Count
  <1>2. IInv /\ CInv /\ [Next]_vars => CInv'
    BY NextCounts
  <1>3. IInv /\ CInv /\ Unrepeated /\ [Next]_vars => Unrepeated'
    BY NextSupplies, UnrepeatedKeeps DEF IInv, JobInv
  <1>4. Init => Unrepeated
    BY DEF Init, Unrepeated
  <1>. QED BY <1>1, <1>2, <1>3, <1>4, InitCounts, Invariant, PTL DEF Spec
=============================================================================
