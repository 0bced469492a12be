------------------------ MODULE CapacityEvents_proofs ------------------------
(***************************************************************************)
(* Properties of CapacityEvents, for any number of instances, endpoints    *)
(* and goroutines, any clock bound and any faults.  The first three: every *)
(* variable keeps its type, two instances never share an endpoint, and     *)
(* what an event was answered is final.                                    *)
(*                                                                         *)
(* The inductive invariant says who may do what to a row.  Whoever admits  *)
(* or changes an endpoint holds the admission mutex from the look at the   *)
(* other rows to the write; whoever writes a row back holds its lock, so   *)
(* that the identity in its copy is the identity of the row; and an event  *)
(* has one handler, which leaves it PENDING until it completes it.         *)
(***************************************************************************)
EXTENDS CapacityEventsProperties, Store_proofs, WellFoundedInduction

(***************************************************************************)
(* The invariant.                                                          *)
(***************************************************************************)
Resting == {"idle", "done"}
Working == {"apply", "admit", "allocate", "touch", "update", "store", "request",
            "reclaim", "drain", "complete"}

\* Where a goroutine holds the admission mutex, and where it holds a lock.
Admitting == {"admit", "allocate", "store"}
Locking   == Admitting \cup {"drain"}

Handler == [pc : Resting \cup Working, event : AnyEvent, copy : Row, result : Result]

Known    == DOMAIN address \cup {0}
Names(r) == {r.ident, r.pu.ident} \subseteq Known

\* The variables as functions and records.
Typed ==
    /\ now \in Time
    /\ DOMAIN address \subseteq 1 .. now
    /\ \A n \in DOMAIN address : address[n] \in Address
    /\ container \in [Instance -> 0 .. MaxTime]
    /\ sent \subseteq Event
    /\ row \in [Instance -> Row]
    /\ log \in [DOMAIN log -> Result] /\ DOMAIN log \subseteq Event
    /\ lock \in [Instance -> Executor \cup {Nobody, Owner}]
    /\ work \in [Instance -> Row]
    /\ admission \in Executor \cup {Nobody}
    /\ exec \in [Executor -> Handler]
    /\ replay \in [cursor : AnyEvent, todo : SUBSET Event]
    /\ pull \in [stage : {"idle", "read", "list", "sweep"}, observed : Time,
                 view : [Instance -> 0 .. MaxTime], rows : [Instance -> Row],
                 todo : SUBSET Instance]
    /\ missing \in [Instance -> {"none", "running", "elapsed"}]
    /\ shown \in [Instance -> Sight]
    /\ faults \in 0 .. MaxFaults

\* Every identity anybody names is one the partner issued.
Issued ==
    /\ \A i \in Instance : container[i] \in Known /\ pull.view[i] \in Known
    /\ \A i \in Instance : Names(row[i]) /\ Names(work[i]) /\ Names(pull.rows[i])
    /\ \A x \in Executor : Names(exec[x].copy)
    /\ \A e \in sent \cup DOMAIN log : e.ident \in Known

\* An event that is handled is undecided, and has one handler.
Claimed ==
    /\ \A x \in Executor : exec[x].event = NoEvent <=> exec[x].pc \in Resting
    /\ \A x \in Executor : exec[x].event # NoEvent => exec[x].event \in Pending
    /\ \A x, y \in Executor :
          x # y /\ exec[x].event # NoEvent => exec[x].event # exec[y].event

\* The identity of the copy is that of the row; a reclaim may have been asked for.
Fresh(c, r) == c.ident = r.ident /\ (r.pr \/ c.pu = r.pu)

Placed(x) ==
    LET self == exec[x]
        i    == self.event.inst
    IN  /\ self.pc \in Admitting => admission = x
        /\ self.pc \in Locking => lock[i] = x
        /\ self.pc \in {"allocate", "store"} => Fresh(self.copy, row[i])
        /\ self.pc \in {"admit", "store"} /\ self.event.ident # 0 =>
              ~Taken(i, self.event.ident)

OwnerCurrent == \A i \in Instance : lock[i] = Owner => Fresh(work[i], row[i])

Base   == Typed /\ Issued /\ Claimed
Places == (\A x \in Executor : Placed(x)) /\ OwnerCurrent /\ EndpointExclusive

IInv == Base /\ Places
-----------------------------------------------------------------------------
(***************************************************************************)
(* Values.                                                                 *)
(***************************************************************************)
LEMMA NoEventIsNone == NoEvent \notin Event
  BY DEF NoEvent, Event, Kind

LEMMA EventParts ==
    ASSUME NEW e \in Event
    PROVE  /\ e.at \in Time /\ e.inst \in Instance /\ e.kind \in Kind
           /\ e.ident \in 0 .. MaxTime /\ e.src \in {"push", "pull"}
           /\ e.at \in Nat /\ e.inst \in Nat /\ e.ident \in Nat
           /\ e # NoEvent /\ e \in AnyEvent
  <1>1. e # NoEvent
    BY NoEventIsNone
  <1>2. /\ e.at \in 0 .. MaxTime /\ e.inst \in Instance /\ e.kind \in Kind
        /\ e.ident \in 0 .. MaxTime /\ e.src \in {"push", "pull"}
    BY DEF Event, Time
  <1>3. MaxTime \in Nat /\ Instance \subseteq Nat
    BY EventsAssumption
  <1>4. \A n \in 0 .. MaxTime : n \in Nat
    BY <1>3
  <1>6. e.inst \in Nat
    BY <1>2, <1>3
  <1>5. e \in AnyEvent
    BY DEF AnyEvent
  <1>. QED BY <1>1, <1>2, <1>4, <1>5, <1>6 DEF Time

LEMMA NotTrackedType ==
    /\ NotTracked \in Row /\ NotTracked.ident = 0 /\ NotTracked.pu = NoUpdate
    /\ NotTracked.svc = "NONE" /\ NotTracked.inst = "ALLOCATING" /\ NotTracked.pr = FALSE
  BY FreshRowType DEF NotTracked, FreshRow

LEMMA IdleType == Idle \in Handler /\ Idle.pc = "idle" /\ Idle.event = NoEvent
                  /\ Idle.copy = NotTracked /\ Idle.result = "PENDING"
  BY NotTrackedType DEF Idle, Handler, Resting, AnyEvent, Result

LEMMA RowParts ==
    ASSUME NEW r \in Row
    PROVE  /\ r.inst \in InstanceState /\ r.svc \in ServiceState /\ r.ident \in Nat
           /\ r.seen \in Nat /\ r.pr \in BOOLEAN
           /\ r.pu \in [ident : Nat, at : Nat] /\ r.pu.ident \in Nat /\ r.pu.at \in Nat
  BY DEF Row

LEMMA NamesNothing == Names(NotTracked)
  BY NotTrackedType DEF Names, Known, NoUpdate

(***************************************************************************)
(* Replay takes the first event, and there is one: the order is by five    *)
(* numbers, and sets of numbers have least elements.                       *)
(***************************************************************************)
LEMMA KeyParts ==
    ASSUME NEW e \in Event
    PROVE  \A n \in 1 .. 5 : Key(e)[n] \in Nat
  <1>1. KindOrder[e.kind] \in Nat
    BY EventParts DEF KindOrder, Kind
  <1>2. (IF e.src = "push" THEN 0 ELSE 1) \in Nat
    OBVIOUS
  <1>. QED BY <1>1, <1>2, EventParts DEF Key

LEMMA KeyIdentifies ==
    ASSUME NEW e \in Event, NEW f \in Event, \A n \in 1 .. 5 : Key(e)[n] = Key(f)[n]
    PROVE  e = f
  <1>1. Key(e)[1] = Key(f)[1] /\ Key(e)[2] = Key(f)[2] /\ Key(e)[3] = Key(f)[3]
        /\ Key(e)[4] = Key(f)[4] /\ Key(e)[5] = Key(f)[5]
    OBVIOUS
  <1>2. e.at = f.at /\ e.inst = f.inst /\ e.ident = f.ident
    BY <1>1 DEF Key
  <1>3. e.kind = f.kind
    <2>1. KindOrder[e.kind] = KindOrder[f.kind]
      BY <1>1 DEF Key
    <2>. QED BY <2>1, EventParts DEF KindOrder, Kind
  <1>4. e.src = f.src
    <2>1. (IF e.src = "push" THEN 0 ELSE 1) = (IF f.src = "push" THEN 0 ELSE 1)
      BY <1>1 DEF Key
    <2>. QED BY <2>1, EventParts
  <1>. QED BY <1>2, <1>3, <1>4 DEF Event

LEMMA Smallest ==
    ASSUME NEW S, S \subseteq Event, S # {}, NEW n \in 1 .. 5
    PROVE  \E e \in S : \A f \in S : Key(e)[n] <= Key(f)[n]
  <1>. DEFINE T == {Key(e)[n] : e \in S}
  <1>1. T \in SUBSET Nat /\ T # {}
    BY KeyParts
  <1>2. \E k \in T : \A m \in T : ~ (<<m, k>> \in OpToRel(<, Nat))
    <2>. HIDE DEF T
    <2>. QED BY <1>1, WFMin, NatLessThanWellFounded
  <1>3. PICK k \in T : \A m \in T : ~ (m < k)
    BY <1>1, <1>2 DEF OpToRel
  <1>4. \A m \in T : k <= m
    BY <1>1, <1>3
  <1>. QED BY <1>4

LEMMA FirstIsOne ==
    ASSUME NEW S, S \subseteq Event, S # {}
    PROVE  First(S) \in S
  <1>1. PICK a1 \in S : \A f \in S : Key(a1)[1] <= Key(f)[1]
    <2>1. 1 \in 1 .. 5
      OBVIOUS
    <2>. QED BY <2>1, Smallest
  <1>. DEFINE S1 == {f \in S : Key(f)[1] = Key(a1)[1]}
  <1>2. PICK a2 \in S1 : \A f \in S1 : Key(a2)[2] <= Key(f)[2]
    <2>1. S1 \subseteq Event /\ S1 # {} /\ 2 \in 1 .. 5
      BY <1>1
    <2>. HIDE DEF S1
    <2>. QED BY <2>1, Smallest
  <1>. DEFINE S2 == {f \in S1 : Key(f)[2] = Key(a2)[2]}
  <1>3. PICK a3 \in S2 : \A f \in S2 : Key(a3)[3] <= Key(f)[3]
    <2>1. S2 \subseteq Event /\ S2 # {} /\ 3 \in 1 .. 5
      BY <1>2
    <2>. HIDE DEF S2
    <2>. QED BY <2>1, Smallest
  <1>. DEFINE S3 == {f \in S2 : Key(f)[3] = Key(a3)[3]}
  <1>4. PICK a4 \in S3 : \A f \in S3 : Key(a4)[4] <= Key(f)[4]
    <2>1. S3 \subseteq Event /\ S3 # {} /\ 4 \in 1 .. 5
      BY <1>3
    <2>. HIDE DEF S3
    <2>. QED BY <2>1, Smallest
  <1>. DEFINE S4 == {f \in S3 : Key(f)[4] = Key(a4)[4]}
  <1>5. PICK e \in S4 : \A f \in S4 : Key(e)[5] <= Key(f)[5]
    <2>1. S4 \subseteq Event /\ S4 # {} /\ 5 \in 1 .. 5
      BY <1>4
    <2>. HIDE DEF S4
    <2>. QED BY <2>1, Smallest
  <1>6. ASSUME NEW f \in S, f # e
        PROVE  Before(e, f)
    <2>1. \A n \in 1 .. 5 : Key(e)[n] \in Nat /\ Key(f)[n] \in Nat
      BY KeyParts
    <2>2. Key(e)[1] = Key(a1)[1] /\ Key(e)[2] = Key(a2)[2] /\ Key(e)[3] = Key(a3)[3]
          /\ Key(e)[4] = Key(a4)[4]
      OBVIOUS
    <2>3. \E n \in 1 .. 5 : Key(e)[n] # Key(f)[n]
      BY <1>6, KeyIdentifies
    <2>. DEFINE c == Key(e)
                d == Key(f)
    <2>4. c[1] <= d[1]
      BY <1>1, <2>2
    <2>5. c[1] = d[1] => c[2] <= d[2]
      BY <1>2, <2>2
    <2>6. c[1] = d[1] /\ c[2] = d[2] => c[3] <= d[3]
      BY <1>3, <2>2
    <2>7. c[1] = d[1] /\ c[2] = d[2] /\ c[3] = d[3] => c[4] <= d[4]
      BY <1>4, <2>2
    <2>8. c[1] = d[1] /\ c[2] = d[2] /\ c[3] = d[3] /\ c[4] = d[4] => c[5] <= d[5]
      BY <1>5, <2>2
    <2>9. \/ c[1] # d[1] \/ c[2] # d[2] \/ c[3] # d[3] \/ c[4] # d[4] \/ c[5] # d[5]
      BY <2>3
    <2>. SUFFICES \E n \in 1 .. 5 : c[n] < d[n] /\ \A m \in 1 .. n - 1 : c[m] = d[m]
      BY DEF Before
    <2>. HIDE DEF c, d
    <2>10. CASE c[1] # d[1]
      BY <2>10, <2>1, <2>4 DEF c, d
    <2>. QED BY <2>1, <2>4, <2>5, <2>6, <2>7, <2>8, <2>9 DEF c, d
  <1>7. \E g \in S : \A f \in S \ {g} : Before(g, f)
    BY <1>6
  <1>. QED BY <1>7 DEF First

-----------------------------------------------------------------------------
(***************************************************************************)
(* Steps of one goroutine.                                                 *)
(***************************************************************************)

\* x goes on with its event, or is done with it; nobody else moves.
Goes(x, n) ==
    /\ exec' = [exec EXCEPT ![x] = n]
    /\ n \in Handler /\ Names(n.copy)
    /\ n.event \in {exec[x].event, NoEvent}
    /\ n.event = NoEvent <=> n.pc \in Resting

\* A goroutine at work handles an event that is on record.
LEMMA AtWork ==
    ASSUME Base, NEW x \in Executor, exec[x].pc \in Working
    PROVE  /\ exec[x] \in Handler /\ exec[x].event \in Event /\ exec[x].event \in Pending
           /\ exec[x].event.inst \in Instance /\ exec[x].event.ident \in Known
           /\ exec[x].event # NoEvent /\ exec[x].copy \in Row /\ Names(exec[x].copy)
           /\ row[exec[x].event.inst] \in Row /\ Names(row[exec[x].event.inst])
  <1>1. exec[x] \in Handler
    BY DEF Base, Typed
  <1>2. exec[x].pc \notin Resting
    BY DEF Working, Resting
  <1>3. exec[x].event # NoEvent /\ exec[x].event \in Pending
    BY <1>2 DEF Base, Claimed
  <1>4. exec[x].event \in Event /\ exec[x].event \in DOMAIN log
    BY <1>3 DEF Base, Typed, Pending
  <1>5. exec[x].event.inst \in Instance
    BY <1>4, EventParts
  <1>. QED BY <1>1, <1>3, <1>4, <1>5 DEF Base, Typed, Issued, Handler

LEMMA GotoGoes ==
    ASSUME Base, NEW x \in Executor, exec[x].pc \in Working,
           NEW pc \in Working, NEW copy \in Row, Names(copy), Goto(x, pc, copy)
    PROVE  \E n : /\ Goes(x, n) /\ n.pc = pc /\ n.copy = copy /\ n.event = exec[x].event
                  /\ exec'[x] = n
  <1>. DEFINE n == [exec[x] EXCEPT !.pc = pc, !.copy = copy]
  <1>1. exec[x] \in Handler /\ exec[x].event # NoEvent
    BY AtWork
  <1>2. /\ n \in Handler /\ n.pc = pc /\ n.copy = copy /\ n.event = exec[x].event
    BY <1>1 DEF Handler
  <1>3. exec' = [exec EXCEPT ![x] = n]
    BY DEF Goto
  <1>. HIDE DEF n
  <1>4. exec'[x] = n
    BY <1>3 DEF Base, Typed
  <1>. QED BY <1>1, <1>2, <1>3, <1>4 DEF Goes, n, Working, Resting

LEMMA DecideGoes ==
    ASSUME Base, NEW x \in Executor, exec[x].pc \in Working,
           NEW v \in Verdict, Decide(x, v)
    PROVE  \E n : /\ Goes(x, n) /\ n.pc = "complete" /\ n.event = exec[x].event
                  /\ n.result = v /\ exec'[x] = n
  <1>. DEFINE q == [exec[x] EXCEPT !.pc = "complete", !.result = v]
              n == [q EXCEPT !.copy = NotTracked]
  <1>1. exec[x] \in Handler /\ exec[x].event # NoEvent
    BY AtWork
  <1>2. /\ q \in Handler /\ q.pc = "complete" /\ q.event = exec[x].event /\ q.result = v
    BY <1>1 DEF Handler, Working, Result
  <1>3. exec' = [exec EXCEPT ![x] = n]
    BY DEF Decide
  <1>. HIDE DEF q
  <1>4. /\ n \in Handler /\ n.pc = "complete" /\ n.event = exec[x].event /\ n.result = v
        /\ n.copy = NotTracked
    BY <1>2, NotTrackedType DEF Handler
  <1>. HIDE DEF n
  <1>5. exec'[x] = n
    BY <1>3 DEF Base, Typed
  <1>. QED BY <1>1, <1>3, <1>4, <1>5, NamesNothing DEF Goes, Resting

LEMMA FinishGoes ==
    ASSUME Base, NEW x \in Executor, NEW v \in Result, Finish(x, v)
    PROVE  \E n : Goes(x, n) /\ n.pc \in Resting /\ n.event = NoEvent /\ exec'[x] = n
  <1>. DEFINE n == IF x = Puller THEN [Idle EXCEPT !.pc = "done", !.result = v] ELSE Idle
  <1>1. exec' = [exec EXCEPT ![x] = n]
    BY DEF Finish
  <1>2. n \in Handler /\ n.pc \in Resting /\ n.event = NoEvent /\ n.copy = NotTracked
    BY IdleType DEF Handler, Resting
  <1>. HIDE DEF n
  <1>3. exec'[x] = n
    BY <1>1 DEF Base, Typed
  <1>. QED BY <1>1, <1>2, <1>3, NamesNothing DEF Goes

-----------------------------------------------------------------------------
(***************************************************************************)
(* What a step may do to rows it does not own, and to the others' places.  *)
(***************************************************************************)
Idents(r) == IF ~Active(r) THEN {} ELSE {r.ident, r.pu.ident} \ {0}

\* A reclaim may be asked for, and then no identity is pending.
Alike(r, s) == s.ident = r.ident /\ (r.pr => s.pr) /\ (s.pr \/ s.pu = r.pu)

\* No row names a new identity; only the owner of a row changes its identity.
Narrows(a) ==
    \A j \in Instance : /\ Idents(row'[j]) \subseteq Idents(row[j])
                        /\ lock[j] = a \/ Alike(row[j], row'[j])

\* Identities keep their addresses.
AddressesStay ==
    \A n \in DOMAIN address : n \in DOMAIN address' /\ address'[n] = address[n]

LEMMA AlikeSelf ==
    ASSUME NEW r
    PROVE  Alike(r, r)
  BY DEF Alike

LEMMA AlikeFresh ==
    ASSUME NEW c, NEW r, NEW s, Fresh(c, r), Alike(r, s)
    PROVE  Fresh(c, s)
  BY DEF Alike, Fresh

LEMMA ReservedIdents ==
    ASSUME NEW r
    PROVE  ReservedBy(r) = {address[n] : n \in Idents(r)}
  BY DEF ReservedBy, Idents

LEMMA IdentsIssued ==
    ASSUME NEW r, Names(r)
    PROVE  Idents(r) \subseteq DOMAIN address
  BY DEF Names, Known, Idents

LEMMA Narrowing ==
    ASSUME Base, AddressesStay,
           NEW j \in Instance, Idents(row'[j]) \subseteq Idents(row[j])
    PROVE  ReservedBy(row[j])' \subseteq ReservedBy(row[j])
  <1>1. Names(row[j])
    BY DEF Base, Issued
  <1>2. Idents(row[j]) \subseteq DOMAIN address
    BY <1>1, IdentsIssued
  <1>3. ReservedBy(row[j])' = {address'[n] : n \in Idents(row'[j])}
    BY DEF ReservedBy, Idents
  <1>4. ReservedBy(row[j]) = {address[n] : n \in Idents(row[j])}
    BY ReservedIdents
  <1>. QED BY <1>2, <1>3, <1>4 DEF AddressesStay

LEMMA ExclusiveStays ==
    ASSUME Base, EndpointExclusive, AddressesStay,
           \A j \in Instance : Idents(row'[j]) \subseteq Idents(row[j])
    PROVE  EndpointExclusive'
  <1>1. \A j \in Instance : ReservedBy(row[j])' \subseteq ReservedBy(row[j])
    BY Narrowing
  <1>. QED BY <1>1 DEF EndpointExclusive

\* The row of one instance gets an identity whose address no other row has.
LEMMA ExclusiveGrows ==
    ASSUME Base, EndpointExclusive, UNCHANGED address,
           NEW i \in Instance, NEW k, k # 0 => ~Taken(i, k),
           \A j \in Instance \ {i} : row'[j] = row[j],
           Idents(row'[i]) \subseteq Idents(row[i]) \cup ({k} \ {0})
    PROVE  EndpointExclusive'
  <1>1. \A j \in Instance : ReservedBy(row[j])' = {address[n] : n \in Idents(row'[j])}
    BY DEF ReservedBy, Idents
  <1>2. \A j \in Instance : ReservedBy(row[j]) = {address[n] : n \in Idents(row[j])}
    BY ReservedIdents
  <1>3. \A j \in Instance \ {i} : ReservedBy(row[j])' = ReservedBy(row[j])
    BY <1>1, <1>2
  <1>4. ReservedBy(row[i])' \subseteq ReservedBy(row[i]) \cup (IF k = 0 THEN {} ELSE {address[k]})
    BY <1>1, <1>2
  <1>5. k # 0 => \A j \in Instance \ {i} : address[k] \notin ReservedBy(row[j])
    BY DEF Taken
  <1>6. \A j \in Instance \ {i} : ReservedBy(row[i])' \cap ReservedBy(row[j])' = {}
    BY <1>3, <1>4, <1>5 DEF EndpointExclusive
  <1>7. \A j, m \in Instance \ {i} : j # m => ReservedBy(row[j])' \cap ReservedBy(row[m])' = {}
    BY <1>3 DEF EndpointExclusive
  <1>. QED BY <1>6, <1>7 DEF EndpointExclusive

(***************************************************************************)
(* A step of a leaves the others where they are: it changes only rows that *)
(* it owns, and identities only when it holds the admission mutex.         *)
(***************************************************************************)
LEMMA OthersKeep ==
    ASSUME Base, Places, AddressesStay, NEW a \in Executor \cup {Owner},
           \A j \in Instance : lock[j] = a \/ Alike(row[j], row'[j]),
           admission = a \/ \A j \in Instance : Idents(row'[j]) \subseteq Idents(row[j]),
           NEW y \in Executor \ {a}, exec'[y] = exec[y],
           admission = y => admission' = y,
           \A j \in Instance : lock[j] = y => lock'[j] = y
    PROVE  Placed(y)'
  <1>. DEFINE self == exec[y]
              i == self.event.inst
              k == self.event.ident
  <1>1. Placed(y)
    BY DEF Places
  <1>. SUFFICES ASSUME self.pc \in Locking PROVE Placed(y)'
    BY DEF Placed, Locking, Admitting
  <1>2. self.pc \in Working
    BY DEF Locking, Admitting, Working
  <1>3. i \in Instance /\ k \in Known
    BY <1>2, AtWork
  <1>4. lock[i] = y /\ lock'[i] = y
    BY <1>1, <1>3 DEF Placed
  <1>5. self.pc \in Admitting => admission = y /\ admission' = y
    BY <1>1 DEF Placed
  <1>6. Alike(row[i], row'[i])
    BY <1>3, <1>4
  <1>7. self.pc \in {"allocate", "store"} => Fresh(self.copy, row'[i])
    BY <1>1, <1>6, AlikeFresh DEF Placed
  <1>8. ASSUME self.pc \in {"admit", "store"}, k # 0
        PROVE  ~Taken(i, k)'
    <2>1. ~Taken(i, k)
      BY <1>1, <1>8 DEF Placed
    <2>2. \A j \in Instance : Idents(row'[j]) \subseteq Idents(row[j])
      BY <1>5, <1>8 DEF Admitting
    <2>3. \A j \in Instance : ReservedBy(row[j])' \subseteq ReservedBy(row[j])
      BY <2>2, Narrowing
    <2>4. address'[k] = address[k]
      BY <1>3, <1>8 DEF Known, AddressesStay
    <2>. QED BY <2>1, <2>3, <2>4 DEF Taken
  <1>. QED BY <1>4, <1>5, <1>7, <1>8 DEF Placed

\* A goroutine that holds nothing is in nobody's way.
LEMMA NowhereIsPlaced ==
    ASSUME NEW y \in Executor, exec'[y].pc \notin Locking
    PROVE  Placed(y)'
  BY DEF Placed, Locking, Admitting

LEMMA OwnerKeeps ==
    ASSUME OwnerCurrent,
           \A j \in Instance : lock'[j] = Owner =>
               lock[j] = Owner /\ work'[j] = work[j] /\ Alike(row[j], row'[j])
    PROVE  OwnerCurrent'
  BY AlikeFresh DEF OwnerCurrent

-----------------------------------------------------------------------------
(***************************************************************************)
(* The identities a transaction leaves in a row.                           *)
(***************************************************************************)
LEMMA ActiveRow ==
    ASSUME NEW r \in Row, r.inst # "RELEASED", r.ident # 0 \/ r.pu.ident # 0
    PROVE  Idents(r) = {r.ident, r.pu.ident} \ {0}
  BY NotTrackedType DEF Idents, Active, Tracked, NoUpdate

LEMMA RowIdents ==
    ASSUME NEW r \in Row
    PROVE  /\ Idents(r) \subseteq {r.ident, r.pu.ident} \ {0}
           /\ r.inst # "RELEASED" => Idents(r) = {r.ident, r.pu.ident} \ {0}
           /\ r.inst = "RELEASED" => Idents(r) = {}
  <1>1. Idents(r) \subseteq {r.ident, r.pu.ident} \ {0} /\ (r.inst = "RELEASED" => Idents(r) = {})
    BY DEF Idents, Active
  <1>2. ASSUME r.inst # "RELEASED" PROVE Idents(r) = {r.ident, r.pu.ident} \ {0}
    <2>1. CASE r.ident # 0 \/ r.pu.ident # 0
      BY <1>2, <2>1, ActiveRow
    <2>2. CASE r.ident = 0 /\ r.pu.ident = 0
      BY <2>2, <1>1
    <2>. QED BY <2>1, <2>2
  <1>. QED BY <1>1, <1>2

\* A merge brings in no identity but k, if the caller's copy had the row's own.
LEMMA MergedIdents ==
    ASSUME NEW c \in Row, NEW n \in Row, NEW k, Accepts(c, n),
           n.ident \in {c.ident, k},
           c.pr \/ n.pu.ident \in {c.pu.ident, 0, k}
    PROVE  /\ Merged(c, n) \in Row
           /\ Idents(Merged(c, n)) \subseteq Idents(c) \cup ({k} \ {0})
           /\ Merged(c, n).ident = n.ident
           /\ Merged(c, n).pu \in {c.pu, n.pu, NoUpdate}
  <1>. DEFINE m == Merged(c, n)
  <1>1. /\ m \in Row /\ m.inst = n.inst /\ m.ident = n.ident
        /\ m.pr = (UnderReclaim(c, n) \/ n.pr)
        /\ m.pu = KeptUpdate(c, n, UnderReclaim(c, n) \/ n.pr)
    BY MergedType
  <1>2. m.pu \in {c.pu, n.pu, NoUpdate}
    BY <1>1, KeptUpdateType
  <1>3. CASE n.inst = "RELEASED"
    BY <1>1, <1>2, <1>3, RowIdents
  <1>4. CASE n.inst # "RELEASED"
    <2>1. c.inst # "RELEASED"
      BY <1>4, RowParts DEF Accepts, ValidateTransition, CanTransitionInstance, instanceTransitions
    <2>2. Idents(c) = {c.ident, c.pu.ident} \ {0}
      BY <2>1, RowIdents
    <2>3. c.pr => m.pu = NoUpdate
      BY <1>1, <1>4 DEF UnderReclaim, KeptUpdate
    <2>4. m.pu.ident \in {c.pu.ident, 0, k}
      BY <1>2, <2>3 DEF NoUpdate
    <2>5. Idents(m) \subseteq {m.ident, m.pu.ident} \ {0}
      BY <1>1, RowIdents
    <2>. HIDE DEF m
    <2>. QED BY <1>1, <1>2, <2>2, <2>4, <2>5 DEF m
  <1>. QED BY <1>3, <1>4

LEMMA RequestIdents ==
    ASSUME NEW c \in Row
    PROVE  /\ RequestRelease(c) \in Row
           /\ Idents(RequestRelease(c)) \subseteq Idents(c)
           /\ Alike(c, RequestRelease(c))
           /\ RequestRelease(c).pu.ident \in {c.pu.ident, 0}
  <1>. DEFINE m == RequestRelease(c)
  <1>1. m \in Row /\ m.inst = c.inst /\ m.ident = c.ident
    BY RequestType
  <1>2. CASE c.pr \/ c.inst = "RELEASED"
    <2>1. m = c
      BY <1>2, RequestType
    <2>. QED BY <1>1, <2>1, AlikeSelf
  <1>3. CASE ~(c.pr \/ c.inst = "RELEASED")
    <2>1. m.pr = TRUE /\ m.pu = NoUpdate
      BY <1>3 DEF RequestRelease, Row
    <2>2. Idents(c) = {c.ident, c.pu.ident} \ {0} /\ Idents(m) \subseteq {m.ident, m.pu.ident} \ {0}
      BY <1>1, <1>3, RowIdents
    <2>. HIDE DEF m
    <2>. QED BY <1>1, <2>1, <2>2 DEF Alike, NoUpdate, m
  <1>. QED BY <1>2, <1>3

\* What a lifecycle operation writes, with the copy it read when it got the lock.
LEMMA LifecycleMovesType ==
    ASSUME NEW c \in Row, NEW n \in LifecycleMoves(c)
    PROVE  /\ n \in Row
           /\ \/ n.ident = c.ident /\ n.pu = c.pu
              \/ c.svc = "DRAINING" /\ HasUpdate(c) /\ ~c.pr
  <1>1. CASE n \in DrainMoves(c)
    <2>1. n \in {[c EXCEPT !.svc = "DRAINING"], [c EXCEPT !.inst = "RELEASING"]}
      BY <1>1 DEF DrainMoves
    <2>. QED BY <2>1 DEF Row, ServiceState, InstanceState
  <1>2. CASE n \in DrainedMoves(c)
    <2>. DEFINE idle == [c EXCEPT !.svc = "NONE", !.role = NoRole]
    <2>1. idle \in Row /\ idle.ident = c.ident /\ idle.pu = c.pu
      BY DEF Row, ServiceState, AnyRole
    <2>4. /\ c.svc = "DRAINING"
          /\ n = IF HasUpdate(c) /\ ~c.pr
                 THEN [idle EXCEPT !.inst = "PREPARING", !.ident = c.pu.ident, !.pu = NoUpdate]
                 ELSE idle
      BY <1>2, Zenon DEF DrainedMoves
    <2>. HIDE DEF idle
    <2>2. CASE HasUpdate(c) /\ ~c.pr
      <3>1. c.svc = "DRAINING"
        BY <2>4
      <3>2. n = [idle EXCEPT !.inst = "PREPARING", !.ident = c.pu.ident, !.pu = NoUpdate]
        BY <2>2, <2>4
      <3>3. c.pu.ident \in Nat
        BY RowParts
      <3>. DEFINE d == c.pu.ident
      <3>. HIDE DEF d
      <3>4. n \in Row
        <4>1. n = [idle EXCEPT !.inst = "PREPARING", !.ident = d, !.pu = NoUpdate]
          BY <3>2 DEF d
        <4>2. d \in Nat
          BY <3>3 DEF d
        <4>. QED BY <4>1, <4>2, <2>1 DEF Row, InstanceState, NoUpdate
      <3>. QED BY <3>1, <3>4, <2>2
    <2>3. CASE ~(HasUpdate(c) /\ ~c.pr)
      <3>1. n = idle
        BY <2>3, <2>4
      <3>. QED BY <3>1, <2>1
    <2>. QED BY <2>2, <2>3
  <1>3. CASE n \in StartMoves(c)
    <2>1. n = [c EXCEPT !.inst = "IDLE"] \/ \E role \in Role : n = [c EXCEPT !.svc = "STARTING", !.role = role]
      BY <1>3 DEF StartMoves
    <2>2. "IDLE" \in InstanceState /\ "STARTING" \in ServiceState /\ Role \subseteq AnyRole
      BY DEF InstanceState, ServiceState, AnyRole
    <2>3. CASE n = [c EXCEPT !.inst = "IDLE"]
      BY <2>2, <2>3 DEF Row
    <2>4. ASSUME NEW role \in Role, n = [c EXCEPT !.svc = "STARTING", !.role = role]
          PROVE  n \in Row /\ n.ident = c.ident /\ n.pu = c.pu
      <3>1. role \in AnyRole
        BY <2>2
      <3>. QED BY <2>2, <2>4, <3>1 DEF Row
    <2>. QED BY <2>1, <2>3, <2>4
  <1>4. CASE n \in ReleasedMoves(c)
    <2>1. n = [c EXCEPT !.inst = "RELEASED", !.pr = FALSE]
      BY <1>4 DEF ReleasedMoves
    <2>. QED BY <2>1 DEF Row, InstanceState
  <1>. QED BY <1>1, <1>2, <1>3, <1>4 DEF LifecycleMoves

LEMMA WrittenIdents ==
    ASSUME NEW r \in Row, NEW c \in Row, Fresh(c, r), NEW n \in LifecycleMoves(c)
    PROVE  /\ Written(r, c, n) \in Row
           /\ Idents(Written(r, c, n)) \subseteq Idents(r)
           /\ Written(r, c, n).ident \in {r.ident, r.pu.ident}
           /\ Written(r, c, n).pu.ident \in {r.pu.ident, c.pu.ident, 0}
  <1>1. n \in Row /\ (\/ n.ident = c.ident /\ n.pu = c.pu
                      \/ c.svc = "DRAINING" /\ HasUpdate(c) /\ ~c.pr)
    BY LifecycleMovesType
  <1>. DEFINE w == Written(r, c, n)
  <1>2. CASE w = r
    BY <1>2
  <1>3. CASE c.svc = "DRAINING" /\ HasUpdate(c) /\ ~c.pr /\ AcceptsUpdate(r, n)
    <2>1. w = Updated(r, n)
      BY <1>3 DEF Written
    <2>2. w \in Row /\ w.ident = r.pu.ident /\ w.pu = NoUpdate
      BY <1>1, <2>1, UpdateIdempotent
    <2>3. r.inst # "RELEASED"
      BY <1>3 DEF AcceptsUpdate, ValidateTransition, CanTransitionInstance, instanceTransitions
    <2>4. Idents(r) = {r.ident, r.pu.ident} \ {0} /\ Idents(w) \subseteq {w.ident, w.pu.ident} \ {0}
      BY <2>2, <2>3, RowIdents
    <2>. HIDE DEF w
    <2>. QED BY <2>2, <2>4 DEF NoUpdate, w
  <1>4. CASE ~(c.svc = "DRAINING" /\ HasUpdate(c) /\ ~c.pr) /\ Accepts(r, n)
    <2>1. w = Merged(r, n)
      BY <1>4 DEF Written
    <2>2. n.ident = r.ident /\ (r.pr \/ n.pu = r.pu) /\ n.pu = c.pu
      BY <1>1, <1>4 DEF Fresh
    <2>3. /\ w \in Row /\ Idents(w) \subseteq Idents(r) \cup ({0} \ {0})
          /\ w.ident = n.ident /\ w.pu \in {r.pu, n.pu, NoUpdate}
      <3>1. n \in Row /\ Accepts(r, n)
        BY <1>1, <1>4
      <3>2. n.ident \in {r.ident, 0} /\ (r.pr \/ n.pu.ident \in {r.pu.ident, 0, 0})
        BY <2>2
      <3>3. /\ Merged(r, n) \in Row
            /\ Idents(Merged(r, n)) \subseteq Idents(r) \cup ({0} \ {0})
            /\ Merged(r, n).ident = n.ident
            /\ Merged(r, n).pu \in {r.pu, n.pu, NoUpdate}
        BY <3>1, <3>2, MergedIdents
      <3>. QED BY <2>1, <3>3
    <2>. HIDE DEF w
    <2>. QED BY <2>2, <2>3 DEF NoUpdate, w
  <1>. QED BY <1>2, <1>3, <1>4 DEF Written

-----------------------------------------------------------------------------
(***************************************************************************)
(* A step of x that goes on or is done, and writes rows as it may.         *)
(***************************************************************************)
LockTypes ==
    lock \in [Instance -> Executor \cup {Nobody, Owner}] /\ admission \in Executor \cup {Nobody}

LEMMA StepKeepsBase ==
    ASSUME Base, NEW x \in Executor, NEW n, Goes(x, n),
           UNCHANGED <<partnerVars, log, loopVars, work>>,
           row' \in [Instance -> Row], \A j \in Instance : Names(row'[j]),
           LockTypes', faults' \in 0 .. MaxFaults
    PROVE  Base' /\ AddressesStay
  <1>1. /\ UNCHANGED <<now, container, address, sent, log, replay, pull, missing, shown, work>>
        /\ exec' = [exec EXCEPT ![x] = n] /\ n \in Handler /\ Names(n.copy)
        /\ n.event \in {exec[x].event, NoEvent} /\ (n.event = NoEvent <=> n.pc \in Resting)
    BY DEF partnerVars, loopVars, Goes
  <1>2. \A y \in Executor : exec'[y] = IF y = x THEN n ELSE exec[y]
    BY <1>1 DEF Base, Typed
  <1>3. exec' \in [Executor -> Handler]
    BY <1>1 DEF Base, Typed
  <1>4. Typed'
    BY <1>1, <1>3 DEF Base, Typed, LockTypes
  <1>5. Known' = Known
    BY <1>1 DEF Known
  <1>6. Issued'
    <2>1. (\A i \in Instance : container[i] \in Known /\ pull.view[i] \in Known)'
      BY <1>1, <1>5 DEF Base, Issued
    <2>2. (\A i \in Instance : Names(row[i]) /\ Names(work[i]) /\ Names(pull.rows[i]))'
      BY <1>1, <1>5 DEF Base, Issued, Names
    <2>3. (\A y \in Executor : Names(exec[y].copy))'
      BY <1>1, <1>2, <1>5 DEF Base, Issued, Names
    <2>4. (\A e \in sent \cup DOMAIN log : e.ident \in Known)'
      BY <1>1, <1>5 DEF Base, Issued
    <2>. QED BY <2>1, <2>2, <2>3, <2>4 DEF Issued
  <1>7. Claimed'
    <2>1. (\A y \in Executor : exec[y].event = NoEvent <=> exec[y].pc \in Resting)'
      BY <1>1, <1>2 DEF Base, Claimed
    <2>2. Pending' = Pending
      BY <1>1 DEF Pending
    <2>3. (\A y \in Executor : exec[y].event # NoEvent => exec[y].event \in Pending)'
      BY <1>1, <1>2, <2>2 DEF Base, Claimed
    <2>4. (\A y, z \in Executor :
              y # z /\ exec[y].event # NoEvent => exec[y].event # exec[z].event)'
      BY <1>1, <1>2 DEF Base, Claimed
    <2>. QED BY <2>1, <2>3, <2>4 DEF Claimed
  <1>8. AddressesStay
    BY <1>1 DEF AddressesStay
  <1>. QED BY <1>4, <1>6, <1>7, <1>8 DEF Base

\* What Release does, or no change, to the locks that others hold.
Lets(x) ==
    /\ work' = work /\ LockTypes'
    /\ \A y \in (Executor \cup {Owner}) \ {x} : admission = y => admission' = y
    /\ \A j \in Instance : /\ lock'[j] = Owner => lock[j] = Owner
                           /\ \A y \in Executor \ {x} : lock[j] = y => lock'[j] = y

LEMMA LetsGo ==
    ASSUME Typed, NEW x \in Executor, UNCHANGED lockVars \/ Release(x)
    PROVE  Lets(x)
  <1>1. Nobody # Owner /\ Nobody \notin Executor /\ Owner \notin Executor
    BY EventsAssumption
  <1>2. CASE UNCHANGED lockVars
    BY <1>2 DEF lockVars, Lets, LockTypes, Typed
  <1>3. CASE Release(x)
    <2>1. /\ work' = work /\ admission' = IF admission = x THEN Nobody ELSE admission
          /\ lock' = [i \in Instance |-> IF lock[i] = x THEN Nobody ELSE lock[i]]
      BY <1>3 DEF Release
    <2>2. LockTypes'
      BY <2>1 DEF LockTypes, Typed
    <2>. QED BY <1>1, <2>1, <2>2 DEF Lets
  <1>. QED BY <1>2, <1>3

\* x leaves every place it held, with a write that narrows.
LEMMA LeavesKeep ==
    ASSUME IInv, NEW x \in Executor, NEW n, Goes(x, n), n.pc \notin Locking,
           UNCHANGED <<partnerVars, log, loopVars>>, Lets(x),
           row' \in [Instance -> Row], \A j \in Instance : Names(row'[j]), Narrows(x),
           faults' \in 0 .. MaxFaults
    PROVE  IInv'
  <1>. USE DEF IInv
  <1>1. work' = work /\ LockTypes'
    BY DEF Lets
  <1>2. Base' /\ AddressesStay
    BY <1>1, StepKeepsBase
  <1>3. \A y \in Executor : exec'[y] = IF y = x THEN n ELSE exec[y]
    BY DEF Base, Typed, Goes
  <1>4. Placed(x)'
    BY <1>3, NowhereIsPlaced
  <1>5. ASSUME NEW y \in Executor \ {x}
        PROVE  Placed(y)'
    <2>1. \A j \in Instance : lock[j] = x \/ Alike(row[j], row'[j])
      BY DEF Narrows
    <2>2. \A j \in Instance : Idents(row'[j]) \subseteq Idents(row[j])
      BY DEF Narrows
    <2>3. /\ admission = y => admission' = y
          /\ \A j \in Instance : lock[j] = y => lock'[j] = y
      BY DEF Lets
    <2>4. exec'[y] = exec[y]
      BY <1>3
    <2>. QED BY <1>2, <2>1, <2>2, <2>3, <2>4, OthersKeep
  <1>6. OwnerCurrent'
    <2>1. x # Owner
      BY EventsAssumption
    <2>2. \A j \in Instance : lock'[j] = Owner =>
               lock[j] = Owner /\ work'[j] = work[j] /\ Alike(row[j], row'[j])
      BY <1>1, <2>1 DEF Lets, Narrows
    <2>. QED BY <2>2, OwnerKeeps DEF Places
  <1>7. EndpointExclusive'
    BY <1>2, ExclusiveStays DEF Places, Narrows
  <1>. QED BY <1>2, <1>4, <1>5, <1>6, <1>7 DEF Places

\* The same without a write, and with one.
LEMMA RowsStay ==
    ASSUME Base, NEW x, UNCHANGED row
    PROVE  row' \in [Instance -> Row] /\ (\A j \in Instance : Names(row'[j])) /\ Narrows(x)
  BY AlikeSelf DEF Base, Typed, Issued, Narrows

LEMMA PutNarrows ==
    ASSUME Base, NEW x, NEW i \in Instance, NEW r \in Row, Put(i, r), Names(r),
           Idents(r) \subseteq Idents(row[i]), lock[i] = x \/ Alike(row[i], r)
    PROVE  row' \in [Instance -> Row] /\ (\A j \in Instance : Names(row'[j])) /\ Narrows(x)
  <1>1. /\ row' \in [Instance -> Row]
        /\ \A j \in Instance : row'[j] = IF j = i THEN r ELSE row[j]
    BY DEF Base, Typed, Put
  <1>. QED BY <1>1, AlikeSelf DEF Base, Issued, Narrows

\* x goes on without a lock, or is done.
Moves(x) ==
    \/ Defer(x)
    \/ exec[x].pc \in Working /\ \E v \in Verdict : Decide(x, v)
    \/ /\ exec[x].pc \in Working
       /\ \E p \in Working \ Locking, copy \in Row : Names(copy) /\ Goto(x, p, copy)

LEMMA MovesKeep ==
    ASSUME IInv, NEW x \in Executor, Moves(x),
           UNCHANGED <<partnerVars, log, loopVars>>, UNCHANGED lockVars \/ Release(x),
           row' \in [Instance -> Row], \A j \in Instance : Names(row'[j]), Narrows(x),
           faults' \in 0 .. MaxFaults
    PROVE  IInv'
  <1>. USE DEF IInv
  <1>1. Lets(x)
    BY LetsGo DEF Base
  <1>2. \E n : Goes(x, n) /\ n.pc \notin Locking
    <2>1. CASE Defer(x)
      <3>1. "PENDING" \in Result /\ Finish(x, "PENDING")
        BY <2>1 DEF Defer, Result
      <3>2. \E n : Goes(x, n) /\ n.pc \in Resting
        BY <3>1, FinishGoes
      <3>. QED BY <3>2 DEF Resting, Locking, Admitting
    <2>2. CASE exec[x].pc \in Working /\ \E v \in Verdict : Decide(x, v)
      <3>1. \E n : Goes(x, n) /\ n.pc = "complete"
        BY <2>2, DecideGoes
      <3>. QED BY <3>1 DEF Locking, Admitting
    <2>3. ASSUME exec[x].pc \in Working, NEW p \in Working \ Locking, NEW copy \in Row,
                 Names(copy), Goto(x, p, copy)
          PROVE  \E n : Goes(x, n) /\ n.pc \notin Locking
      <3>1. \E n : Goes(x, n) /\ n.pc = p
        BY <2>3, GotoGoes
      <3>. QED BY <2>3, <3>1
    <2>. QED BY <2>1, <2>2, <2>3 DEF Moves
  <1>. QED BY <1>1, <1>2, LeavesKeep

\* The same without a write.
LEMMA MovesOnlyKeep ==
    ASSUME IInv, NEW x \in Executor, Moves(x), UNCHANGED row,
           UNCHANGED <<partnerVars, log, loopVars>>, UNCHANGED lockVars \/ Release(x),
           faults' \in 0 .. MaxFaults
    PROVE  IInv'
  BY MovesKeep, RowsStay DEF IInv

\* x takes the lock of its instance, with the admission mutex or without.
LEMMA TakesKeep ==
    ASSUME IInv, NEW x \in Executor, exec[x].pc \in Working,
           NEW i, i = exec[x].event.inst, NEW k, k = exec[x].event.ident,
           NEW p \in Locking, NEW c \in Row, Names(c), Goto(x, p, c),
           Free(i), lock' = [lock EXCEPT ![i] = x], work' = work,
           \/ p = "drain" /\ admission' = admission
           \/ admission = Nobody /\ admission' = x,
           p \in {"allocate", "store"} => c = row[i],
           p \in {"admit", "store"} => ~Taken(i, k),
           UNCHANGED <<partnerVars, row, log, loopVars, faults>>
    PROVE  IInv'
  <1>. USE DEF IInv
  <1>1. i \in Instance /\ p \in Working
    BY AtWork DEF Locking, Admitting, Working
  <1>2. PICK n : /\ Goes(x, n) /\ n.pc = p /\ n.copy = c /\ n.event = exec[x].event
                 /\ exec'[x] = n
    BY <1>1, GotoGoes
  <1>3. lock[i] = Nobody /\ admission' \in {admission, x}
    BY DEF Free
  <1>4. /\ LockTypes'
        /\ \A j \in Instance : lock'[j] = IF j = i THEN x ELSE lock[j]
    BY <1>1, <1>3 DEF Base, Typed, LockTypes
  <1>5. Base' /\ AddressesStay
    <2>1. faults' \in 0 .. MaxFaults
      BY DEF Base, Typed
    <2>. QED BY <1>2, <1>4, <2>1, RowsStay, StepKeepsBase
  <1>6. Nobody \notin Executor /\ Nobody # Owner /\ x # Owner
    BY EventsAssumption
  <1>7. Placed(x)'
    <2>1. p \in {"allocate", "store"} => Fresh(c, row'[i])
      BY DEF Fresh
    <2>2. p \in {"admit", "store"} => ~Taken(i, k)'
      BY DEF Taken, ReservedBy, partnerVars
    <2>3. lock'[i] = x
      BY <1>1, <1>4
    <2>4. p \in Admitting => admission' = x
      BY DEF Admitting
    <2>. QED BY <1>2, <2>1, <2>2, <2>3, <2>4 DEF Placed
  <1>8. ASSUME NEW y \in Executor \ {x}
        PROVE  Placed(y)'
    <2>1. /\ \A j \in Instance : lock[j] = x \/ Alike(row[j], row'[j])
          /\ \A j \in Instance : Idents(row'[j]) \subseteq Idents(row[j])
      BY AlikeSelf
    <2>2. /\ admission = y => admission' = y
          /\ \A j \in Instance : lock[j] = y => lock'[j] = y
      BY <1>3, <1>4, <1>6
    <2>3. exec'[y] = exec[y]
      BY <1>2 DEF Base, Typed, Goes
    <2>. QED BY <1>5, <2>1, <2>2, <2>3, OthersKeep
  <1>9. OwnerCurrent'
    BY <1>3, <1>4, <1>6, AlikeSelf, OwnerKeeps DEF Places
  <1>10. EndpointExclusive'
    BY <1>5, ExclusiveStays DEF Places
  <1>. QED BY <1>5, <1>7, <1>8, <1>9, <1>10 DEF Places

LEMMA AcquireKeeps ==
    ASSUME IInv, NEW x \in Executor, exec[x].pc \in Working,
           NEW i, i = exec[x].event.inst, NEW k, k = exec[x].event.ident,
           NEW p \in Admitting, Goto(x, p, row[i]), MayAdmit(i), Acquire(x, i),
           p \in {"admit", "store"} => ~Taken(i, k),
           UNCHANGED <<partnerVars, row, log, loopVars, faults>>
    PROVE  IInv'
  <1>1. row[i] \in Row /\ Names(row[i]) /\ p \in Locking
    BY AtWork DEF IInv, Locking
  <1>2. /\ Free(i) /\ admission = Nobody /\ admission' = x
        /\ lock' = [lock EXCEPT ![i] = x] /\ work' = work
    BY DEF MayAdmit, Acquire
  <1>. QED BY <1>1, <1>2, TakesKeep

\* x, which holds the admission mutex, writes its identity into its row.
LEMMA GrowsKeep ==
    ASSUME IInv, NEW x \in Executor, exec[x].pc \in Admitting,
           NEW i, i = exec[x].event.inst, NEW k, k = exec[x].event.ident,
           k # 0 => ~Taken(i, k),
           NEW r \in Row, Put(i, r), Names(r), Idents(r) \subseteq Idents(row[i]) \cup ({k} \ {0}),
           NEW n, Goes(x, n), Placed(x)',
           UNCHANGED <<partnerVars, log, loopVars, faults>>, Lets(x)
    PROVE  IInv'
  <1>. USE DEF IInv
  <1>1. exec[x].pc \in Working /\ exec[x].pc \in Locking
    BY DEF Admitting, Working, Locking
  <1>2. i \in Instance
    BY <1>1, AtWork
  <1>3. admission = x /\ lock[i] = x
    BY <1>1 DEF Places, Placed
  <1>4. /\ row' \in [Instance -> Row]
        /\ \A j \in Instance : row'[j] = IF j = i THEN r ELSE row[j]
    BY <1>2 DEF Base, Typed, Put
  <1>5. \A j \in Instance : Names(row'[j])
    BY <1>4 DEF Base, Issued
  <1>6. Base' /\ AddressesStay
    <2>1. faults' \in 0 .. MaxFaults
      BY DEF Base, Typed
    <2>. QED BY <1>4, <1>5, <2>1, StepKeepsBase DEF Lets
  <1>7. x # Owner
    BY EventsAssumption
  <1>8. \A j \in Instance : lock[j] = x \/ Alike(row[j], row'[j])
    BY <1>3, <1>4, AlikeSelf
  <1>9. ASSUME NEW y \in Executor \ {x}
        PROVE  Placed(y)'
    <2>1. /\ admission = y => admission' = y
          /\ \A j \in Instance : lock[j] = y => lock'[j] = y
      BY DEF Lets
    <2>2. exec'[y] = exec[y]
      BY DEF Base, Typed, Goes
    <2>. QED BY <1>3, <1>6, <1>8, <2>1, <2>2, OthersKeep
  <1>10. OwnerCurrent'
    <2>1. \A j \in Instance : lock'[j] = Owner =>
               lock[j] = Owner /\ work'[j] = work[j] /\ Alike(row[j], row'[j])
      BY <1>7, <1>8 DEF Lets
    <2>. QED BY <2>1, OwnerKeeps DEF Places
  <1>11. EndpointExclusive'
    <2>1. UNCHANGED address
      BY DEF partnerVars
    <2>2. Idents(row'[i]) \subseteq Idents(row[i]) \cup ({k} \ {0})
      BY <1>2, <1>4
    <2>3. \A j \in Instance \ {i} : row'[j] = row[j]
      BY <1>4
    <2>. QED BY <1>2, <1>6, <2>1, <2>2, <2>3, ExclusiveGrows DEF Places
  <1>. QED BY <1>6, <1>9, <1>10, <1>11 DEF Places

-----------------------------------------------------------------------------
(***************************************************************************)
(* The handlers.                                                           *)
(***************************************************************************)
LEMMA HandleAddedKeeps ==
    ASSUME IInv, NEW x \in Executor, HandleAdded(x)
    PROVE  IInv'
  <1>. DEFINE e == exec[x].event
              i == e.inst
              r == row[i]
              refused == HasRevokeAfter(e) \/ AddRejected(e, r)
              settled == AddSettled(e, r)
              taken == ~Active(r) /\ Taken(i, e.ident)
  <1>1. exec[x].pc \in Working /\ UNCHANGED <<partnerVars, row, log, loopVars, faults>>
        /\ faults' \in 0 .. MaxFaults
    BY DEF HandleAdded, Handles, Working, IInv, Base, Typed
  <1>2. \/ Defer(x) /\ UNCHANGED lockVars
        \/ /\ Decide(x, IF refused \/ ~settled THEN "REJECTED" ELSE "APPLIED")
           /\ UNCHANGED lockVars
        \/ /\ MayAdmit(i) /\ ~taken /\ Acquire(x, i)
           /\ Goto(x, IF Active(r) THEN "allocate" ELSE "admit", r)
    BY DEF HandleAdded
  <1>3. CASE Defer(x) /\ UNCHANGED lockVars
    BY <1>1, <1>3, MovesOnlyKeep DEF Moves
  <1>4. CASE /\ Decide(x, IF refused \/ ~settled THEN "REJECTED" ELSE "APPLIED")
             /\ UNCHANGED lockVars
    <2>. HIDE DEF refused, settled
    <2>1. \E v \in Verdict : Decide(x, v)
      BY <1>4 DEF Verdict
    <2>. QED BY <1>1, <1>4, <2>1, MovesOnlyKeep DEF Moves
  <1>5. CASE /\ MayAdmit(i) /\ ~taken /\ Acquire(x, i)
             /\ Goto(x, IF Active(r) THEN "allocate" ELSE "admit", r)
    <2>1. CASE Active(r)
      <3>1. Goto(x, "allocate", r) /\ "allocate" \in Admitting
        BY <1>5, <2>1 DEF Admitting
      <3>. QED BY <1>1, <1>5, <3>1, AcquireKeeps
    <2>2. CASE ~Active(r)
      <3>1. Goto(x, "admit", r) /\ "admit" \in Admitting /\ ~Taken(i, e.ident)
        BY <1>5, <2>2 DEF Admitting
      <3>. QED BY <1>1, <1>5, <3>1, AcquireKeeps
    <2>. QED BY <2>1, <2>2
  <1>. HIDE DEF refused, settled, taken
  <1>. QED BY <1>2, <1>3, <1>4, <1>5

LEMMA HandleUpdatedKeeps ==
    ASSUME IInv, NEW x \in Executor, HandleUpdated(x)
    PROVE  IInv'
  <1>. DEFINE r == row[exec[x].event.inst]
  <1>1. /\ exec[x].pc \in Working /\ UNCHANGED <<partnerVars, row, log, lockVars, loopVars, faults>>
        /\ faults' \in 0 .. MaxFaults
    BY DEF HandleUpdated, Handles, Working, IInv, Base, Typed
  <1>2. r \in Row /\ Names(r) /\ NotTracked \in Row /\ Names(NotTracked)
    BY <1>1, AtWork, NotTrackedType, NamesNothing DEF IInv
  <1>3. Decide(x, "REJECTED") \/ Goto(x, "touch", r) \/ Goto(x, "update", NotTracked)
    BY DEF HandleUpdated
  <1>. HIDE DEF r
  <1>4. Moves(x)
    BY <1>1, <1>2, <1>3 DEF Moves, Verdict, Working, Locking, Admitting
  <1>. QED BY <1>1, <1>4, MovesOnlyKeep

LEMMA TouchKeeps ==
    ASSUME IInv, NEW x \in Executor, Touch(x)
    PROVE  IInv'
  <1>. DEFINE e == exec[x].event
              r == row[e.inst]
              s == [r EXCEPT !.seen = e.at]
  <1>1. /\ exec[x].pc \in Working /\ UNCHANGED <<partnerVars, log, lockVars, loopVars, faults>>
        /\ faults' \in 0 .. MaxFaults
    BY DEF Touch, Working, IInv, Base, Typed
  <1>2. r \in Row /\ Names(r) /\ e \in Event /\ e.inst \in Instance
    BY <1>1, AtWork DEF IInv
  <1>3. CASE Put(e.inst, s) /\ Recordable(r) /\ Decide(x, "APPLIED")
    <2>1. e.at \in Nat
      BY <1>2, EventParts
    <2>2. s \in Row /\ s.ident = r.ident /\ s.pu = r.pu /\ s.inst = r.inst /\ s.pr = r.pr
      BY <1>2, <2>1 DEF Row
    <2>3. r.inst # "RELEASED"
      BY <1>3 DEF Recordable, Active
    <2>. HIDE DEF s
    <2>4. Idents(s) \subseteq Idents(r)
      BY <1>2, <2>2, <2>3, RowIdents
    <2>5. Names(s) /\ Alike(r, s)
      BY <1>2, <2>2 DEF Names, Alike
    <2>6. row' \in [Instance -> Row] /\ (\A j \in Instance : Names(row'[j])) /\ Narrows(x)
      BY <1>2, <1>3, <2>2, <2>4, <2>5, PutNarrows DEF IInv
    <2>7. Moves(x)
      BY <1>1, <1>3 DEF Moves, Verdict
    <2>. QED BY <1>1, <2>6, <2>7, MovesKeep
  <1>4. CASE UNCHANGED row /\ Goto(x, "update", NotTracked)
    <2>1. Moves(x)
      BY <1>1, <1>4, NotTrackedType, NamesNothing DEF Moves, Working, Locking, Admitting
    <2>. QED BY <1>1, <1>4, <2>1, MovesOnlyKeep
  <1>. QED BY <1>3, <1>4 DEF Touch

LEMMA UpdateKeeps ==
    ASSUME IInv, NEW x \in Executor, Update(x)
    PROVE  IInv'
  <1>. DEFINE e == exec[x].event
              i == e.inst
              r == row[i]
              refused == UpdateRejected(e, r)
              taken == Active(r) /\ Taken(i, e.ident)
  <1>1. exec[x].pc \in Working /\ UNCHANGED <<partnerVars, row, log, loopVars, faults>>
        /\ faults' \in 0 .. MaxFaults
    BY DEF Update, Working, IInv, Base, Typed
  <1>2. \/ Defer(x) /\ UNCHANGED lockVars
        \/ /\ Decide(x, IF refused \/ taken THEN "REJECTED" ELSE "APPLIED")
           /\ UNCHANGED lockVars
        \/ /\ MayAdmit(i) /\ Active(r) /\ ~taken /\ Acquire(x, i) /\ Goto(x, "store", r)
    BY DEF Update
  <1>3. CASE Defer(x) /\ UNCHANGED lockVars
    BY <1>1, <1>3, MovesOnlyKeep DEF Moves
  <1>4. CASE /\ Decide(x, IF refused \/ taken THEN "REJECTED" ELSE "APPLIED")
             /\ UNCHANGED lockVars
    <2>. HIDE DEF refused, taken
    <2>1. \E v \in Verdict : Decide(x, v)
      BY <1>4 DEF Verdict
    <2>. QED BY <1>1, <1>4, <2>1, MovesOnlyKeep DEF Moves
  <1>5. CASE /\ MayAdmit(i) /\ Active(r) /\ ~taken /\ Acquire(x, i) /\ Goto(x, "store", r)
    <2>1. "store" \in Admitting /\ ~Taken(i, e.ident)
      BY <1>5 DEF Admitting
    <2>. QED BY <1>1, <1>5, <2>1, AcquireKeeps
  <1>. HIDE DEF refused, taken
  <1>. QED BY <1>2, <1>3, <1>4, <1>5

LEMMA HandleRevokedKeeps ==
    ASSUME IInv, NEW x \in Executor, HandleRevoked(x)
    PROVE  IInv'
  <1>. DEFINE r == row[exec[x].event.inst]
  <1>1. /\ exec[x].pc \in Working /\ UNCHANGED <<partnerVars, row, log, lockVars, loopVars, faults>>
        /\ faults' \in 0 .. MaxFaults
    BY DEF HandleRevoked, Handles, Working, IInv, Base, Typed
  <1>2. r \in Row /\ Names(r)
    BY <1>1, AtWork DEF IInv
  <1>3. Defer(x) \/ Decide(x, "APPLIED") \/ Decide(x, "REJECTED") \/ Goto(x, "request", r)
    BY DEF HandleRevoked
  <1>. HIDE DEF r
  <1>4. Moves(x)
    BY <1>1, <1>2, <1>3 DEF Moves, Verdict, Working, Locking, Admitting
  <1>. QED BY <1>1, <1>4, MovesOnlyKeep

LEMMA RequestReclaimKeeps ==
    ASSUME IInv, NEW x \in Executor, RequestReclaim(x)
    PROVE  IInv'
  <1>. DEFINE i == exec[x].event.inst
              r == row[i]
              s == RequestRelease(r)
  <1>1. /\ exec[x].pc \in Working /\ UNCHANGED <<partnerVars, log, lockVars, loopVars, faults>>
        /\ faults' \in 0 .. MaxFaults
    BY DEF RequestReclaim, Working, IInv, Base, Typed
  <1>2. /\ r \in Row /\ Names(r) /\ i \in Instance
        /\ exec[x].copy \in Row /\ Names(exec[x].copy)
    BY <1>1, AtWork DEF IInv
  <1>3. CASE Put(i, s) /\ Goto(x, "reclaim", exec[x].copy)
    <2>1. /\ s \in Row /\ Idents(s) \subseteq Idents(r) /\ Alike(r, s)
          /\ s.pu.ident \in {r.pu.ident, 0}
      BY <1>2, RequestIdents
    <2>2. Names(s)
      BY <1>2, <2>1 DEF Names, Alike, Known
    <2>. HIDE DEF s
    <2>3. row' \in [Instance -> Row] /\ (\A j \in Instance : Names(row'[j])) /\ Narrows(x)
      BY <1>2, <1>3, <2>1, <2>2, PutNarrows DEF IInv
    <2>4. Moves(x)
      BY <1>1, <1>2, <1>3 DEF Moves, Working, Locking, Admitting
    <2>. QED BY <1>1, <2>3, <2>4, MovesKeep
  <1>4. CASE UNCHANGED row /\ Defer(x)
    BY <1>1, <1>4, MovesOnlyKeep DEF Moves
  <1>. QED BY <1>3, <1>4 DEF RequestReclaim

LEMMA ReclaimKeeps ==
    ASSUME IInv, NEW x \in Executor, Reclaim(x)
    PROVE  IInv'
  <1>. DEFINE i == exec[x].event.inst
  <1>1. /\ exec[x].pc \in Working /\ UNCHANGED <<partnerVars, row, log, loopVars, faults>>
        /\ faults' \in 0 .. MaxFaults
    BY DEF Reclaim, Working, IInv, Base, Typed
  <1>2. CASE UNCHANGED lockVars /\ Decide(x, "APPLIED")
    BY <1>1, <1>2, MovesOnlyKeep DEF Moves, Verdict
  <1>3. CASE /\ Free(i) /\ lock' = [lock EXCEPT ![i] = x] /\ UNCHANGED <<work, admission>>
             /\ Goto(x, "drain", NotTracked)
    <2>1. "drain" \in Locking
      BY DEF Locking
    <2>. HIDE DEF i
    <2>2. i = exec[x].event.inst
      BY DEF i
    <2>. QED BY <1>1, <1>3, <2>1, <2>2, NotTrackedType, NamesNothing, TakesKeep
  <1>. QED BY <1>2, <1>3 DEF Reclaim

LEMMA AllocateKeeps ==
    ASSUME IInv, NEW x \in Executor, Allocate(x)
    PROVE  IInv'
  <1>. DEFINE i == exec[x].event.inst
              r == row[i]
              c == exec[x].copy
              n == [c EXCEPT !.inst = "PREPARING"]
              m == Merged(r, n)
  <1>1. /\ exec[x].pc = "allocate" /\ exec[x].pc \in Working /\ Release(x)
        /\ UNCHANGED <<partnerVars, log, loopVars, faults>> /\ faults' \in 0 .. MaxFaults
    BY DEF Allocate, Working, IInv, Base, Typed
  <1>2. r \in Row /\ Names(r) /\ i \in Instance /\ c \in Row /\ Names(c)
    BY <1>1, AtWork DEF IInv
  <1>3. CASE Accepts(r, n) /\ Put(i, m) /\ Decide(x, "APPLIED")
    <2>1. lock[i] = x /\ Fresh(c, r)
      BY <1>1 DEF IInv, Places, Placed, Locking, Admitting
    <2>2. n \in Row /\ n.ident = c.ident /\ n.pu = c.pu
      BY <1>2 DEF Row, InstanceState
    <2>. HIDE DEF n, c, r
    <2>3. n.ident \in {r.ident, 0} /\ (r.pr \/ n.pu.ident \in {r.pu.ident, 0, 0})
      BY <2>1, <2>2 DEF Fresh
    <2>4. /\ m \in Row /\ Idents(m) \subseteq Idents(r) \cup ({0} \ {0})
          /\ m.ident = n.ident /\ m.pu \in {r.pu, n.pu, NoUpdate}
      BY <1>2, <1>3, <2>2, <2>3, MergedIdents
    <2>. HIDE DEF m
    <2>5. Names(m) /\ Idents(m) \subseteq Idents(r)
      BY <1>2, <2>2, <2>4 DEF Names, NoUpdate, Known
    <2>6. row' \in [Instance -> Row] /\ (\A j \in Instance : Names(row'[j])) /\ Narrows(x)
      BY <1>2, <1>3, <2>1, <2>4, <2>5, PutNarrows DEF IInv, r
    <2>7. Moves(x)
      BY <1>1, <1>3 DEF Moves, Verdict
    <2>. QED BY <1>1, <2>6, <2>7, MovesKeep
  <1>4. CASE UNCHANGED row /\ Defer(x)
    BY <1>1, <1>4, MovesOnlyKeep DEF Moves
  <1>. QED BY <1>3, <1>4 DEF Allocate

LEMMA DrainKeeps ==
    ASSUME IInv, NEW x \in Executor, Drain(x)
    PROVE  IInv'
  <1>. DEFINE i == exec[x].event.inst
              r == row[i]
  <1>1. /\ exec[x].pc = "drain" /\ exec[x].pc \in Working /\ Release(x) /\ Decide(x, "APPLIED")
        /\ UNCHANGED <<partnerVars, log, loopVars, faults>> /\ faults' \in 0 .. MaxFaults
    BY DEF Drain, Working, IInv, Base, Typed
  <1>2. r \in Row /\ Names(r) /\ i \in Instance
    BY <1>1, AtWork DEF IInv
  <1>3. Moves(x)
    BY <1>1 DEF Moves, Verdict
  <1>4. ASSUME NEW n \in DrainMoves(r), Put(i, Written(r, r, n))
        PROVE  IInv'
    <2>. DEFINE w == Written(r, r, n)
    <2>1. lock[i] = x
      BY <1>1 DEF IInv, Places, Placed, Locking
    <2>2. Fresh(r, r) /\ n \in LifecycleMoves(r)
      BY DEF Fresh, LifecycleMoves
    <2>3. /\ w \in Row /\ Idents(w) \subseteq Idents(r) /\ w.ident \in {r.ident, r.pu.ident}
          /\ w.pu.ident \in {r.pu.ident, r.pu.ident, 0}
      BY <1>2, <2>2, WrittenIdents
    <2>. HIDE DEF w
    <2>4. Names(w)
      BY <1>2, <2>3 DEF Names, Known
    <2>5. row' \in [Instance -> Row] /\ (\A j \in Instance : Names(row'[j])) /\ Narrows(x)
      BY <1>2, <1>4, <2>1, <2>3, <2>4, PutNarrows DEF IInv, w
    <2>. QED BY <1>1, <1>3, <2>5, MovesKeep
  <1>5. CASE UNCHANGED row
    BY <1>1, <1>3, <1>5, MovesOnlyKeep
  <1>. QED BY <1>4, <1>5 DEF Drain

\* The row an admission creates.
LEMMA AdmittedRow ==
    ASSUME NEW e \in Event
    PROVE  LET new == [FreshRow(e.ident) EXCEPT !.seen = e.at]
           IN  new \in Row /\ new.ident = e.ident /\ new.pu = NoUpdate
  <1>1. e.ident \in Nat /\ e.at \in Nat
    BY EventParts
  <1>. DEFINE f == FreshRow(e.ident)
  <1>2. f \in Row /\ f.ident = e.ident /\ f.pu = NoUpdate
    BY <1>1, FreshRowType DEF FreshRow
  <1>. HIDE DEF f
  <1>3. LET new == [f EXCEPT !.seen = e.at]
        IN  new \in Row /\ new.ident = e.ident /\ new.pu = NoUpdate
    BY <1>1, <1>2 DEF Row
  <1>. QED BY <1>3 DEF f

LEMMA AdmitKeeps ==
    ASSUME IInv, NEW x \in Executor, Admit(x)
    PROVE  IInv'
  <1>. DEFINE ev == exec[x].event
              new == [FreshRow(ev.ident) EXCEPT !.seen = ev.at]
  <1>1. PICK i, k : i = exec[x].event.inst /\ k = exec[x].event.ident
    OBVIOUS
  <1>2. /\ exec[x].pc = "admit" /\ exec[x].pc \in Admitting /\ exec[x].pc \in Working
        /\ UNCHANGED <<partnerVars, log, loopVars, faults>> /\ faults' \in 0 .. MaxFaults
    BY DEF Admit, Admitting, Working, IInv, Base, Typed
  <1>3. row[i] \in Row /\ Names(row[i]) /\ i \in Instance /\ ev \in Event /\ k \in Known
    BY <1>1, <1>2, AtWork DEF IInv
  <1>4. CASE Put(i, Reoffered(row[i], new)) /\ Goto(x, "allocate", new) /\ UNCHANGED lockVars
    <2>1. new \in Row /\ new.ident = k /\ new.pu = NoUpdate
      BY <1>1, <1>3, AdmittedRow
    <2>. HIDE DEF new, ev
    <2>. DEFINE m == Reoffered(row[i], new)
    <2>2. m \in Row /\ m.ident = k /\ m.pu = NoUpdate
      BY <1>3, <2>1, ReofferIdempotent
    <2>. HIDE DEF m
    <2>3. Names(m) /\ Names(new)
      BY <1>3, <2>1, <2>2 DEF Names, NoUpdate, Known
    <2>4. Idents(m) \subseteq {k} \ {0}
      BY <2>2, RowIdents DEF NoUpdate
    <2>5. /\ k # 0 => ~Taken(i, k)
          /\ admission = x /\ lock[i] = x
      BY <1>1, <1>2 DEF IInv, Places, Placed, Locking
    <2>6. PICK n : /\ Goes(x, n) /\ n.pc = "allocate" /\ n.copy = new
                   /\ n.event = exec[x].event /\ exec'[x] = n
      <3>1. "allocate" \in Working
        BY DEF Working
      <3>. QED BY <1>2, <1>4, <2>1, <2>3, <3>1, GotoGoes DEF IInv
    <2>7. Lets(x)
      BY <1>4, LetsGo DEF IInv, Base
    <2>8. Placed(x)'
      <3>1. row'[i] = m
        BY <1>3, <1>4 DEF Put, m, IInv, Base, Typed
      <3>2. Fresh(new, m)
        BY <2>1, <2>2 DEF Fresh
      <3>3. admission' = x /\ lock'[i] = x
        BY <1>4, <2>5 DEF lockVars
      <3>. QED BY <1>1, <2>6, <3>1, <3>2, <3>3 DEF Placed
    <2>9. Put(i, m) /\ Idents(m) \subseteq Idents(row[i]) \cup ({k} \ {0})
      BY <1>4, <2>4 DEF m
    <2>. QED BY <1>1, <1>2, <2>2, <2>3, <2>5, <2>6, <2>7, <2>8, <2>9, GrowsKeep
  <1>5. CASE Release(x) /\ Defer(x) /\ UNCHANGED row
    BY <1>2, <1>5, MovesOnlyKeep DEF Moves
  <1>. HIDE DEF new
  <1>. QED BY <1>1, <1>4, <1>5 DEF Admit, new

LEMMA StoreUpdateKeeps ==
    ASSUME IInv, NEW x \in Executor, StoreUpdate(x)
    PROVE  IInv'
  <1>. DEFINE ev == exec[x].event
              c == exec[x].copy
              queue == HasService(c) /\ (HasUpdate(c) \/ ev.ident # Wanted(c))
              next == IF queue THEN Queued(c, ev) ELSE Replaced(c, ev)
  <1>1. PICK i, k : i = exec[x].event.inst /\ k = exec[x].event.ident
    OBVIOUS
  <1>2. /\ exec[x].pc = "store" /\ exec[x].pc \in Admitting /\ exec[x].pc \in Working
        /\ UNCHANGED <<partnerVars, log, loopVars, faults>> /\ faults' \in 0 .. MaxFaults
    BY DEF StoreUpdate, Admitting, Working, IInv, Base, Typed
  <1>3. /\ row[i] \in Row /\ Names(row[i]) /\ i \in Instance /\ ev \in Event /\ k \in Known
        /\ c \in Row /\ Names(c)
    BY <1>1, <1>2, AtWork DEF IInv
  <1>4. /\ Fresh(c, row[i]) /\ (k # 0 => ~Taken(i, k))
        /\ admission = x /\ lock[i] = x
    BY <1>1, <1>2 DEF IInv, Places, Placed, Locking
  <1>5. CASE /\ Accepts(row[i], next) /\ Put(i, Merged(row[i], next))
             /\ IF queue THEN Goto(x, "drain", NotTracked) /\ UNCHANGED lockVars
                ELSE Release(x) /\ Decide(x, "APPLIED")
    <2>1. /\ next \in Row /\ next.ident \in {c.ident, k} /\ next.pu.ident \in {0, k}
      <3>1. k \in Nat /\ ev.at \in Nat /\ ev.ident = k
        BY <1>1, <1>3, EventParts
      <3>2. /\ Queued(c, ev) \in Row /\ Queued(c, ev).ident = c.ident
            /\ Queued(c, ev).pu.ident = k
        <4>. DEFINE u == [ident |-> ev.ident, at |-> ev.at]
        <4>1. u \in [ident : Nat, at : Nat] /\ u.ident = k
          BY <3>1
        <4>. HIDE DEF u
        <4>2. [c EXCEPT !.pu = u] \in Row /\ [c EXCEPT !.pu = u].ident = c.ident
              /\ [c EXCEPT !.pu = u].pu = u
          BY <1>3, <4>1 DEF Row
        <4>. QED BY <4>1, <4>2 DEF Queued, u
      <3>3. /\ Replaced(c, ev) \in Row /\ Replaced(c, ev).ident = k
            /\ Replaced(c, ev).pu.ident = 0
        <4>. DEFINE st == IF ev.ident # Wanted(c) /\ ~HasService(c) /\ c.inst = "IDLE"
                          THEN "PREPARING" ELSE c.inst
                    at == ev.at
                    m == [c EXCEPT !.ident = k, !.seen = at, !.pu = NoUpdate, !.inst = st]
        <4>1. st \in InstanceState /\ at \in Nat
          BY <1>3, <3>1, RowParts DEF InstanceState
        <4>2. Replaced(c, ev) = m
          BY <3>1 DEF Replaced
        <4>. HIDE DEF st, at
        <4>3. m \in Row /\ m.ident = k /\ m.pu = NoUpdate
          BY <1>3, <3>1, <4>1 DEF Row, NoUpdate
        <4>. QED BY <4>2, <4>3 DEF NoUpdate
      <3>. HIDE DEF queue, c, ev
      <3>. QED BY <3>2, <3>3
    <2>. DEFINE m == Merged(row[i], next)
    <2>. HIDE DEF next, c, ev, queue
    <2>2. next.ident \in {row[i].ident, k} /\ next.pu.ident \in {row[i].pu.ident, 0, k}
      BY <1>4, <2>1 DEF Fresh
    <2>3. /\ m \in Row /\ Idents(m) \subseteq Idents(row[i]) \cup ({k} \ {0})
          /\ m.ident = next.ident /\ m.pu \in {row[i].pu, next.pu, NoUpdate}
      BY <1>3, <1>5, <2>1, <2>2, MergedIdents
    <2>. HIDE DEF m
    <2>4. Names(m)
      BY <1>3, <2>2, <2>3 DEF Names, NoUpdate, Known
    <2>5. Put(i, m)
      BY <1>5 DEF m
    <2>6. CASE Goto(x, "drain", NotTracked) /\ UNCHANGED lockVars
      <3>1. PICK n : /\ Goes(x, n) /\ n.pc = "drain" /\ n.event = exec[x].event /\ exec'[x] = n
        <4>1. "drain" \in Working
          BY DEF Working
        <4>. QED BY <1>2, <2>6, <4>1, NotTrackedType, NamesNothing, GotoGoes DEF IInv
      <3>2. Lets(x)
        BY <2>6, LetsGo DEF IInv, Base
      <3>3. Placed(x)'
        <4>1. lock'[i] = x
          BY <1>4, <2>6 DEF lockVars
        <4>. QED BY <1>1, <3>1, <4>1 DEF Placed, Admitting
      <3>. QED BY <1>1, <1>2, <1>4, <2>3, <2>4, <2>5, <3>1, <3>2, <3>3, GrowsKeep
    <2>7. CASE Release(x) /\ Decide(x, "APPLIED")
      <3>1. PICK n : Goes(x, n) /\ n.pc = "complete" /\ exec'[x] = n
        BY <1>2, <2>7, DecideGoes DEF IInv, Verdict
      <3>2. Lets(x)
        BY <2>7, LetsGo DEF IInv, Base
      <3>3. Placed(x)'
        BY <3>1, NowhereIsPlaced DEF Locking, Admitting
      <3>. QED BY <1>1, <1>2, <1>4, <2>3, <2>4, <2>5, <3>1, <3>2, <3>3, GrowsKeep
    <2>. QED BY <1>5, <2>6, <2>7
  <1>6. CASE UNCHANGED row /\ Release(x) /\ Defer(x)
    BY <1>2, <1>6, MovesOnlyKeep DEF Moves
  <1>. HIDE DEF next, queue
  <1>. QED BY <1>1, <1>5, <1>6 DEF StoreUpdate, next, queue

\* A context that is cancelled, or a write that fails.
LEMMA CancelKeeps ==
    ASSUME IInv, NEW x \in Executor, Cancel(x)
    PROVE  IInv'
  <1>1. faults' \in 0 .. MaxFaults
    BY EventsAssumption DEF Cancel, Fails, IInv, Base, Typed
  <1>2. /\ Release(x) /\ Moves(x)
        /\ UNCHANGED <<partnerVars, row, log, loopVars>>
    BY DEF Cancel, Moves
  <1>. QED BY <1>1, <1>2, MovesOnlyKeep

-----------------------------------------------------------------------------
(***************************************************************************)
(* Events are taken up and decided.                                        *)
(***************************************************************************)
HandlersOK ==
    /\ exec \in [Executor -> Handler]
    /\ log \in [DOMAIN log -> Result] /\ DOMAIN log \subseteq Event
    /\ \A x \in Executor : Names(exec[x].copy)
    /\ \A e \in DOMAIN log : e.ident \in Known
    /\ Claimed

LoopsOK ==
    /\ replay \in [cursor : AnyEvent, todo : SUBSET Event]
    /\ pull \in [stage : {"idle", "read", "list", "sweep"}, observed : Time,
                 view : [Instance -> 0 .. MaxTime], rows : [Instance -> Row],
                 todo : SUBSET Instance]
    /\ missing \in [Instance -> {"none", "running", "elapsed"}]
    /\ shown \in [Instance -> Sight]
    /\ \A i \in Instance : pull.view[i] \in Known /\ Names(pull.rows[i])

\* No goroutine takes up a place.
Stays == \A y \in Executor : exec'[y] = exec[y] \/ exec'[y].pc \notin Locking

\* What DecidedIsFinal says of a step.
Answered ==
    \A e \in DOMAIN log \cap DOMAIN log' : log[e] \in Verdict => log'[e] = log[e]

LEMMA BaseOK ==
    ASSUME Base
    PROVE  HandlersOK /\ LoopsOK
  BY DEF Base, Typed, Issued, HandlersOK, LoopsOK

LEMMA PlacesStay ==
    ASSUME Base, Places, AddressesStay, UNCHANGED <<row, lockVars>>, Stays
    PROVE  Places'
  <1>1. /\ \A j \in Instance : Alike(row[j], row'[j])
        /\ \A j \in Instance : Idents(row'[j]) \subseteq Idents(row[j])
        /\ admission' = admission /\ lock' = lock /\ work' = work
    BY AlikeSelf DEF lockVars
  <1>2. Owner \notin Executor
    BY EventsAssumption
  <1>3. ASSUME NEW y \in Executor
        PROVE  Placed(y)'
    <2>1. CASE exec'[y] = exec[y]
      BY <1>1, <1>2, <2>1, OthersKeep
    <2>2. CASE exec'[y].pc \notin Locking
      BY <2>2, NowhereIsPlaced
    <2>. QED BY <2>1, <2>2 DEF Stays
  <1>4. OwnerCurrent'
    BY <1>1, OwnerKeeps DEF Places
  <1>5. EndpointExclusive'
    BY <1>1, ExclusiveStays DEF Places
  <1>. QED BY <1>3, <1>4, <1>5 DEF Places

LEMMA AroundKeeps ==
    ASSUME IInv, UNCHANGED <<container, address, sent, row, lockVars>>,
           now' \in Time, now' >= now, LoopsOK', faults' \in 0 .. MaxFaults,
           HandlersOK', Stays
    PROVE  IInv'
  <1>. USE DEF IInv
  <1>1. work' = work /\ lock' = lock /\ admission' = admission
    BY DEF lockVars
  <1>2. AddressesStay /\ Known' = Known
    BY DEF AddressesStay, Known
  <1>3. DOMAIN address' \subseteq 1 .. now'
    BY DEF Base, Typed, Time
  <1>4. Typed'
    BY <1>1, <1>3 DEF Base, Typed, LoopsOK, HandlersOK
  <1>5. Issued'
    BY <1>1, <1>2 DEF Base, Issued, LoopsOK, HandlersOK, Names
  <1>6. Places'
    BY <1>2, PlacesStay
  <1>. QED BY <1>4, <1>5, <1>6 DEF Base, HandlersOK

\* An event that nobody handles is taken up; it was pending or is now claimed.
LEMMA BeginsOK ==
    ASSUME IInv, NEW x \in Executor, exec[x].event = NoEvent, UNCHANGED address,
           NEW e \in Event, e.ident \in Known, ~Busy(e), Begin(x, e),
           \/ e \in Pending /\ UNCHANGED log
           \/ e \notin DOMAIN log /\ log' = ClaimEvent(e)
    PROVE  HandlersOK' /\ Stays /\ Answered
  <1>. USE DEF IInv
  <1>. DEFINE n == [Idle EXCEPT !.pc = "apply", !.event = e]
  <1>1. e # NoEvent /\ e \in AnyEvent
    BY EventParts
  <1>2. n \in Handler /\ n.pc = "apply" /\ n.event = e /\ n.copy = NotTracked
    BY <1>1, IdleType DEF Handler, Working
  <1>3. exec' = [exec EXCEPT ![x] = n]
    BY DEF Begin
  <1>. HIDE DEF n
  <1>4. /\ exec' \in [Executor -> Handler]
        /\ \A y \in Executor : exec'[y] = IF y = x THEN n ELSE exec[y]
    BY <1>2, <1>3 DEF Base, Typed
  <1>5. /\ log' \in [DOMAIN log' -> Result] /\ DOMAIN log' = DOMAIN log \cup {e}
        /\ \A f \in DOMAIN log : log'[f] = log[f]
        /\ log'[e] = "PENDING"
    <2>1. log \in [DOMAIN log -> Result] /\ "PENDING" \in Result
      BY DEF Base, Typed, Result
    <2>2. CASE e \in Pending /\ UNCHANGED log
      BY <2>1, <2>2 DEF Pending
    <2>3. CASE e \notin DOMAIN log /\ log' = ClaimEvent(e)
      BY <2>1, <2>3 DEF ClaimEvent
    <2>. QED BY <2>2, <2>3
  <1>6. Known' = Known
    BY DEF Known
  <1>7. Pending \cup {e} \subseteq Pending'
    BY <1>5 DEF Pending
  <1>8. Claimed'
    <2>1. (\A y \in Executor : exec[y].event = NoEvent <=> exec[y].pc \in Resting)'
      BY <1>1, <1>2, <1>4 DEF Base, Claimed, Resting
    <2>2. (\A y \in Executor : exec[y].event # NoEvent => exec[y].event \in Pending)'
      BY <1>2, <1>4, <1>7 DEF Base, Claimed
    <2>3. (\A y, z \in Executor :
              y # z /\ exec[y].event # NoEvent => exec[y].event # exec[z].event)'
      BY <1>2, <1>4 DEF Base, Claimed, Busy
    <2>. QED BY <2>1, <2>2, <2>3 DEF Claimed
  <1>9. HandlersOK'
    <2>1. (\A y \in Executor : Names(exec[y].copy))'
      BY <1>2, <1>4, <1>6, NamesNothing DEF Base, Issued, Names
    <2>2. (\A f \in DOMAIN log : f.ident \in Known)'
      BY <1>5, <1>6 DEF Base, Issued
    <2>3. DOMAIN log' \subseteq Event
      BY <1>5 DEF Base, Typed
    <2>. QED BY <1>4, <1>5, <1>8, <2>1, <2>2, <2>3 DEF HandlersOK
  <1>10. Stays
    BY <1>2, <1>4 DEF Stays, Locking, Admitting
  <1>11. Answered
    BY <1>5 DEF Answered
  <1>. QED BY <1>9, <1>10, <1>11

\* A goroutine rests while the log stays.
LEMMA RestsOK ==
    ASSUME IInv, NEW x \in Executor, NEW n, exec' = [exec EXCEPT ![x] = n], n \in Handler,
           n.event = NoEvent, n.pc \in Resting, n.copy = NotTracked,
           UNCHANGED <<address, log>>
    PROVE  HandlersOK' /\ Stays /\ Answered
  <1>. USE DEF IInv
  <1>1. /\ exec' \in [Executor -> Handler]
        /\ \A y \in Executor : exec'[y] = IF y = x THEN n ELSE exec[y]
    BY DEF Base, Typed
  <1>2. Known' = Known /\ Pending' = Pending
    BY DEF Known, Pending
  <1>3. Claimed'
    <2>1. (\A y \in Executor : exec[y].event = NoEvent <=> exec[y].pc \in Resting)'
      BY <1>1 DEF Base, Claimed
    <2>2. (\A y \in Executor : exec[y].event # NoEvent => exec[y].event \in Pending)'
      BY <1>1, <1>2 DEF Base, Claimed
    <2>3. (\A y, z \in Executor :
              y # z /\ exec[y].event # NoEvent => exec[y].event # exec[z].event)'
      BY <1>1 DEF Base, Claimed
    <2>. QED BY <2>1, <2>2, <2>3 DEF Claimed
  <1>4. (\A y \in Executor : Names(exec[y].copy))'
    BY <1>1, <1>2, NamesNothing DEF Base, Issued, Names
  <1>5. HandlersOK'
    BY <1>1, <1>2, <1>3, <1>4 DEF HandlersOK, Base, Typed, Issued
  <1>6. Stays /\ Answered
    BY <1>1 DEF Stays, Answered, Resting, Locking, Admitting
  <1>. QED BY <1>5, <1>6

LEMMA CompleteKeeps ==
    ASSUME IInv, NEW x \in Executor, Complete(x)
    PROVE  IInv' /\ Answered
  <1>. USE DEF IInv
  <1>. DEFINE e == exec[x].event
              v == exec[x].result
  <1>1. /\ exec[x].pc \in Working /\ log' = CompleteEvent(e, v) /\ Finish(x, v)
        /\ UNCHANGED <<partnerVars, row, lockVars, loopVars, faults>>
    BY DEF Complete, Working
  <1>2. e \in Pending /\ e # NoEvent /\ exec[x] \in Handler /\ v \in Result
    BY <1>1, AtWork DEF Handler
  <1>3. PICK n : Goes(x, n) /\ n.pc \in Resting /\ n.event = NoEvent
    BY <1>1, <1>2, FinishGoes
  <1>4. /\ exec' \in [Executor -> Handler]
        /\ \A y \in Executor : exec'[y] = IF y = x THEN n ELSE exec[y]
    BY <1>3 DEF Goes, Base, Typed
  <1>5. /\ log' \in [DOMAIN log' -> Result] /\ DOMAIN log' \subseteq DOMAIN log
        /\ \A f \in DOMAIN log \ {e} : f \in DOMAIN log' /\ log'[f] = log[f]
    <2>. HIDE DEF e, v
    <2>. QED BY <1>1, <1>2 DEF CompleteEvent, Base, Typed, Pending
  <1>6. Known' = Known /\ UNCHANGED address
    BY <1>1 DEF Known, partnerVars
  <1>7. Claimed'
    <2>1. (\A y \in Executor : exec[y].event = NoEvent <=> exec[y].pc \in Resting)'
      BY <1>3, <1>4 DEF Base, Claimed
    <2>2. \A y \in Executor \ {x} : exec[y].event # e
      BY <1>2 DEF Base, Claimed
    <2>3. Pending \ {e} \subseteq Pending'
      BY <1>5 DEF Pending
    <2>4. (\A y \in Executor : exec[y].event # NoEvent => exec[y].event \in Pending)'
      BY <1>3, <1>4, <2>2, <2>3 DEF Base, Claimed
    <2>5. (\A y, z \in Executor :
              y # z /\ exec[y].event # NoEvent => exec[y].event # exec[z].event)'
      BY <1>3, <1>4 DEF Base, Claimed
    <2>. QED BY <2>1, <2>4, <2>5 DEF Claimed
  <1>8. HandlersOK'
    <2>1. (\A y \in Executor : Names(exec[y].copy))'
      BY <1>3, <1>4, <1>6 DEF Base, Issued, Names, Goes
    <2>2. (\A f \in DOMAIN log : f.ident \in Known)'
      BY <1>5, <1>6 DEF Base, Issued
    <2>3. DOMAIN log' \subseteq Event
      BY <1>5 DEF Base, Typed
    <2>. QED BY <1>4, <1>5, <1>7, <2>1, <2>2, <2>3 DEF HandlersOK
  <1>9. Stays
    BY <1>3, <1>4 DEF Stays, Resting, Locking, Admitting
  <1>10. LoopsOK'
    BY <1>1, <1>6, BaseOK DEF LoopsOK, loopVars, Names
  <1>11. now' \in Time /\ now' >= now /\ faults' \in 0 .. MaxFaults
    BY <1>1 DEF partnerVars, Base, Typed, Time
  <1>12. IInv'
    BY <1>1, <1>8, <1>9, <1>10, <1>11, AroundKeeps DEF partnerVars
  <1>13. Answered
    BY <1>2, <1>5 DEF Answered, Pending, Verdict
  <1>. QED BY <1>12, <1>13

\* Nothing is taken up or decided.
LEMMA QuietOK ==
    ASSUME IInv, UNCHANGED <<address, exec, log>>
    PROVE  HandlersOK' /\ Stays /\ Answered
  <1>1. Known' = Known /\ Pending' = Pending
    BY DEF Known, Pending
  <1>2. Claimed'
    BY <1>1 DEF IInv, Base, Claimed
  <1>. QED BY <1>1, <1>2, BaseOK DEF IInv, HandlersOK, Names, Stays, Answered

LEMMA ClockStays ==
    ASSUME IInv, UNCHANGED now
    PROVE  now' \in Time /\ now' >= now
  BY EventsAssumption DEF IInv, Base, Typed, Time

LEMMA DeliverKeeps ==
    ASSUME IInv, NEW x \in Executor, NEW e \in sent, Deliver(x, e)
    PROVE  IInv' /\ Answered
  <1>. USE DEF IInv
  <1>1. /\ exec[x] = Idle /\ e \notin DOMAIN log /\ log' = ClaimEvent(e) /\ Begin(x, e)
        /\ UNCHANGED <<partnerVars, row, lockVars, loopVars, faults>>
    BY DEF Deliver
  <1>2. e \in Event /\ e.ident \in Known /\ exec[x].event = NoEvent
    BY <1>1, IdleType DEF Base, Typed, Issued
  <1>3. ~Busy(e)
    BY <1>1, <1>2, EventParts DEF Busy, Base, Claimed, Pending
  <1>4. UNCHANGED <<now, container, address, sent>>
    BY <1>1 DEF partnerVars
  <1>5. HandlersOK' /\ Stays /\ Answered
    BY <1>1, <1>2, <1>3, <1>4, BeginsOK
  <1>6. LoopsOK'
    BY <1>1, <1>4, BaseOK DEF LoopsOK, loopVars, Names, Known
  <1>7. faults' \in 0 .. MaxFaults
    BY <1>1 DEF Base, Typed
  <1>. QED BY <1>1, <1>4, <1>5, <1>6, <1>7, ClockStays, AroundKeeps

-----------------------------------------------------------------------------
(***************************************************************************)
(* The replay loop.                                                        *)
(***************************************************************************)
LEMMA PendingAreEvents ==
    ASSUME IInv, NEW c
    PROVE  ListPendingEventsAfter(c) \subseteq Event /\ Pending \subseteq Event
  BY DEF IInv, Base, Typed, ListPendingEventsAfter, Pending

LEMMA ResumePendingKeeps ==
    ASSUME IInv, ResumePending
    PROVE  IInv' /\ Answered
  <1>. DEFINE after == ListPendingEventsAfter(replay.cursor)
              wraps == after = {} /\ replay.cursor # NoEvent
  <1>1. /\ replay' = [cursor |-> IF wraps THEN NoEvent ELSE replay.cursor,
                      todo   |-> IF wraps THEN ListPendingEventsAfter(NoEvent) ELSE after]
        /\ UNCHANGED <<now, container, address, sent, row, log, lockVars, exec, pull,
                       missing, shown, faults>>
    BY DEF ResumePending, partnerVars
  <1>2. replay' \in [cursor : AnyEvent, todo : SUBSET Event]
    <2>1. replay.cursor \in AnyEvent /\ NoEvent \in AnyEvent
      BY DEF IInv, Base, Typed, AnyEvent
    <2>2. after \subseteq Event /\ ListPendingEventsAfter(NoEvent) \subseteq Event
      BY PendingAreEvents
    <2>. HIDE DEF after, wraps
    <2>. QED BY <1>1, <2>1, <2>2
  <1>3. LoopsOK'
    BY <1>1, <1>2, BaseOK DEF IInv, LoopsOK, Names, Known
  <1>4. faults' \in 0 .. MaxFaults
    BY <1>1 DEF IInv, Base, Typed
  <1>5. HandlersOK' /\ Stays /\ Answered
    BY <1>1, QuietOK
  <1>. QED BY <1>1, <1>3, <1>4, <1>5, ClockStays, AroundKeeps

LEMMA ResumeEventKeeps ==
    ASSUME IInv, ResumeEvent
    PROVE  IInv' /\ Answered
  <1>. DEFINE e == First(replay.todo)
  <1>1. /\ exec[Reconciler] = Idle /\ replay.todo # {}
        /\ \E rest \in {replay.todo \ {e}, {}} : replay' = [cursor |-> e, todo |-> rest]
        /\ IF MayReplay(e) THEN Begin(Reconciler, e) ELSE UNCHANGED exec
        /\ UNCHANGED <<now, container, address, sent, row, log, lockVars, pull,
                       missing, shown, faults>>
    BY DEF ResumeEvent, partnerVars
  <1>2. replay.todo \subseteq Event
    BY DEF IInv, Base, Typed
  <1>3. e \in Event /\ e \in AnyEvent
    BY <1>1, <1>2, FirstIsOne DEF AnyEvent
  <1>. HIDE DEF e
  <1>4. LoopsOK'
    <2>1. replay' \in [cursor : AnyEvent, todo : SUBSET Event]
      BY <1>1, <1>2, <1>3
    <2>. QED BY <1>1, <2>1, BaseOK DEF IInv, LoopsOK, Names, Known
  <1>5. faults' \in 0 .. MaxFaults
    BY <1>1 DEF IInv, Base, Typed
  <1>6. HandlersOK' /\ Stays /\ Answered
    <2>1. CASE MayReplay(e)
      <3>1. e \in Pending /\ ~Busy(e) /\ Begin(Reconciler, e) /\ e.ident \in Known
        BY <1>1, <2>1 DEF MayReplay, IInv, Base, Issued, Pending
      <3>2. Reconciler \in Executor /\ exec[Reconciler].event = NoEvent
        BY <1>1, IdleType, EventsAssumption
      <3>. QED BY <1>1, <1>3, <3>1, <3>2, BeginsOK
    <2>2. CASE ~MayReplay(e)
      BY <1>1, <2>2, QuietOK
    <2>. QED BY <2>1, <2>2
  <1>. QED BY <1>1, <1>4, <1>5, <1>6, ClockStays, AroundKeeps

-----------------------------------------------------------------------------
(***************************************************************************)
(* The pull loop.                                                          *)
(***************************************************************************)
LEMMA ApplyOK ==
    ASSUME IInv, exec[Puller] = Idle, UNCHANGED address,
           NEW e \in Event, e.ident \in Known, ~Busy(e), Apply(e)
    PROVE  HandlersOK' /\ Stays /\ Answered
  <1>1. Puller \in Executor /\ exec[Puller].event = NoEvent
    BY IdleType, EventsAssumption
  <1>2. CASE e \in DOMAIN log
    <2>. DEFINE v == log[e]
                n == [Idle EXCEPT !.pc = "done", !.result = v]
    <2>1. exec' = [exec EXCEPT ![Puller] = n] /\ UNCHANGED log
      BY <1>2 DEF Apply
    <2>2. v \in Result
      BY <1>2 DEF IInv, Base, Typed
    <2>. HIDE DEF v
    <2>3. n \in Handler /\ n.event = NoEvent /\ n.pc \in Resting /\ n.copy = NotTracked
      BY <2>2, IdleType DEF Handler, Resting
    <2>. HIDE DEF n
    <2>. QED BY <1>1, <2>1, <2>3, RestsOK
  <1>3. CASE e \notin DOMAIN log
    BY <1>1, <1>3, BeginsOK DEF Apply
  <1>. QED BY <1>2, <1>3

\* A step of the loop that leaves the handlers to one of the lemmas above.
LEMMA PullKeeps ==
    ASSUME IInv, UNCHANGED <<container, address, sent, row, lockVars, replay>>,
           now' \in Time, now' >= now, faults' \in 0 .. MaxFaults, HandlersOK', Stays,
           pull' \in [stage : {"idle", "read", "list", "sweep"}, observed : Time,
                      view : [Instance -> 0 .. MaxTime], rows : [Instance -> Row],
                      todo : SUBSET Instance],
           \A i \in Instance : pull'.view[i] \in Known /\ Names(pull'.rows[i]),
           missing' \in [Instance -> {"none", "running", "elapsed"}],
           shown' \in [Instance -> Sight]
    PROVE  IInv'
  <1>1. LoopsOK'
    BY BaseOK DEF IInv, LoopsOK, Names, Known
  <1>. QED BY <1>1, AroundKeeps

LEMMA PullType ==
    ASSUME IInv
    PROVE  /\ pull.stage \in {"idle", "read", "list", "sweep"} /\ pull.observed \in Time
           /\ pull.view \in [Instance -> 0 .. MaxTime] /\ pull.rows \in [Instance -> Row]
           /\ pull.todo \subseteq Instance
           /\ pull = [stage |-> pull.stage, observed |-> pull.observed, view |-> pull.view,
                      rows |-> pull.rows, todo |-> pull.todo]
           /\ \A i \in Instance : pull.view[i] \in Known /\ Names(pull.rows[i])
           /\ missing \in [Instance -> {"none", "running", "elapsed"}]
           /\ shown \in [Instance -> Sight] /\ faults \in 0 .. MaxFaults
  BY DEF IInv, Base, Typed, Issued

LEMMA NoPullType ==
    /\ NoPull \in [stage : {"idle", "read", "list", "sweep"}, observed : Time,
                   view : [Instance -> 0 .. MaxTime], rows : [Instance -> Row],
                   todo : SUBSET Instance]
    /\ \A i \in Instance : NoPull.view[i] \in Known /\ Names(NoPull.rows[i])
  <1>1. 0 \in 0 .. MaxTime /\ 0 \in Time /\ 0 \in Known
    BY EventsAssumption DEF Time, Known
  <1>. QED BY <1>1, NotTrackedType, NamesNothing DEF NoPull

LEMMA PullBeginKeeps ==
    ASSUME IInv, PullBegin
    PROVE  IInv' /\ Answered
  <1>1. /\ now' = Tick /\ pull' = [pull EXCEPT !.stage = "read", !.observed = Tick]
        /\ UNCHANGED <<container, address, sent, row, log, lockVars, exec, replay, missing,
                       shown, faults>>
    BY DEF PullBegin
  <1>2. Tick \in Time /\ Tick >= now
    BY EventsAssumption DEF Tick, Time, IInv, Base, Typed
  <1>3. HandlersOK' /\ Stays /\ Answered
    BY <1>1, QuietOK
  <1>. DEFINE t == Tick
  <1>4. pull' = [pull EXCEPT !.stage = "read", !.observed = t] /\ t \in Time
    BY <1>1, <1>2
  <1>. HIDE DEF t
  <1>5. /\ pull' \in [stage : {"idle", "read", "list", "sweep"}, observed : Time,
                      view : [Instance -> 0 .. MaxTime], rows : [Instance -> Row],
                      todo : SUBSET Instance]
        /\ pull'.view = pull.view /\ pull'.rows = pull.rows
    BY <1>4, PullType
  <1>. QED BY <1>1, <1>2, <1>3, <1>5, PullType, PullKeeps

\* Whether the instance was seen, once the snapshot is read.
Glimpsed == [i \in Instance |-> IF pull'.view[i] # 0 /\ shown[i] = "no"
                                THEN "listed" ELSE shown[i]]

LEMMA PullReadKeeps ==
    ASSUME IInv, PullRead
    PROVE  IInv' /\ Answered
  <1>1. /\ UNCHANGED <<now, container, address, sent, row, log, lockVars, exec, replay, missing>>
        /\ \/ /\ \E v : /\ pull' = [pull EXCEPT !.stage = "list", !.view = v]
                        /\ v = container \/ \E i \in Instance : v = [container EXCEPT ![i] = 0]
              /\ shown' = Glimpsed
           \/ pull' = NoPull /\ UNCHANGED shown
        /\ faults' = faults \/ (faults < MaxFaults /\ faults' = faults + 1)
    <2>1. /\ UNCHANGED <<now, container, address, sent, row, log, lockVars, exec, replay, missing>>
          /\ faults' = faults \/ (faults < MaxFaults /\ faults' = faults + 1)
      BY DEF PullRead, partnerVars, Works, Fails
    <2>2. \/ /\ \/ pull' = [pull EXCEPT !.stage = "list", !.view = container]
                \/ \E i \in Instance :
                      pull' = [pull EXCEPT !.stage = "list", !.view = [container EXCEPT ![i] = 0]]
             /\ shown' = Glimpsed
          \/ pull' = NoPull /\ UNCHANGED shown
      BY Zenon DEF PullRead, Glimpsed
    <2>3. CASE pull' = NoPull /\ UNCHANGED shown
      BY <2>1, <2>3
    <2>4. CASE /\ pull' = [pull EXCEPT !.stage = "list", !.view = container]
               /\ shown' = Glimpsed
      <3>. DEFINE v == container
      <3>. HIDE DEF v
      <3>1. pull' = [pull EXCEPT !.stage = "list", !.view = v] /\ v = container
        BY <2>4 DEF v
      <3>. QED BY <2>1, <2>4, <3>1
    <2>5. ASSUME NEW i \in Instance,
                 pull' = [pull EXCEPT !.stage = "list", !.view = [container EXCEPT ![i] = 0]],
                 shown' = Glimpsed
          PROVE  \E v : /\ pull' = [pull EXCEPT !.stage = "list", !.view = v]
                        /\ v = container \/ \E j \in Instance : v = [container EXCEPT ![j] = 0]
      <3>. DEFINE v == [container EXCEPT ![i] = 0]
      <3>1. v = container \/ \E j \in Instance : v = [container EXCEPT ![j] = 0]
        OBVIOUS
      <3>. HIDE DEF v
      <3>2. pull' = [pull EXCEPT !.stage = "list", !.view = v]
        BY <2>5 DEF v
      <3>. QED BY <3>1, <3>2
    <2>. QED BY <2>1, <2>2, <2>3, <2>4, <2>5
  <1>2. HandlersOK' /\ Stays /\ Answered
    BY <1>1, QuietOK
  <1>3. faults' \in 0 .. MaxFaults
    <2>1. MaxFaults \in Nat /\ faults \in 0 .. MaxFaults
      BY EventsAssumption DEF IInv, Base, Typed
    <2>2. faults' = faults \/ (faults < MaxFaults /\ faults' = faults + 1)
      BY <1>1
    <2>. QED BY <2>1, <2>2
  <1>4. CASE pull' = NoPull /\ UNCHANGED shown
    <2>1. /\ pull' \in [stage : {"idle", "read", "list", "sweep"}, observed : Time,
                        view : [Instance -> 0 .. MaxTime], rows : [Instance -> Row],
                        todo : SUBSET Instance]
          /\ \A i \in Instance : pull'.view[i] \in Known /\ Names(pull'.rows[i])
      BY <1>4, NoPullType
    <2>. QED BY <1>1, <1>2, <1>3, <1>4, <2>1, PullType, PullKeeps, ClockStays
  <1>5. ASSUME NEW v, pull' = [pull EXCEPT !.stage = "list", !.view = v],
               v = container \/ \E i \in Instance : v = [container EXCEPT ![i] = 0],
               shown' = Glimpsed
        PROVE  IInv'
    <2>1. v \in [Instance -> 0 .. MaxTime] /\ \A i \in Instance : v[i] \in Known
      <3>1. container \in [Instance -> 0 .. MaxTime] /\ \A i \in Instance : container[i] \in Known
        BY DEF IInv, Base, Typed, Issued
      <3>2. 0 \in 0 .. MaxTime /\ 0 \in Known
        BY EventsAssumption DEF Known
      <3>. QED BY <1>5, <3>1, <3>2
    <2>2. /\ pull' \in [stage : {"idle", "read", "list", "sweep"}, observed : Time,
                        view : [Instance -> 0 .. MaxTime], rows : [Instance -> Row],
                        todo : SUBSET Instance]
          /\ pull'.view = v /\ pull'.rows = pull.rows
      BY <1>5, <2>1, PullType
    <2>3. shown' \in [Instance -> Sight]
      BY <1>5, PullType DEF Glimpsed, Sight
    <2>. QED BY <1>1, <1>2, <1>3, <2>1, <2>2, <2>3, PullType, PullKeeps, ClockStays
  <1>. QED BY <1>1, <1>2, <1>4, <1>5

LEMMA PullListKeeps ==
    ASSUME IInv, PullList
    PROVE  IInv' /\ Answered
  <1>1. /\ pull' = [pull EXCEPT !.stage = "sweep", !.rows = row, !.todo = Instance]
        /\ UNCHANGED <<now, container, address, sent, row, log, lockVars, exec, replay,
                       missing, shown, faults>>
    BY DEF PullList, partnerVars
  <1>2. HandlersOK' /\ Stays /\ Answered
    BY <1>1, QuietOK
  <1>3. row \in [Instance -> Row] /\ \A i \in Instance : Names(row[i])
    BY DEF IInv, Base, Typed, Issued
  <1>4. /\ pull' \in [stage : {"idle", "read", "list", "sweep"}, observed : Time,
                      view : [Instance -> 0 .. MaxTime], rows : [Instance -> Row],
                      todo : SUBSET Instance]
        /\ pull'.view = pull.view /\ pull'.rows = row
    BY <1>1, <1>3, PullType
  <1>. QED BY <1>1, <1>2, <1>3, <1>4, PullType, PullKeeps, ClockStays

LEMMA SweptType ==
    ASSUME IInv, NEW i \in Instance, Swept(i)
    PROVE  /\ pull' \in [stage : {"idle", "read", "list", "sweep"}, observed : Time,
                         view : [Instance -> 0 .. MaxTime], rows : [Instance -> Row],
                         todo : SUBSET Instance]
           /\ pull'.view = pull.view /\ pull'.rows = pull.rows
  <1>. DEFINE todo == pull.todo \ {i}
  <1>1. pull' = [pull EXCEPT !.todo = todo] /\ todo \subseteq Instance
    BY PullType DEF Swept
  <1>. HIDE DEF todo
  <1>. QED BY <1>1, PullType

LEMMA PulledEventType ==
    ASSUME IInv, NEW i \in Instance, NEW kind \in Kind, NEW ident \in 0 .. MaxTime
    PROVE  PulledEvent(i, kind, ident) \in Event /\ PulledEvent(i, kind, ident).ident = ident
  BY PullType DEF PulledEvent, Event

LEMMA PullOfferedKeeps ==
    ASSUME IInv, NEW i \in Instance, PullOffered(i)
    PROVE  IInv' /\ Answered
  <1>. DEFINE r == pull.rows[i]
              ident == pull.view[i]
              e == PulledEvent(i, PulledKind(r), ident)
  <1>1. /\ exec[Puller] = Idle /\ Swept(i) /\ missing' = Forgiven(i)
        /\ UNCHANGED <<now, container, address, sent, row, lockVars, replay, shown, faults>>
        /\ \/ UNCHANGED <<exec, log>>
           \/ ~Busy(e) /\ Apply(e)
    BY DEF PullOffered, partnerVars
  <1>2. e \in Event /\ e.ident \in Known
    <2>1. ident \in 0 .. MaxTime /\ ident \in Known
      BY PullType
    <2>2. PulledKind(r) \in Kind
      BY DEF PulledKind, Kind
    <2>. QED BY <2>1, <2>2, PulledEventType
  <1>. HIDE DEF e
  <1>3. HandlersOK' /\ Stays /\ Answered
    <2>1. CASE UNCHANGED <<exec, log>>
      BY <1>1, <2>1, QuietOK
    <2>2. CASE ~Busy(e) /\ Apply(e)
      BY <1>1, <1>2, <2>2, ApplyOK
    <2>. QED BY <1>1, <2>1, <2>2
  <1>4. missing' \in [Instance -> {"none", "running", "elapsed"}]
    BY <1>1, PullType DEF Forgiven
  <1>. QED BY <1>1, <1>3, <1>4, SweptType, PullType, PullKeeps, ClockStays

LEMMA PullAbsentKeeps ==
    ASSUME IInv, NEW i \in Instance, PullAbsent(i)
    PROVE  IInv' /\ Answered
  <1>. DEFINE r == pull.rows[i]
              e == PulledEvent(i, "REVOKED", r.ident)
  <1>1. /\ exec[Puller] = Idle /\ Swept(i)
        /\ UNCHANGED <<now, container, address, sent, row, lockVars, replay, faults>>
    BY DEF PullAbsent, partnerVars
  <1>2. UNCHANGED <<exec, log>> \/ (~Busy(e) /\ Apply(e))
    BY DEF PullAbsent
  <1>3. missing' \in {missing, [missing EXCEPT ![i] = "none"], [missing EXCEPT ![i] = "running"]}
        /\ shown' \in {shown, [shown EXCEPT ![i] = "no"]}
    BY DEF PullAbsent
  <1>4. e \in Event /\ e.ident \in Known
    <2>1. r.ident \in Known
      BY PullType DEF Names
    <2>2. Known \subseteq 0 .. MaxTime
      BY EventsAssumption DEF Known, IInv, Base, Typed, Time
    <2>3. "REVOKED" \in Kind
      BY DEF Kind
    <2>. QED BY <2>1, <2>2, <2>3, PulledEventType
  <1>. HIDE DEF e
  <1>5. HandlersOK' /\ Stays /\ Answered
    <2>1. CASE UNCHANGED <<exec, log>>
      BY <1>1, <2>1, QuietOK
    <2>2. CASE ~Busy(e) /\ Apply(e)
      BY <1>1, <1>4, <2>2, ApplyOK
    <2>. QED BY <1>2, <2>1, <2>2
  <1>6. missing' \in [Instance -> {"none", "running", "elapsed"}] /\ shown' \in [Instance -> Sight]
    BY <1>3, PullType DEF Sight
  <1>. QED BY <1>1, <1>5, <1>6, SweptType, PullType, PullKeeps, ClockStays

LEMMA PullOutcomeKeeps ==
    ASSUME IInv, PullOutcome
    PROVE  IInv' /\ Answered
  <1>1. /\ exec' = [exec EXCEPT ![Puller] = Idle]
        /\ pull' = IF exec[Puller].result = "REJECTED" THEN NoPull ELSE pull
        /\ UNCHANGED <<now, container, address, sent, row, log, lockVars, replay, missing,
                       shown, faults>>
    BY DEF PullOutcome, partnerVars
  <1>2. HandlersOK' /\ Stays /\ Answered
    BY <1>1, IdleType, EventsAssumption, RestsOK DEF Resting
  <1>3. /\ pull' \in [stage : {"idle", "read", "list", "sweep"}, observed : Time,
                      view : [Instance -> 0 .. MaxTime], rows : [Instance -> Row],
                      todo : SUBSET Instance]
        /\ \A i \in Instance : pull'.view[i] \in Known /\ Names(pull'.rows[i])
    BY <1>1, NoPullType, PullType
  <1>. QED BY <1>1, <1>2, <1>3, PullType, PullKeeps, ClockStays

LEMMA PullCommitKeeps ==
    ASSUME IInv, PullCommit
    PROVE  IInv' /\ Answered
  <1>1. /\ pull' = NoPull
        /\ shown' = [i \in Instance |-> IF pull.view[i] # 0 THEN "completed" ELSE shown[i]]
        /\ UNCHANGED <<now, container, address, sent, row, log, lockVars, exec, replay,
                       missing, faults>>
    BY DEF PullCommit, partnerVars
  <1>2. HandlersOK' /\ Stays /\ Answered
    BY <1>1, QuietOK
  <1>3. shown' \in [Instance -> Sight]
    BY <1>1, PullType DEF Sight
  <1>. QED BY <1>1, <1>2, <1>3, NoPullType, PullType, PullKeeps, ClockStays

LEMMA GracePassesKeeps ==
    ASSUME IInv, NEW i \in Instance, GracePasses(i)
    PROVE  IInv' /\ Answered
  <1>1. /\ missing' = [missing EXCEPT ![i] = "elapsed"]
        /\ UNCHANGED <<now, container, address, sent, row, log, lockVars, exec, replay,
                       pull, shown, faults>>
    BY DEF GracePasses, partnerVars
  <1>2. HandlersOK' /\ Stays /\ Answered
    BY <1>1, QuietOK
  <1>3. missing' \in [Instance -> {"none", "running", "elapsed"}]
    BY <1>1, PullType
  <1>4. pull' \in [stage : {"idle", "read", "list", "sweep"}, observed : Time,
                   view : [Instance -> 0 .. MaxTime], rows : [Instance -> Row],
                   todo : SUBSET Instance]
    BY <1>1 DEF IInv, Base, Typed
  <1>. QED BY <1>1, <1>2, <1>3, <1>4, PullType, PullKeeps, ClockStays

-----------------------------------------------------------------------------
(***************************************************************************)
(* The partner, lifecycle operations, and a restart.                       *)
(***************************************************************************)
LEMMA PartnerSays ==
    ASSUME IInv, UNCHANGED <<row, log, lockVars, exec, loopVars, faults>>,
           now' = now + 1, now' \in Time, DOMAIN address' \subseteq 1 .. now',
           \A n \in DOMAIN address' : address'[n] \in Address, AddressesStay,
           container' \in [Instance -> Known'],
           NEW i \in Instance, NEW kind \in Kind, NEW ident \in Known', Says(i, kind, ident)
    PROVE  IInv' /\ Answered
  <1>. USE DEF IInv
  <1>1. Known \subseteq Known'
    BY DEF Known, AddressesStay
  <1>2. Known' \subseteq 0 .. MaxTime
    BY EventsAssumption DEF Known, Time
  <1>3. sent' \subseteq Event /\ \A e \in sent' : e.ident \in Known'
    <2>. DEFINE e == [at |-> now', inst |-> i, kind |-> kind, ident |-> ident, src |-> "push"]
    <2>1. e \in Event /\ e.ident = ident
      BY <1>2 DEF Event
    <2>2. sent' = sent \cup {e}
      BY DEF Says
    <2>. HIDE DEF e
    <2>. QED BY <1>1, <2>1, <2>2 DEF Base, Typed, Issued
  <1>4. Typed'
    <2>1. container' \in [Instance -> 0 .. MaxTime]
      BY <1>2
    <2>. QED BY <1>3, <2>1 DEF Base, Typed, lockVars, loopVars
  <1>5. Issued'
    <2>1. (\A j \in Instance : container[j] \in Known /\ pull.view[j] \in Known)'
      BY <1>1 DEF Base, Issued, loopVars
    <2>2. (\A j \in Instance : Names(row[j]) /\ Names(work[j]) /\ Names(pull.rows[j]))'
      BY <1>1 DEF Base, Issued, Names, loopVars, lockVars
    <2>3. (\A x \in Executor : Names(exec[x].copy))'
      BY <1>1 DEF Base, Issued, Names
    <2>4. (\A e \in sent \cup DOMAIN log : e.ident \in Known)'
      BY <1>1, <1>3 DEF Base, Issued
    <2>. QED BY <2>1, <2>2, <2>3, <2>4 DEF Issued
  <1>6. Claimed'
    BY DEF Base, Claimed, Pending
  <1>7. Places'
    BY PlacesStay DEF Stays
  <1>8. Answered
    BY DEF Answered
  <1>. QED BY <1>4, <1>5, <1>6, <1>7, <1>8 DEF Base

LEMMA PartnerKeeps ==
    ASSUME IInv, NEW i \in Instance, Partner(i)
    PROVE  IInv' /\ Answered
  <1>1. /\ UNCHANGED <<row, log, lockVars, exec, loopVars, faults>>
        /\ now' = now + 1 /\ now < MaxTime
    BY DEF Partner, PartnerOffers, PartnerReplaces, PartnerConfirms, PartnerWithdraws,
           PartnerIssues, Does
  <1>2. now \in Nat /\ now' \in Time /\ DOMAIN address \subseteq 1 .. now
    BY <1>1, EventsAssumption DEF IInv, Base, Typed, Time
  <1>3. \A n \in DOMAIN address : address[n] \in Address
    BY DEF IInv, Base, Typed
  <1>4. container \in [Instance -> Known]
    BY DEF IInv, Base, Typed, Issued
  <1>5. ASSUME NEW deed, NEW kind \in Kind, PartnerIssues(i, deed, kind)
        PROVE  IInv' /\ Answered
    <2>1. PICK a \in Address : address' = [n \in DOMAIN address \cup {now'} |->
                                              IF n = now' THEN a ELSE address[n]]
      BY <1>5 DEF PartnerIssues
    <2>2. /\ container' = [container EXCEPT ![i] = now'] /\ Says(i, kind, now')
      BY <1>5 DEF PartnerIssues
    <2>3. now' \notin DOMAIN address
      BY <1>1, <1>2
    <2>4. /\ DOMAIN address' \subseteq 1 .. now' /\ AddressesStay
          /\ \A n \in DOMAIN address' : address'[n] \in Address
      BY <1>1, <1>2, <1>3, <2>1, <2>3 DEF AddressesStay
    <2>5. Known' = Known \cup {now'}
      BY <2>1 DEF Known
    <2>6. container' \in [Instance -> Known'] /\ now' \in Known'
      BY <1>4, <2>2, <2>5
    <2>. QED BY <1>1, <1>2, <2>2, <2>4, <2>6, PartnerSays
  <1>6. ASSUME NEW kind \in Kind, NEW ident \in Known, UNCHANGED address, Says(i, kind, ident),
               container' \in [Instance -> Known]
        PROVE  IInv' /\ Answered
    <2>1. DOMAIN address' \subseteq 1 .. now' /\ AddressesStay /\ Known' = Known
      BY <1>1, <1>2, <1>6 DEF AddressesStay, Known
    <2>. QED BY <1>1, <1>2, <1>3, <1>6, <2>1, PartnerSays
  <1>7. {"ADDED", "UPDATED", "REVOKED"} \subseteq Kind /\ 0 \in Known
    BY DEF Kind, Known
  <1>8. CASE PartnerOffers(i) \/ PartnerReplaces(i)
    BY <1>5, <1>7, <1>8 DEF PartnerOffers, PartnerReplaces
  <1>9. CASE PartnerConfirms(i)
    <2>1. Says(i, "UPDATED", container[i]) /\ UNCHANGED <<container, address>> /\ container[i] \in Known
      BY <1>4, <1>9 DEF PartnerConfirms
    <2>. QED BY <1>4, <1>6, <1>7, <2>1
  <1>10. CASE PartnerWithdraws(i)
    <2>1. /\ \E ident \in {container[i], 0} : Says(i, "REVOKED", ident)
          /\ container' = [container EXCEPT ![i] = 0] /\ UNCHANGED address
      BY <1>10 DEF PartnerWithdraws
    <2>2. container' \in [Instance -> Known] /\ container[i] \in Known
      BY <1>4, <1>7, <2>1
    <2>. QED BY <1>6, <1>7, <2>1, <2>2
  <1>. QED BY <1>8, <1>9, <1>10 DEF Partner

LEMMA LifecycleBeginKeeps ==
    ASSUME IInv, NEW i \in Instance, LifecycleBegin(i)
    PROVE  IInv' /\ Answered
  <1>. USE DEF IInv
  <1>1. /\ lock[i] = Nobody /\ lock' = [lock EXCEPT ![i] = Owner]
        /\ work' = [work EXCEPT ![i] = row[i]]
        /\ UNCHANGED <<now, container, address, sent, row, log, admission, exec, replay, pull,
                       missing, shown, faults>>
    BY DEF LifecycleBegin, Free, partnerVars, loopVars
  <1>2. /\ \A j \in Instance : lock'[j] = IF j = i THEN Owner ELSE lock[j]
        /\ \A j \in Instance : work'[j] = IF j = i THEN row[i] ELSE work[j]
        /\ lock' \in [Instance -> Executor \cup {Nobody, Owner}]
        /\ work' \in [Instance -> Row]
    BY <1>1 DEF Base, Typed
  <1>3. Known' = Known /\ Pending' = Pending /\ AddressesStay
    BY <1>1 DEF Known, Pending, AddressesStay
  <1>4. Base'
    <2>1. Typed'
      BY <1>1, <1>2 DEF Base, Typed
    <2>2. Issued'
      BY <1>1, <1>2, <1>3 DEF Base, Issued, Names
    <2>3. Claimed'
      BY <1>1, <1>3 DEF Base, Claimed
    <2>. QED BY <2>1, <2>2, <2>3 DEF Base
  <1>5. Nobody \notin Executor /\ Owner \notin Executor
    BY EventsAssumption
  <1>6. ASSUME NEW y \in Executor
        PROVE  Placed(y)'
    <2>1. /\ \A j \in Instance : Alike(row[j], row'[j])
          /\ \A j \in Instance : Idents(row'[j]) \subseteq Idents(row[j])
          /\ \A j \in Instance : lock[j] = y => lock'[j] = y
      BY <1>1, <1>2, <1>5, AlikeSelf
    <2>. QED BY <1>1, <1>3, <1>5, <2>1, OthersKeep
  <1>7. OwnerCurrent'
    BY <1>1, <1>2 DEF Places, OwnerCurrent, Fresh
  <1>8. EndpointExclusive'
    BY <1>1, <1>3, ExclusiveStays DEF Places
  <1>9. Answered
    BY <1>1 DEF Answered
  <1>. QED BY <1>4, <1>6, <1>7, <1>8, <1>9 DEF Places

LEMMA LifecycleEndKeeps ==
    ASSUME IInv, NEW i \in Instance, LifecycleEnd(i)
    PROVE  IInv' /\ Answered
  <1>. USE DEF IInv
  <1>1. /\ lock[i] = Owner /\ lock' = [lock EXCEPT ![i] = Nobody]
        /\ work' = [work EXCEPT ![i] = NotTracked]
        /\ UNCHANGED <<now, address, sent, log, admission, exec, replay, pull, missing, shown,
                       faults>>
    BY DEF LifecycleEnd, loopVars
  <1>2. PICK next \in LifecycleMoves(work[i]) :
            /\ Put(i, Written(row[i], work[i], next))
            /\ container' \in {container, [container EXCEPT ![i] = 0]}
    BY DEF LifecycleEnd
  <1>. DEFINE w == Written(row[i], work[i], next)
  <1>3. /\ row[i] \in Row /\ work[i] \in Row /\ Names(row[i]) /\ Names(work[i])
        /\ Fresh(work[i], row[i])
    BY <1>1 DEF Base, Typed, Issued, Places, OwnerCurrent
  <1>4. /\ w \in Row /\ Idents(w) \subseteq Idents(row[i])
        /\ w.ident \in {row[i].ident, row[i].pu.ident}
        /\ w.pu.ident \in {row[i].pu.ident, work[i].pu.ident, 0}
    BY <1>3, WrittenIdents
  <1>5. Put(i, w)
    BY <1>2
  <1>. HIDE DEF w
  <1>6. Names(w)
    BY <1>3, <1>4 DEF Names, Known
  <1>7. /\ row' \in [Instance -> Row] /\ \A j \in Instance : row'[j] = IF j = i THEN w ELSE row[j]
        /\ lock' \in [Instance -> Executor \cup {Nobody, Owner}]
        /\ \A j \in Instance : lock'[j] = IF j = i THEN Nobody ELSE lock[j]
        /\ work' \in [Instance -> Row]
        /\ \A j \in Instance : work'[j] = IF j = i THEN NotTracked ELSE work[j]
    BY <1>1, <1>4, <1>5, NotTrackedType DEF Put, Base, Typed
  <1>8. Known' = Known /\ Pending' = Pending /\ AddressesStay
    BY <1>1 DEF Known, Pending, AddressesStay
  <1>9. container' \in [Instance -> 0 .. MaxTime] /\ \A j \in Instance : container'[j] \in Known
    <2>1. 0 \in 0 .. MaxTime /\ 0 \in Known
      BY EventsAssumption DEF Known
    <2>. QED BY <1>2, <2>1 DEF Base, Typed, Issued
  <1>10. Base'
    <2>1. Typed'
      BY <1>1, <1>7, <1>9 DEF Base, Typed
    <2>2. Issued'
      <3>1. \A j \in Instance : Names(row'[j]) /\ Names(work'[j]) /\ Names(pull.rows[j])
        BY <1>6, <1>7, NamesNothing DEF Base, Issued
      <3>. QED BY <1>1, <1>8, <1>9, <3>1 DEF Base, Issued, Names
    <2>3. Claimed'
      BY <1>1, <1>8 DEF Base, Claimed
    <2>. QED BY <2>1, <2>2, <2>3 DEF Base
  <1>11. Owner \notin Executor /\ Nobody # Owner
    BY EventsAssumption
  <1>12. /\ \A j \in Instance : lock[j] = Owner \/ Alike(row[j], row'[j])
         /\ \A j \in Instance : Idents(row'[j]) \subseteq Idents(row[j])
    BY <1>1, <1>4, <1>7, AlikeSelf
  <1>13. ASSUME NEW y \in Executor
         PROVE  Placed(y)'
    <2>1. \A j \in Instance : lock[j] = y => lock'[j] = y
      BY <1>1, <1>7, <1>11
    <2>. QED BY <1>1, <1>8, <1>11, <1>12, <2>1, OthersKeep
  <1>14. OwnerCurrent'
    <2>1. \A j \in Instance : lock'[j] = Owner =>
              lock[j] = Owner /\ work'[j] = work[j] /\ Alike(row[j], row'[j])
      BY <1>7, <1>11, AlikeSelf
    <2>. QED BY <2>1, OwnerKeeps DEF Places
  <1>15. EndpointExclusive'
    BY <1>8, <1>12, ExclusiveStays DEF Places
  <1>16. Answered
    BY <1>1 DEF Answered
  <1>. QED BY <1>10, <1>13, <1>14, <1>15, <1>16 DEF Places

LEMMA CrashKeeps ==
    ASSUME IInv, Crash
    PROVE  IInv' /\ Answered
  <1>. USE DEF IInv
  <1>1. /\ admission' = Nobody /\ lock' = [i \in Instance |-> Nobody]
        /\ work' = [i \in Instance |-> NotTracked] /\ exec' = [x \in Executor |-> Idle]
        /\ replay' = NoReplay /\ pull' = NoPull /\ missing' = [i \in Instance |-> "none"]
        /\ UNCHANGED <<now, container, address, sent, row, log, shown>>
        /\ faults < MaxFaults /\ faults' = faults + 1
    BY DEF Crash, Fails, Forget, partnerVars
  <1>2. Known' = Known /\ AddressesStay
    BY <1>1 DEF Known, AddressesStay
  <1>3. Typed'
    <2>1. faults' \in 0 .. MaxFaults
      <3>1. MaxFaults \in Nat /\ faults \in 0 .. MaxFaults
        BY EventsAssumption DEF Base, Typed
      <3>. QED BY <1>1, <3>1
    <2>2. replay' \in [cursor : AnyEvent, todo : SUBSET Event]
      BY <1>1 DEF NoReplay, AnyEvent
    <2>. QED BY <1>1, <2>1, <2>2, NoPullType, IdleType, NotTrackedType DEF Base, Typed
  <1>4. Issued'
    BY <1>1, <1>2, NoPullType, NamesNothing, IdleType DEF Base, Issued, Names
  <1>5. Claimed'
    BY <1>1, IdleType DEF Claimed, Resting
  <1>6. \A x \in Executor : Placed(x)'
    BY <1>1, IdleType, NowhereIsPlaced DEF Locking, Admitting
  <1>7. OwnerCurrent'
    BY <1>1, EventsAssumption DEF OwnerCurrent
  <1>8. EndpointExclusive'
    BY <1>1, <1>2, ExclusiveStays DEF Places
  <1>9. Answered
    BY <1>1 DEF Answered
  <1>. QED BY <1>3, <1>4, <1>5, <1>6, <1>7, <1>8, <1>9 DEF Base, Places

LEMMA InitHolds ==
    ASSUME Init
    PROVE  IInv
  <1>1. /\ now = 0 /\ DOMAIN address = {} /\ sent = {} /\ log = <<>> /\ admission = Nobody
        /\ container = [i \in Instance |-> 0] /\ row = [i \in Instance |-> NotTracked]
        /\ lock = [i \in Instance |-> Nobody] /\ work = [i \in Instance |-> NotTracked]
        /\ exec = [x \in Executor |-> Idle] /\ replay = NoReplay /\ pull = NoPull
        /\ missing = [i \in Instance |-> "none"] /\ faults = 0
        /\ shown = [i \in Instance |-> "no"] /\ DOMAIN log = {}
    BY DEF Init
  <1>2. Known = {0}
    BY <1>1 DEF Known
  <1>3. Typed
    <2>1. 0 \in Time /\ 0 \in 0 .. MaxFaults /\ 0 \in 0 .. MaxTime
      BY EventsAssumption DEF Time
    <2>2. replay \in [cursor : AnyEvent, todo : SUBSET Event]
      BY <1>1 DEF NoReplay, AnyEvent
    <2>3. log \in [DOMAIN log -> Result] /\ DOMAIN log \subseteq Event
      BY <1>1
    <2>. QED BY <1>1, <2>1, <2>2, <2>3, NoPullType, IdleType, NotTrackedType DEF Typed, Sight
  <1>4. Issued
    BY <1>1, <1>2, NoPullType, NamesNothing, IdleType DEF Issued
  <1>5. Claimed
    BY <1>1, IdleType DEF Claimed, Resting
  <1>6. \A x \in Executor : Placed(x)
    BY <1>1, IdleType DEF Placed, Locking, Admitting
  <1>7. OwnerCurrent
    BY <1>1, EventsAssumption DEF OwnerCurrent
  <1>8. EndpointExclusive
    <2>1. \A i \in Instance : ReservedBy(row[i]) = {}
      BY <1>1 DEF ReservedBy, Active, Tracked
    <2>. QED BY <2>1 DEF EndpointExclusive
  <1>. QED BY <1>3, <1>4, <1>5, <1>6, <1>7, <1>8 DEF IInv, Base, Places

LEMMA StutterKeeps ==
    ASSUME IInv, UNCHANGED vars
    PROVE  IInv' /\ Answered
  <1>1. /\ UNCHANGED <<now, container, address, sent, row, log, lockVars, exec, faults>>
        /\ UNCHANGED <<replay, pull, missing, shown>>
    BY DEF vars, partnerVars, loopVars, lockVars
  <1>2. HandlersOK' /\ Stays /\ Answered
    BY <1>1, QuietOK
  <1>3. pull' \in [stage : {"idle", "read", "list", "sweep"}, observed : Time,
                   view : [Instance -> 0 .. MaxTime], rows : [Instance -> Row],
                   todo : SUBSET Instance]
    BY <1>1 DEF IInv, Base, Typed
  <1>. QED BY <1>1, <1>2, <1>3, PullType, PullKeeps, ClockStays

-----------------------------------------------------------------------------
(***************************************************************************)
(* Every step.                                                             *)
(***************************************************************************)
LEMMA HandlerKeeps ==
    ASSUME IInv, NEW x \in Executor, Handle(x) \/ Cancel(x)
    PROVE  IInv' /\ Answered
  <1>1. CASE Complete(x)
    BY <1>1, CompleteKeeps
  <1>2. CASE HandleAdded(x) \/ Admit(x) \/ Allocate(x) \/ HandleUpdated(x) \/ Touch(x)
             \/ Update(x) \/ StoreUpdate(x) \/ HandleRevoked(x) \/ RequestReclaim(x)
             \/ Reclaim(x) \/ Drain(x) \/ Cancel(x)
    <2>1. UNCHANGED log
      BY <1>2 DEF HandleAdded, Admit, Allocate, HandleUpdated, Touch, Update, StoreUpdate,
                  HandleRevoked, RequestReclaim, Reclaim, Drain, Cancel
    <2>2. Answered
      BY <2>1 DEF Answered
    <2>3. IInv'
      BY <1>2, HandleAddedKeeps, AdmitKeeps, AllocateKeeps, HandleUpdatedKeeps, TouchKeeps,
         UpdateKeeps, StoreUpdateKeeps, HandleRevokedKeeps, RequestReclaimKeeps, ReclaimKeeps,
         DrainKeeps, CancelKeeps
    <2>. QED BY <2>2, <2>3
  <1>. QED BY <1>1, <1>2 DEF Handle

LEMMA NextKeeps ==
    ASSUME IInv, [Next]_vars
    PROVE  IInv' /\ Answered
  <1>1. ASSUME NEW x \in Executor, Handle(x) \/ Cancel(x)
        PROVE  IInv' /\ Answered
    BY <1>1, HandlerKeeps
  <1>2. ASSUME NEW x \in Executor, NEW e \in sent, Deliver(x, e)
        PROVE  IInv' /\ Answered
    BY <1>2, DeliverKeeps
  <1>3. ASSUME NEW i \in Instance, LifecycleStep(i) \/ GracePasses(i) \/ Partner(i)
        PROVE  IInv' /\ Answered
    BY <1>3, LifecycleBeginKeeps, LifecycleEndKeeps, GracePassesKeeps, PartnerKeeps
       DEF LifecycleStep
  <1>4. CASE Replay
    BY <1>4, ResumePendingKeeps, ResumeEventKeeps DEF Replay
  <1>5. CASE Pull
    BY <1>5, PullBeginKeeps, PullReadKeeps, PullListKeeps, PullOutcomeKeeps, PullCommitKeeps,
       PullOfferedKeeps, PullAbsentKeeps DEF Pull
  <1>6. CASE Crash
    BY <1>6, CrashKeeps
  <1>7. CASE UNCHANGED vars
    BY <1>7, StutterKeeps
  <1>. QED BY <1>1, <1>2, <1>3, <1>4, <1>5, <1>6, <1>7 DEF Next

\* IInv holds of every reachable state.
THEOREM EventsInvariant == Spec => []IInv
  <1>. QED BY InitHolds, NextKeeps, PTL DEF Spec

\* TypeOK: rows, records, locks and goroutines keep their types, and nobody ever
\* holds an identity the partner has not issued.
THEOREM EventsTyped == Spec => []TypeOK
  <1>1. IInv => TypeOK
    <2>. SUFFICES ASSUME IInv PROVE TypeOK
      OBVIOUS
    <2>1. DOMAIN address \subseteq Ident
      BY EventsAssumption DEF IInv, Base, Typed, Ident, Time
    <2>2. container \in [Instance -> DOMAIN address \cup {0}]
      BY DEF IInv, Base, Typed, Issued, Known
    <2>3. pull.view \in [Instance -> DOMAIN address \cup {0}]
      BY PullType DEF Known
    <2>4. \A x \in Executor :
             /\ exec[x].event \in AnyEvent /\ exec[x].copy \in Row
             /\ exec[x].result \in Result
             /\ exec[x].pc \in {"idle", "apply", "admit", "allocate", "touch", "update",
                                "store", "request", "reclaim", "drain", "complete", "done"}
      <3>. SUFFICES ASSUME NEW x \in Executor
                    PROVE  /\ exec[x].event \in AnyEvent /\ exec[x].copy \in Row
                           /\ exec[x].result \in Result /\ exec[x].pc \in Resting \cup Working
        BY DEF Resting, Working
      <3>1. exec[x] \in Handler
        BY DEF IInv, Base, Typed
      <3>. QED BY <3>1 DEF Handler
    <2>5. replay.cursor \in AnyEvent /\ replay.todo \subseteq Event
      BY DEF IInv, Base, Typed
    <2>6. \A i \in Instance : row[i] \in Row /\ work[i] \in Row
      BY DEF IInv, Base, Typed
    <2>7. DOMAIN log \subseteq Event /\ \A e \in DOMAIN log : log[e] \in Result
      BY DEF IInv, Base, Typed
    <2>. QED BY <2>1, <2>2, <2>3, <2>4, <2>5, <2>6, <2>7, PullType DEF TypeOK, IInv, Base, Typed
  <1>. QED BY <1>1, EventsInvariant, PTL

\* EndpointExclusive: whatever offers and identity changes run at the same time,
\* no two active instances have, or wait for, one endpoint.
THEOREM EventsEndpointExclusive == Spec => []EndpointExclusive
  <1>1. IInv => EndpointExclusive
    BY DEF IInv, Places
  <1>. QED BY <1>1, EventsInvariant, PTL

\* DecidedIsFinal: no delivery, replay, pull or restart changes what an event was
\* answered.
THEOREM EventsDecidedIsFinal == Spec => DecidedIsFinal
  <1>1. IInv /\ [Next]_vars => Answered
    BY NextKeeps
  <1>2. IInv /\ [Next]_vars => [Answered]_vars
    BY <1>1
  <1>3. Spec => [][Answered]_vars
    BY <1>2, EventsInvariant, PTL DEF Spec
  <1>. QED BY <1>3 DEF DecidedIsFinal, Answered

-----------------------------------------------------------------------------
(***************************************************************************)
(* What the order of events means for the rows: an absence is forgiven, a  *)
(* revoked lease is not admitted, and a pushed identity is never taken     *)
(* back.                                                                   *)
(*                                                                         *)
(* So far the invariant says who may write a row.  From here it also says  *)
(* what is known when it is written: that rows and events name a lease,    *)
(* what the partner has said of it, and what a goroutine that holds a lock *)
(* has found out about the log and about its copy.                         *)
(***************************************************************************)

(***************************************************************************)
(* Whoever is tracked has an identity, and so has every offer.             *)
(***************************************************************************)
Well(r) == /\ Tracked(r) => r.ident # 0
           /\ HasUpdate(r) => r.pu.ident # 0

Real(r) == r.ident # 0 /\ Well(r)

NamedPlace(self) ==
    /\ self.pc \in {"admit", "allocate"} => self.event.kind = "ADDED"
    /\ self.pc \in {"touch", "update", "store"} => self.event.kind = "UPDATED"
    /\ self.pc \in {"request", "reclaim"} => self.event.kind = "REVOKED"
    /\ self.pc \in {"allocate", "store", "request"} => Real(self.copy)

RowsNamed   == \A i \in Instance : Well(row[i])
OwnersNamed == \A i \in Instance : lock[i] = Owner => Real(work[i])
EventsNamed == /\ \A e \in sent \cup DOMAIN log : e.kind # "REVOKED" => e.ident # 0
               /\ \A e \in sent : e.src = "push"

Named == /\ RowsNamed /\ OwnersNamed /\ EventsNamed
         /\ \A x \in Executor : NamedPlace(exec[x])

\* No row is ever forgotten.
RowsStayTracked == \A i \in Instance : Tracked(row[i]) => Tracked(row'[i])
-----------------------------------------------------------------------------
LEMMA RealIsTracked ==
    ASSUME NEW r, r.ident # 0
    PROVE  Tracked(r)
  BY NotTrackedType DEF Tracked

LEMMA NotTrackedWell == Well(NotTracked)
  BY NotTrackedType DEF Well, Tracked, HasUpdate

\* x goes on, decides or rests.
Turns(x) == \E n : NamedPlace(n) /\ exec' = [exec EXCEPT ![x] = n]

LEMMA GotoTurns ==
    ASSUME IInv, NEW x \in Executor, exec[x].pc \in Working,
           NEW pc, NEW copy, Goto(x, pc, copy),
           pc \in {"admit", "allocate"} => exec[x].event.kind = "ADDED",
           pc \in {"touch", "update", "store"} => exec[x].event.kind = "UPDATED",
           pc \in {"request", "reclaim"} => exec[x].event.kind = "REVOKED",
           pc \in {"allocate", "store", "request"} => Real(copy)
    PROVE  Turns(x)
  <1>. DEFINE n == [exec[x] EXCEPT !.pc = pc, !.copy = copy]
  <1>1. exec[x] \in Handler
    BY DEF IInv, Base, Typed
  <1>2. n.pc = pc /\ n.copy = copy /\ n.event = exec[x].event
    BY <1>1 DEF Handler
  <1>3. exec' = [exec EXCEPT ![x] = n]
    BY DEF Goto
  <1>. HIDE DEF n
  <1>4. NamedPlace(n)
    BY <1>2 DEF NamedPlace
  <1>. QED BY <1>3, <1>4 DEF Turns

LEMMA RestTurns ==
    ASSUME IInv, NEW x \in Executor,
           Defer(x) \/ (exec[x].pc \in Working /\ \E v \in Verdict : Decide(x, v))
    PROVE  Turns(x)
  <1>1. ASSUME NEW n, n.pc \in Resting \cup {"complete"}
        PROVE  NamedPlace(n)
    BY <1>1 DEF NamedPlace, Resting
  <1>2. CASE Defer(x)
    <2>1. "PENDING" \in Result /\ Finish(x, "PENDING")
      BY <1>2 DEF Defer, Result
    <2>2. \E n : Goes(x, n) /\ n.pc \in Resting
      BY <2>1, FinishGoes DEF IInv
    <2>. QED BY <1>1, <2>2 DEF Goes, Turns
  <1>3. ASSUME exec[x].pc \in Working, NEW v \in Verdict, Decide(x, v)
        PROVE  Turns(x)
    <2>1. \E n : Goes(x, n) /\ n.pc = "complete"
      BY <1>3, DecideGoes DEF IInv
    <2>. QED BY <1>1, <2>1 DEF Goes, Turns
  <1>. QED BY <1>2, <1>3

\* What a write may leave.
Writes == UNCHANGED row \/ \E i \in Instance, r \in Row : Real(r) /\ Put(i, r)

LEMMA WritesNamed ==
    ASSUME IInv, RowsNamed, Writes
    PROVE  RowsNamed' /\ RowsStayTracked
  <1>1. CASE UNCHANGED row
    BY <1>1 DEF RowsNamed, RowsStayTracked
  <1>2. ASSUME NEW i \in Instance, NEW r \in Row, Real(r), Put(i, r)
        PROVE  RowsNamed' /\ RowsStayTracked
    <2>1. \A j \in Instance : row'[j] = IF j = i THEN r ELSE row[j]
      BY <1>2 DEF Put, IInv, Base, Typed
    <2>. QED BY <1>2, <2>1, RealIsTracked DEF RowsNamed, RowsStayTracked, Real
  <1>. QED BY <1>1, <1>2 DEF Writes

\* Nobody but LifecycleBegin makes an owner.
LEMMA LocksNamed ==
    ASSUME IInv, OwnersNamed, NEW x \in Executor, work' = work,
           \/ UNCHANGED lockVars \/ Release(x)
           \/ \E i \in Instance : lock' = [lock EXCEPT ![i] = x]
    PROVE  OwnersNamed'
  <1>1. \A j \in Instance : lock'[j] = Owner => lock[j] = Owner
    BY EventsAssumption DEF lockVars, Release, IInv, Base, Typed
  <1>. QED BY <1>1 DEF OwnersNamed

LEMMA TurnNamed ==
    ASSUME IInv, Named, NEW x \in Executor, Turns(x), Writes, UNCHANGED <<log, sent>>, work' = work,
           \/ UNCHANGED lockVars \/ Release(x)
           \/ \E i \in Instance : lock' = [lock EXCEPT ![i] = x]
    PROVE  Named' /\ RowsStayTracked
  <1>1. RowsNamed' /\ RowsStayTracked
    BY WritesNamed DEF Named
  <1>2. OwnersNamed'
    BY LocksNamed DEF Named
  <1>3. EventsNamed'
    BY DEF Named, EventsNamed
  <1>4. (\A y \in Executor : NamedPlace(exec[y]))'
    BY DEF Turns, Named, IInv, Base, Typed
  <1>. QED BY <1>1, <1>2, <1>3, <1>4 DEF Named

-----------------------------------------------------------------------------
(***************************************************************************)
(* The handlers.                                                           *)
(***************************************************************************)
LEMMA AtWorkNamed ==
    ASSUME IInv, Named, NEW x \in Executor, exec[x].pc \in Working
    PROVE  /\ exec[x].event.inst \in Instance /\ exec[x].event \in Event
           /\ exec[x].event.kind # "REVOKED" => exec[x].event.ident # 0
           /\ row[exec[x].event.inst] \in Row /\ Well(row[exec[x].event.inst])
           /\ exec[x].copy \in Row /\ NamedPlace(exec[x])
  <1>1. exec[x].event \in DOMAIN log /\ exec[x].event.inst \in Instance
    BY AtWork DEF IInv, Pending
  <1>. QED BY <1>1, AtWork DEF IInv, Named, RowsNamed, EventsNamed

LEMMA HandleAddedNamed ==
    ASSUME IInv, Named, NEW x \in Executor, HandleAdded(x)
    PROVE  Named' /\ RowsStayTracked
  <1>. DEFINE i == exec[x].event.inst
              r == row[i]
  <1>1. /\ exec[x].pc \in Working /\ exec[x].event.kind = "ADDED"
        /\ UNCHANGED <<partnerVars, row, log, loopVars, faults>>
    BY DEF HandleAdded, Handles, Working
  <1>2. \/ Defer(x) /\ UNCHANGED lockVars
        \/ (\E v \in Verdict : Decide(x, v)) /\ UNCHANGED lockVars
        \/ /\ Acquire(x, i)
           /\ Goto(x, IF Active(r) THEN "allocate" ELSE "admit", r)
    BY Zenon DEF HandleAdded, Verdict
  <1>3. /\ work' = work
        /\ UNCHANGED lockVars \/ lock' = [lock EXCEPT ![i] = x]
    BY <1>2 DEF Acquire, lockVars
  <1>4. i \in Instance /\ Well(r)
    BY <1>1, AtWorkNamed
  <1>5. Active(r) => Real(r)
    BY <1>4 DEF Active, Well, Real
  <1>6. Turns(x)
    <2>1. CASE Defer(x) \/ \E v \in Verdict : Decide(x, v)
      BY <1>1, <2>1, RestTurns
    <2>. DEFINE p == IF Active(r) THEN "allocate" ELSE "admit"
    <2>2. CASE Goto(x, p, r)
      <3>1. p \in {"admit", "allocate"} /\ (p = "allocate" => Real(r))
        BY <1>5
      <3>. HIDE DEF p, r
      <3>. QED BY <1>1, <2>2, <3>1, GotoTurns
    <2>. QED BY <1>2, <2>1, <2>2
  <1>7. UNCHANGED <<log, sent>> /\ Writes
    BY <1>1 DEF partnerVars, Writes
  <1>. HIDE DEF i
  <1>. QED BY <1>3, <1>4, <1>6, <1>7, TurnNamed

\* The row an admission stores, and the copy it goes on with.
LEMMA AdmitNamed ==
    ASSUME IInv, Named, NEW x \in Executor, Admit(x)
    PROVE  Named' /\ RowsStayTracked
  <1>. DEFINE e == exec[x].event
              i == e.inst
              new == [FreshRow(e.ident) EXCEPT !.seen = e.at]
              m == Reoffered(row[i], new)
  <1>1. /\ exec[x].pc = "admit" /\ exec[x].pc \in Working
        /\ UNCHANGED <<partnerVars, log, loopVars, faults>>
    BY DEF Admit, Working
  <1>2. /\ e.kind = "ADDED" /\ e.ident # 0 /\ i \in Instance /\ row[i] \in Row /\ e \in Event
    BY <1>1, AtWorkNamed DEF NamedPlace
  <1>3. UNCHANGED <<log, sent>>
    BY <1>1 DEF partnerVars
  <1>4. CASE Put(i, m) /\ Goto(x, "allocate", new) /\ UNCHANGED lockVars
    <2>1. new \in Row /\ new.ident # 0 /\ new.pu = NoUpdate
      BY <1>2, AdmittedRow
    <2>. HIDE DEF new
    <2>2. m \in Row /\ m.ident # 0 /\ m.pu = NoUpdate
      BY <1>2, <2>1, ReofferIdempotent
    <2>. HIDE DEF m
    <2>3. Real(new) /\ Real(m)
      BY <2>1, <2>2 DEF Real, Well, HasUpdate
    <2>4. Writes
      BY <1>2, <1>4, <2>2, <2>3 DEF Writes
    <2>5. Turns(x)
      BY <1>1, <1>2, <1>4, <2>3, GotoTurns
    <2>6. work' = work
      BY <1>4 DEF lockVars
    <2>. QED BY <1>3, <1>4, <2>4, <2>5, <2>6, TurnNamed
  <1>5. CASE Release(x) /\ Defer(x) /\ UNCHANGED row
    <2>1. Writes /\ work' = work /\ Turns(x)
      BY <1>5, RestTurns DEF Writes, Release
    <2>. QED BY <1>3, <1>5, <2>1, TurnNamed
  <1>. HIDE DEF new
  <1>. QED BY <1>4, <1>5 DEF Admit, new

\* A merge of a real row, which leaves no update but one of the two.
LEMMA MergedReal ==
    ASSUME NEW c \in Row, NEW n \in Row, Well(c), Real(n)
    PROVE  Merged(c, n) \in Row /\ Real(Merged(c, n))
  <1>. DEFINE m == Merged(c, n)
  <1>1. m \in Row /\ m.ident = n.ident /\ m.pu \in {c.pu, n.pu, NoUpdate}
    BY MergedType, KeptUpdateType
  <1>. HIDE DEF m
  <1>2. Real(m)
    BY <1>1 DEF Real, Well, HasUpdate
  <1>. QED BY <1>1, <1>2 DEF m

LEMMA AllocateNamed ==
    ASSUME IInv, Named, NEW x \in Executor, Allocate(x)
    PROVE  Named' /\ RowsStayTracked
  <1>. DEFINE i == exec[x].event.inst
              c == exec[x].copy
              n == [c EXCEPT !.inst = "PREPARING"]
              m == Merged(row[i], n)
  <1>1. /\ exec[x].pc = "allocate" /\ exec[x].pc \in Working /\ Release(x) /\ work' = work
        /\ UNCHANGED <<log, sent>>
    BY DEF Allocate, Working, Release, partnerVars
  <1>2. i \in Instance /\ row[i] \in Row /\ Well(row[i]) /\ c \in Row /\ Real(c)
    BY <1>1, AtWorkNamed DEF NamedPlace
  <1>3. n \in Row /\ Real(n)
    <2>1. n \in Row /\ n.ident = c.ident /\ n.pu = c.pu
      BY <1>2 DEF Row, InstanceState
    <2>. HIDE DEF n
    <2>. QED BY <1>2, <2>1 DEF Real, Well, HasUpdate
  <1>. HIDE DEF n, c
  <1>4. m \in Row /\ Real(m)
    BY <1>2, <1>3, MergedReal
  <1>. HIDE DEF m
  <1>5. UNCHANGED row \/ Put(i, m)
    BY DEF Allocate, m, n, c
  <1>6. Writes
    BY <1>2, <1>4, <1>5 DEF Writes
  <1>7. Turns(x)
    BY <1>1, RestTurns DEF Allocate, Verdict
  <1>. QED BY <1>1, <1>6, <1>7, TurnNamed

LEMMA HandleUpdatedNamed ==
    ASSUME IInv, Named, NEW x \in Executor, HandleUpdated(x)
    PROVE  Named' /\ RowsStayTracked
  <1>1. /\ exec[x].pc \in Working /\ exec[x].event.kind = "UPDATED"
        /\ UNCHANGED <<log, sent, row, lockVars>> /\ work' = work
    BY DEF HandleUpdated, Handles, Working, partnerVars, lockVars
  <1>2. \/ \E v \in Verdict : Decide(x, v)
        \/ \E pc \in {"touch", "update"} : \E copy : Goto(x, pc, copy)
    BY DEF HandleUpdated, Verdict
  <1>3. Turns(x)
    BY <1>1, <1>2, RestTurns, GotoTurns
  <1>. QED BY <1>1, <1>3, TurnNamed DEF Writes

LEMMA TouchNamed ==
    ASSUME IInv, Named, NEW x \in Executor, Touch(x)
    PROVE  Named' /\ RowsStayTracked
  <1>. DEFINE e == exec[x].event
              r == row[e.inst]
              s == [r EXCEPT !.seen = e.at]
  <1>1. /\ exec[x].pc = "touch" /\ exec[x].pc \in Working
        /\ UNCHANGED <<log, sent, lockVars>> /\ work' = work
    BY DEF Touch, Working, partnerVars, lockVars
  <1>2. r \in Row /\ Well(r) /\ e \in Event /\ e.inst \in Instance /\ e.kind = "UPDATED"
    BY <1>1, AtWorkNamed DEF NamedPlace
  <1>3. CASE Put(e.inst, s) /\ Recordable(r) /\ Decide(x, "APPLIED")
    <2>1. e.at \in Nat
      BY <1>2, EventParts
    <2>2. s \in Row /\ s.ident = r.ident /\ s.pu = r.pu
      BY <1>2, <2>1 DEF Row
    <2>. HIDE DEF s
    <2>3. Real(s)
      BY <1>2, <1>3, <2>2 DEF Recordable, Active, Real, Well, HasUpdate
    <2>4. Writes /\ Turns(x)
      BY <1>1, <1>2, <1>3, <2>2, <2>3, RestTurns DEF Writes, Verdict
    <2>. QED BY <1>1, <2>4, TurnNamed
  <1>4. CASE UNCHANGED row /\ Goto(x, "update", NotTracked)
    <2>1. Writes /\ Turns(x)
      BY <1>1, <1>2, <1>4, GotoTurns DEF Writes
    <2>. QED BY <1>1, <2>1, TurnNamed
  <1>. QED BY <1>3, <1>4 DEF Touch

LEMMA UpdateNamed ==
    ASSUME IInv, Named, NEW x \in Executor, Update(x)
    PROVE  Named' /\ RowsStayTracked
  <1>. DEFINE i == exec[x].event.inst
              r == row[i]
  <1>1. /\ exec[x].pc = "update" /\ exec[x].pc \in Working
        /\ UNCHANGED <<log, sent, row>>
    BY DEF Update, Working, partnerVars
  <1>2. i \in Instance /\ Well(r) /\ exec[x].event.kind = "UPDATED"
    BY <1>1, AtWorkNamed DEF NamedPlace
  <1>3. \/ Defer(x) /\ UNCHANGED lockVars
        \/ (\E v \in Verdict : Decide(x, v)) /\ UNCHANGED lockVars
        \/ Acquire(x, i) /\ Goto(x, "store", r) /\ Active(r)
    BY Zenon DEF Update, Verdict
  <1>4. work' = work /\ (UNCHANGED lockVars \/ lock' = [lock EXCEPT ![i] = x])
    BY <1>3 DEF Acquire, lockVars
  <1>5. Active(r) => Real(r)
    BY <1>2 DEF Active, Well, Real
  <1>. HIDE DEF r
  <1>6. Turns(x)
    BY <1>1, <1>2, <1>3, <1>5, RestTurns, GotoTurns
  <1>. QED BY <1>1, <1>2, <1>4, <1>6, TurnNamed DEF Writes

\* The row an update asks for.
LEMMA WantedRow ==
    ASSUME NEW c \in Row, NEW e \in Event
    PROVE  /\ Queued(c, e) \in Row /\ Queued(c, e).ident = c.ident
           /\ Queued(c, e).seen = c.seen /\ Queued(c, e).inst = c.inst
           /\ Queued(c, e).pr = c.pr
           /\ Queued(c, e).pu.ident = e.ident /\ Queued(c, e).pu.at = e.at
           /\ Replaced(c, e) \in Row /\ Replaced(c, e).ident = e.ident
           /\ Replaced(c, e).seen = e.at /\ Replaced(c, e).inst \in {"PREPARING", c.inst}
           /\ Replaced(c, e).pr = c.pr
           /\ Replaced(c, e).pu = NoUpdate
  <1>1. e.ident \in Nat /\ e.at \in Nat
    BY EventParts
  <1>2. /\ Queued(c, e) \in Row /\ Queued(c, e).ident = c.ident
        /\ Queued(c, e).seen = c.seen /\ Queued(c, e).inst = c.inst
        /\ Queued(c, e).pr = c.pr
        /\ Queued(c, e).pu.ident = e.ident /\ Queued(c, e).pu.at = e.at
    <2>. DEFINE u == [ident |-> e.ident, at |-> e.at]
                q == [c EXCEPT !.pu = u]
    <2>1. u \in [ident : Nat, at : Nat] /\ u.ident = e.ident /\ u.at = e.at
      BY <1>1
    <2>. HIDE DEF u
    <2>2. q \in Row /\ q.ident = c.ident /\ q.seen = c.seen /\ q.inst = c.inst
          /\ q.pr = c.pr /\ q.pu = u
      BY <2>1 DEF Row
    <2>. QED BY <2>1, <2>2 DEF Queued, u
  <1>3. /\ Replaced(c, e) \in Row /\ Replaced(c, e).ident = e.ident
        /\ Replaced(c, e).seen = e.at /\ Replaced(c, e).inst \in {"PREPARING", c.inst}
        /\ Replaced(c, e).pr = c.pr
        /\ Replaced(c, e).pu = NoUpdate
    <2>. DEFINE st == IF e.ident # Wanted(c) /\ ~HasService(c) /\ c.inst = "IDLE"
                      THEN "PREPARING" ELSE c.inst
                k == e.ident
                t == e.at
                m == [c EXCEPT !.ident = k, !.seen = t, !.pu = NoUpdate, !.inst = st]
    <2>1. st \in InstanceState /\ st \in {"PREPARING", c.inst}
      BY RowParts DEF InstanceState
    <2>2. Replaced(c, e) = m /\ k \in Nat /\ t \in Nat
      BY <1>1 DEF Replaced
    <2>. HIDE DEF st, k, t
    <2>3. m \in Row /\ m.ident = k /\ m.seen = t /\ m.inst = st /\ m.pr = c.pr
          /\ m.pu = NoUpdate
      BY <2>1, <2>2 DEF Row, NoUpdate
    <2>. HIDE DEF m
    <2>. QED BY <2>1, <2>2, <2>3 DEF k, t
  <1>. QED BY <1>2, <1>3

LEMMA StoreUpdateNamed ==
    ASSUME IInv, Named, NEW x \in Executor, StoreUpdate(x)
    PROVE  Named' /\ RowsStayTracked
  <1>. DEFINE e == exec[x].event
              i == e.inst
              c == exec[x].copy
              queue == HasService(c) /\ (HasUpdate(c) \/ e.ident # Wanted(c))
              next == IF queue THEN Queued(c, e) ELSE Replaced(c, e)
              m == Merged(row[i], next)
  <1>1. exec[x].pc = "store" /\ exec[x].pc \in Working /\ UNCHANGED <<log, sent>>
    BY DEF StoreUpdate, Working, partnerVars
  <1>2. /\ i \in Instance /\ row[i] \in Row /\ Well(row[i]) /\ c \in Row /\ Real(c)
        /\ e \in Event /\ e.ident # 0
    BY <1>1, AtWorkNamed DEF NamedPlace
  <1>3. Real(Queued(c, e)) /\ Real(Replaced(c, e))
    <2>. HIDE DEF c, e
    <2>. QED BY <1>2, WantedRow DEF Real, Well, HasUpdate
  <1>4. next \in Row /\ Real(next)
    <2>. HIDE DEF c, e, queue
    <2>. QED BY <1>2, <1>3, WantedRow
  <1>5. m \in Row /\ Real(m)
    <2>. HIDE DEF next
    <2>. QED BY <1>2, <1>4, MergedReal
  <1>6. /\ UNCHANGED row \/ Put(i, m)
        /\ \/ Goto(x, "drain", NotTracked) /\ UNCHANGED lockVars
           \/ Release(x) /\ (Decide(x, "APPLIED") \/ Defer(x))
    BY Zenon DEF StoreUpdate
  <1>. HIDE DEF m
  <1>7. Writes
    BY <1>2, <1>5, <1>6 DEF Writes
  <1>8. Turns(x) /\ work' = work /\ (UNCHANGED lockVars \/ Release(x))
    <2>. HIDE DEF next, c, e
    <2>. QED BY <1>1, <1>6, RestTurns, GotoTurns DEF Verdict, Release, lockVars
  <1>. QED BY <1>1, <1>7, <1>8, TurnNamed

LEMMA HandleRevokedNamed ==
    ASSUME IInv, Named, NEW x \in Executor, HandleRevoked(x)
    PROVE  Named' /\ RowsStayTracked
  <1>. DEFINE r == row[exec[x].event.inst]
  <1>1. /\ exec[x].pc \in Working /\ exec[x].event.kind = "REVOKED"
        /\ UNCHANGED <<log, sent, row, lockVars>> /\ work' = work
    BY DEF HandleRevoked, Handles, Working, partnerVars, lockVars
  <1>2. \/ Defer(x) \/ \E v \in Verdict : Decide(x, v)
        \/ Goto(x, "request", r) /\ Tracked(r)
    BY DEF HandleRevoked, Verdict
  <1>3. Tracked(r) => Real(r)
    BY <1>1, AtWorkNamed DEF Well, Real
  <1>. HIDE DEF r
  <1>4. Turns(x)
    BY <1>1, <1>2, <1>3, RestTurns, GotoTurns
  <1>. QED BY <1>1, <1>4, TurnNamed DEF Writes

LEMMA RequestReclaimNamed ==
    ASSUME IInv, Named, NEW x \in Executor, RequestReclaim(x)
    PROVE  Named' /\ RowsStayTracked
  <1>. DEFINE i == exec[x].event.inst
              r == row[i]
              s == RequestRelease(r)
              c == exec[x].copy
  <1>1. /\ exec[x].pc = "request" /\ exec[x].pc \in Working
        /\ UNCHANGED <<log, sent, lockVars>> /\ work' = work
    BY DEF RequestReclaim, Working, partnerVars, lockVars
  <1>2. r \in Row /\ Well(r) /\ i \in Instance /\ Real(c) /\ exec[x].event.kind = "REVOKED"
    BY <1>1, AtWorkNamed DEF NamedPlace
  <1>3. CASE r.ident = c.ident /\ Put(i, s) /\ Goto(x, "reclaim", c)
    <2>1. s \in Row /\ s.ident = r.ident /\ s.pu \in {r.pu, NoUpdate}
      <3>1. RequestRelease(r).pu \in {r.pu, NoUpdate}
        <4>. HIDE DEF r
        <4>. QED BY <1>2 DEF RequestRelease, Row
      <3>. QED BY <1>2, <3>1, RequestType
    <2>. HIDE DEF s
    <2>2. Real(s)
      BY <1>2, <1>3, <2>1 DEF Real, Well, HasUpdate
    <2>3. Writes /\ Turns(x)
      BY <1>1, <1>2, <1>3, <2>1, <2>2, GotoTurns DEF Writes
    <2>. QED BY <1>1, <2>3, TurnNamed
  <1>4. CASE UNCHANGED row /\ Defer(x)
    BY <1>1, <1>4, RestTurns, TurnNamed DEF Writes
  <1>. QED BY <1>3, <1>4 DEF RequestReclaim

LEMMA ReclaimNamed ==
    ASSUME IInv, Named, NEW x \in Executor, Reclaim(x)
    PROVE  Named' /\ RowsStayTracked
  <1>. DEFINE i == exec[x].event.inst
  <1>1. /\ exec[x].pc \in Working /\ UNCHANGED <<log, sent, row>>
    BY DEF Reclaim, Working, partnerVars
  <1>2. i \in Instance
    BY <1>1, AtWorkNamed
  <1>3. /\ work' = work /\ (UNCHANGED lockVars \/ lock' = [lock EXCEPT ![i] = x])
        /\ Decide(x, "APPLIED") \/ Goto(x, "drain", NotTracked)
    BY DEF Reclaim, lockVars
  <1>4. Turns(x)
    BY <1>1, <1>3, RestTurns, GotoTurns DEF Verdict
  <1>. QED BY <1>1, <1>2, <1>3, <1>4, TurnNamed DEF Writes

\* Whoever writes after a lifecycle move has read a row that is tracked.
LEMMA MovesReal ==
    ASSUME NEW c \in Row, Well(c), NEW n \in LifecycleMoves(c)
    PROVE  Real(c)
  <1>1. c # NotTracked
    <2>. SUFFICES ASSUME c = NotTracked PROVE FALSE
      OBVIOUS
    <2>1. /\ c.svc = "NONE" /\ c.inst = "ALLOCATING" /\ c.pr = FALSE /\ c.pu = NoUpdate
      BY NotTrackedType
    <2>. QED BY <2>1 DEF LifecycleMoves, DrainMoves, DrainedMoves, StartMoves, ReleasedMoves,
                         HasUpdate, HasService, LiveService
  <1>. QED BY <1>1 DEF Real, Well, Tracked

LEMMA WrittenReal ==
    ASSUME NEW r \in Row, Real(r), NEW c \in Row, Real(c), NEW n \in LifecycleMoves(c)
    PROVE  Written(r, c, n) \in Row /\ Real(Written(r, c, n))
  <1>. DEFINE w == Written(r, c, n)
  <1>1. n \in Row /\ (\/ n.ident = c.ident /\ n.pu = c.pu
                      \/ c.svc = "DRAINING" /\ HasUpdate(c) /\ ~c.pr)
    BY LifecycleMovesType
  <1>2. CASE w = r
    BY <1>2
  <1>3. CASE AcceptsUpdate(r, n) /\ w = Updated(r, n)
    <2>1. w \in Row /\ w.ident = r.pu.ident /\ w.pu = NoUpdate /\ HasUpdate(r)
      BY <1>1, <1>3, UpdateIdempotent DEF AcceptsUpdate
    <2>. HIDE DEF w
    <2>2. Real(w)
      BY <2>1 DEF Real, Well, HasUpdate
    <2>. QED BY <2>1, <2>2 DEF w
  <1>4. CASE ~(c.svc = "DRAINING" /\ HasUpdate(c) /\ ~c.pr) /\ w = Merged(r, n)
    <2>1. Real(n)
      BY <1>1, <1>4 DEF Real, Well, HasUpdate
    <2>2. Merged(r, n) \in Row /\ Real(Merged(r, n))
      BY <1>1, <2>1, MergedReal DEF Real
    <2>. HIDE DEF w
    <2>. QED BY <1>4, <2>2 DEF w
  <1>. QED BY <1>2, <1>3, <1>4 DEF Written

LEMMA DrainNamed ==
    ASSUME IInv, Named, NEW x \in Executor, Drain(x)
    PROVE  Named' /\ RowsStayTracked
  <1>. DEFINE i == exec[x].event.inst
              r == row[i]
  <1>1. /\ exec[x].pc \in Working /\ Release(x) /\ Decide(x, "APPLIED")
        /\ UNCHANGED <<log, sent>> /\ work' = work
    BY DEF Drain, Working, partnerVars, Release
  <1>2. r \in Row /\ Well(r) /\ i \in Instance
    BY <1>1, AtWorkNamed
  <1>3. Writes
    <2>1. CASE UNCHANGED row
      BY <2>1 DEF Writes
    <2>2. ASSUME NEW n \in DrainMoves(r), Put(i, Written(r, r, n))
          PROVE  Writes
      <3>1. n \in LifecycleMoves(r)
        BY <2>2 DEF LifecycleMoves
      <3>. HIDE DEF r
      <3>2. Written(r, r, n) \in Row /\ Real(Written(r, r, n))
        BY <1>2, <3>1, MovesReal, WrittenReal
      <3>. QED BY <1>2, <2>2, <3>2 DEF Writes
    <2>. QED BY <2>1, <2>2 DEF Drain
  <1>4. Turns(x)
    BY <1>1, RestTurns DEF Verdict
  <1>. QED BY <1>1, <1>3, <1>4, TurnNamed

LEMMA CancelNamed ==
    ASSUME IInv, Named, NEW x \in Executor, Cancel(x)
    PROVE  Named' /\ RowsStayTracked
  <1>1. Release(x) /\ Defer(x) /\ UNCHANGED <<log, sent, row>> /\ work' = work
    BY DEF Cancel, partnerVars, Release
  <1>. QED BY <1>1, RestTurns, TurnNamed DEF Writes
-----------------------------------------------------------------------------
(***************************************************************************)
(* What takes events up, answers them or issues them.                      *)
(***************************************************************************)

\* Rows and locks stay; events that are new name a lease if they offer one.
LEMMA AroundNamed ==
    ASSUME IInv, Named, UNCHANGED <<row, lockVars>>,
           \A e \in sent' : e \in sent \/ (e.src = "push" /\ (e.kind # "REVOKED" => e.ident # 0)),
           \A e \in DOMAIN log' : \/ e \in sent \cup DOMAIN log
                                  \/ e.kind # "REVOKED" => e.ident # 0,
           \A x \in Executor : exec'[x] = exec[x] \/ NamedPlace(exec'[x])
    PROVE  Named' /\ RowsStayTracked
  <1>1. RowsNamed' /\ RowsStayTracked
    BY DEF Named, RowsNamed, RowsStayTracked
  <1>2. OwnersNamed'
    BY DEF Named, OwnersNamed, lockVars
  <1>3. EventsNamed'
    BY DEF Named, EventsNamed
  <1>4. (\A y \in Executor : NamedPlace(exec[y]))'
    BY DEF Named
  <1>. QED BY <1>1, <1>2, <1>3, <1>4 DEF Named

LEMMA ElsewhereNamed ==
    ASSUME NEW self, self.pc \in {"idle", "done", "apply", "complete"}
    PROVE  NamedPlace(self)
  BY DEF NamedPlace

\* One goroutine begins, answers or rests.
LEMMA StartNamed ==
    ASSUME IInv, NEW x \in Executor, NEW n, exec' = [exec EXCEPT ![x] = n],
           n.pc \in {"idle", "done", "apply", "complete"}
    PROVE  \A y \in Executor : exec'[y] = exec[y] \/ NamedPlace(exec'[y])
  BY ElsewhereNamed DEF IInv, Base, Typed

LEMMA BeginNamed ==
    ASSUME IInv, NEW x \in Executor, NEW e, e \in Event, Begin(x, e)
    PROVE  \A y \in Executor : exec'[y] = exec[y] \/ NamedPlace(exec'[y])
  <1>. DEFINE n == [Idle EXCEPT !.pc = "apply", !.event = e]
  <1>1. n.pc = "apply"
    BY IdleType DEF Handler
  <1>2. exec' = [exec EXCEPT ![x] = n]
    BY DEF Begin
  <1>. HIDE DEF n
  <1>. QED BY <1>1, <1>2, StartNamed

LEMMA CompleteNamed ==
    ASSUME IInv, Named, NEW x \in Executor, Complete(x)
    PROVE  Named' /\ RowsStayTracked
  <1>. DEFINE e == exec[x].event
              v == exec[x].result
  <1>1. /\ exec[x].pc \in Working /\ log' = CompleteEvent(e, v) /\ Finish(x, v)
        /\ UNCHANGED <<sent, row, lockVars>>
    BY DEF Complete, Working, partnerVars
  <1>2. e \in DOMAIN log /\ v \in Result
    BY <1>1, AtWork DEF Handler, IInv, Pending
  <1>3. DOMAIN log' \subseteq DOMAIN log
    BY <1>1, <1>2 DEF CompleteEvent, IInv, Base, Typed
  <1>4. PICK n : Goes(x, n) /\ n.pc \in Resting
    BY <1>1, <1>2, FinishGoes DEF IInv
  <1>5. \A y \in Executor : exec'[y] = exec[y] \/ NamedPlace(exec'[y])
    BY <1>4, StartNamed DEF Goes, Resting
  <1>. QED BY <1>1, <1>3, <1>5, AroundNamed

LEMMA ClaimedDomain ==
    ASSUME NEW e, log' = ClaimEvent(e)
    PROVE  DOMAIN log' = DOMAIN log \cup {e}
  BY DEF ClaimEvent

LEMMA DeliverNamed ==
    ASSUME IInv, Named, NEW x \in Executor, NEW e \in sent, Deliver(x, e)
    PROVE  Named' /\ RowsStayTracked
  <1>1. log' = ClaimEvent(e) /\ Begin(x, e) /\ UNCHANGED <<sent, row, lockVars>>
    BY DEF Deliver, partnerVars
  <1>2. DOMAIN log' = DOMAIN log \cup {e} /\ e \in Event
    BY <1>1, ClaimedDomain DEF IInv, Base, Typed
  <1>. QED BY <1>1, <1>2, BeginNamed, AroundNamed

LEMMA ReplayNamed ==
    ASSUME IInv, Named, Replay
    PROVE  Named' /\ RowsStayTracked
  <1>. DEFINE e == First(replay.todo)
  <1>1. UNCHANGED <<log, sent, row, lockVars>>
    BY DEF Replay, ResumePending, ResumeEvent, partnerVars
  <1>2. UNCHANGED exec \/ (replay.todo # {} /\ Begin(Reconciler, e))
    BY DEF Replay, ResumePending, ResumeEvent
  <1>3. replay.todo # {} => e \in Event
    BY FirstIsOne DEF IInv, Base, Typed
  <1>. HIDE DEF e
  <1>4. \A y \in Executor : exec'[y] = exec[y] \/ NamedPlace(exec'[y])
    BY <1>2, <1>3, BeginNamed, EventsAssumption
  <1>. QED BY <1>1, <1>4, AroundNamed

\* Only the sweep claims events of its own: an offer of an identity it was shown,
\* or a revoke.
LEMMA PullNamed ==
    ASSUME IInv, Named, Pull
    PROVE  Named' /\ RowsStayTracked
  <1>1. UNCHANGED <<sent, row, lockVars>>
    BY DEF Pull, PullBegin, PullRead, PullList, PullOutcome, PullCommit, PullOffered, PullAbsent,
           partnerVars
  <1>2. CASE UNCHANGED <<exec, log>>
    BY <1>1, <1>2, AroundNamed
  <1>3. CASE PullOutcome
    <2>1. exec' = [exec EXCEPT ![Puller] = Idle] /\ UNCHANGED log
      BY <1>3 DEF PullOutcome
    <2>2. \A y \in Executor : exec'[y] = exec[y] \/ NamedPlace(exec'[y])
      BY <2>1, IdleType, EventsAssumption, StartNamed
    <2>. QED BY <1>1, <2>1, <2>2, AroundNamed
  <1>4. ASSUME NEW e \in Event, e.kind # "REVOKED" => e.ident # 0, Apply(e)
        PROVE  Named' /\ RowsStayTracked
    <2>1. CASE e \in DOMAIN log
      <3>. DEFINE n == [Idle EXCEPT !.pc = "done", !.result = log[e]]
      <3>1. exec' = [exec EXCEPT ![Puller] = n] /\ UNCHANGED log
        BY <1>4, <2>1 DEF Apply
      <3>2. n.pc = "done"
        BY IdleType DEF Handler
      <3>. HIDE DEF n
      <3>3. \A y \in Executor : exec'[y] = exec[y] \/ NamedPlace(exec'[y])
        BY <3>1, <3>2, EventsAssumption, StartNamed
      <3>. QED BY <1>1, <3>1, <3>3, AroundNamed
    <2>2. CASE e \notin DOMAIN log
      <3>1. log' = ClaimEvent(e) /\ Begin(Puller, e)
        BY <1>4, <2>2 DEF Apply
      <3>2. DOMAIN log' = DOMAIN log \cup {e}
        BY <3>1, ClaimedDomain
      <3>3. \A y \in Executor : exec'[y] = exec[y] \/ NamedPlace(exec'[y])
        BY <3>1, EventsAssumption, BeginNamed
      <3>. QED BY <1>1, <1>4, <3>2, <3>3, AroundNamed
    <2>. QED BY <2>1, <2>2
  <1>5. ASSUME NEW i \in Instance, PullOffered(i)
        PROVE  Named' /\ RowsStayTracked
    <2>. DEFINE kind == PulledKind(pull.rows[i])
                e == PulledEvent(i, kind, pull.view[i])
    <2>1. pull.view[i] # 0 /\ (UNCHANGED <<exec, log>> \/ Apply(e))
      BY <1>5 DEF PullOffered
    <2>2. kind \in Kind /\ pull.view[i] \in 0 .. MaxTime
      BY PullType DEF PulledKind, Kind
    <2>3. e \in Event /\ e.ident = pull.view[i]
      BY <2>2, PulledEventType
    <2>. HIDE DEF e
    <2>. QED BY <1>2, <1>4, <2>1, <2>3
  <1>6. ASSUME NEW i \in Instance, PullAbsent(i)
        PROVE  Named' /\ RowsStayTracked
    <2>. DEFINE ident == pull.rows[i].ident
                e == PulledEvent(i, "REVOKED", ident)
    <2>1. UNCHANGED <<exec, log>> \/ Apply(e)
      BY <1>6 DEF PullAbsent
    <2>2. ident \in 0 .. MaxTime /\ "REVOKED" \in Kind
      BY PullType, EventsAssumption DEF Names, Known, Kind, IInv, Base, Typed, Time
    <2>3. e \in Event /\ e.kind = "REVOKED"
      BY <2>2, PulledEventType DEF PulledEvent
    <2>. HIDE DEF e
    <2>. QED BY <1>2, <1>4, <2>1, <2>3
  <1>. QED BY <1>2, <1>3, <1>5, <1>6
           DEF Pull, PullBegin, PullRead, PullList, PullCommit

LEMMA PartnerNamed ==
    ASSUME IInv, Named, NEW i \in Instance, Partner(i)
    PROVE  Named' /\ RowsStayTracked
  <1>1. UNCHANGED <<row, log, lockVars, exec>> /\ now' = now + 1
    BY DEF Partner, PartnerOffers, PartnerReplaces, PartnerConfirms, PartnerWithdraws,
           PartnerIssues, Does
  <1>2. now' # 0 /\ now \in Nat
    BY <1>1, EventsAssumption DEF IInv, Base, Typed, Time
  <1>3. PICK kind, ident : Says(i, kind, ident) /\ (kind # "REVOKED" => ident # 0)
    BY <1>2 DEF Partner, PartnerOffers, PartnerReplaces, PartnerConfirms, PartnerWithdraws,
                PartnerIssues
  <1>4. \A e \in sent' : e \in sent \/ (e.src = "push" /\ (e.kind # "REVOKED" => e.ident # 0))
    BY <1>3 DEF Says
  <1>. QED BY <1>1, <1>4, AroundNamed

LEMMA LifecycleBeginNamed ==
    ASSUME IInv, Named, NEW i \in Instance, LifecycleBegin(i)
    PROVE  Named' /\ RowsStayTracked
  <1>1. /\ LifecycleMoves(row[i]) # {} /\ lock' = [lock EXCEPT ![i] = Owner]
        /\ work' = [work EXCEPT ![i] = row[i]] /\ UNCHANGED <<row, log, sent, exec>>
    BY DEF LifecycleBegin, partnerVars
  <1>2. row[i] \in Row /\ Well(row[i])
    BY DEF IInv, Base, Typed, Named, RowsNamed
  <1>3. Real(row[i])
    BY <1>1, <1>2, MovesReal
  <1>4. OwnersNamed'
    BY <1>1, <1>3 DEF Named, OwnersNamed, IInv, Base, Typed
  <1>. QED BY <1>1, <1>4 DEF Named, RowsNamed, EventsNamed, RowsStayTracked

LEMMA LifecycleEndNamed ==
    ASSUME IInv, Named, NEW i \in Instance, LifecycleEnd(i)
    PROVE  Named' /\ RowsStayTracked
  <1>1. /\ lock[i] = Owner /\ lock' = [lock EXCEPT ![i] = Nobody]
        /\ work' = [work EXCEPT ![i] = NotTracked] /\ UNCHANGED <<log, sent, exec>>
    BY DEF LifecycleEnd
  <1>2. PICK n \in LifecycleMoves(work[i]) : Put(i, Written(row[i], work[i], n))
    BY DEF LifecycleEnd
  <1>3. row[i] \in Row /\ work[i] \in Row /\ Well(row[i]) /\ Real(work[i])
        /\ row[i].ident = work[i].ident
    BY <1>1 DEF IInv, Base, Typed, Places, OwnerCurrent, Fresh, Named, RowsNamed, OwnersNamed
  <1>4. Real(row[i])
    BY <1>3 DEF Real
  <1>5. Written(row[i], work[i], n) \in Row /\ Real(Written(row[i], work[i], n))
    BY <1>3, <1>4, WrittenReal
  <1>6. RowsNamed' /\ RowsStayTracked
    BY <1>2, <1>5, WritesNamed DEF Writes, Named
  <1>7. OwnersNamed'
    BY <1>1, EventsAssumption DEF Named, OwnersNamed, IInv, Base, Typed
  <1>. QED BY <1>1, <1>6, <1>7 DEF Named, EventsNamed

LEMMA CrashNamed ==
    ASSUME IInv, Named, Crash
    PROVE  Named' /\ RowsStayTracked
  <1>1. /\ UNCHANGED <<row, log, sent>> /\ lock' = [i \in Instance |-> Nobody]
        /\ exec' = [x \in Executor |-> Idle]
    BY DEF Crash, Forget, partnerVars
  <1>2. OwnersNamed'
    BY <1>1, EventsAssumption DEF OwnersNamed
  <1>3. (\A y \in Executor : NamedPlace(exec[y]))'
    BY <1>1, IdleType, ElsewhereNamed
  <1>. QED BY <1>1, <1>2, <1>3 DEF Named, RowsNamed, EventsNamed, RowsStayTracked

LEMMA InitNamed ==
    ASSUME Init
    PROVE  Named
  <1>1. /\ sent = {} /\ DOMAIN log = {} /\ row = [i \in Instance |-> NotTracked]
        /\ lock = [i \in Instance |-> Nobody] /\ exec = [x \in Executor |-> Idle]
    BY DEF Init
  <1>2. \A y \in Executor : NamedPlace(exec[y])
    BY <1>1, IdleType, ElsewhereNamed
  <1>3. RowsNamed /\ OwnersNamed /\ EventsNamed
    BY <1>1, NotTrackedWell, EventsAssumption DEF RowsNamed, OwnersNamed, EventsNamed
  <1>. QED BY <1>2, <1>3 DEF Named

LEMMA HandlerNamed ==
    ASSUME IInv, Named, NEW x \in Executor, Handle(x) \/ Cancel(x)
    PROVE  Named' /\ RowsStayTracked
  BY HandleAddedNamed, AdmitNamed, AllocateNamed, HandleUpdatedNamed, TouchNamed, UpdateNamed,
     StoreUpdateNamed, HandleRevokedNamed, RequestReclaimNamed, ReclaimNamed, DrainNamed,
     CompleteNamed, CancelNamed DEF Handle

LEMMA NextNamed ==
    ASSUME IInv, Named, [Next]_vars
    PROVE  Named' /\ RowsStayTracked
  <1>1. ASSUME NEW x \in Executor, Handle(x) \/ Cancel(x)
        PROVE  Named' /\ RowsStayTracked
    BY <1>1, HandlerNamed
  <1>2. ASSUME NEW x \in Executor, NEW e \in sent, Deliver(x, e)
        PROVE  Named' /\ RowsStayTracked
    BY <1>2, DeliverNamed
  <1>3. ASSUME NEW i \in Instance, LifecycleStep(i) \/ Partner(i)
        PROVE  Named' /\ RowsStayTracked
    BY <1>3, LifecycleBeginNamed, LifecycleEndNamed, PartnerNamed DEF LifecycleStep
  <1>4. CASE UNCHANGED vars \/ \E i \in Instance : GracePasses(i)
    <2>1. UNCHANGED <<row, lockVars, sent, log, exec>>
      BY <1>4 DEF vars, partnerVars, GracePasses
    <2>. QED BY <2>1, AroundNamed
  <1>. QED BY <1>1, <1>2, <1>3, <1>4, ReplayNamed, PullNamed, CrashNamed DEF Next
-----------------------------------------------------------------------------
(***************************************************************************)
(* The clock of an absence runs only for a row that exists and that no     *)
(* completed round has seen since it was started; a sweep that is through  *)
(* with an instance it was shown has stopped it.                           *)
(***************************************************************************)
Clocks ==
    \A i \in Instance :
       /\ Tracked(pull.rows[i]) => Tracked(row[i])
       /\ missing[i] # "none" => Tracked(row[i]) /\ shown[i] # "completed"
       /\ pull.stage = "sweep" /\ missing[i] # "none" => Tracked(pull.rows[i])
       /\ pull.stage = "sweep" /\ i \notin pull.todo /\ pull.view[i] # 0 => missing[i] = "none"

\* What AbsenceForgiven says of a step.
Forgiving == \A e \in PulledRevokes : shown[e.inst] # "completed"

\* No step but those of the sweep claims a revoke of its own.
LEMMA ClaimsNoRevoke ==
    ASSUME \A e \in DOMAIN log' \ DOMAIN log : e.src # "pull" \/ e.kind # "REVOKED"
    PROVE  Forgiving
  BY DEF Forgiving, PulledRevokes

LEMMA ClocksStay ==
    ASSUME Clocks, RowsStayTracked, UNCHANGED <<pull, missing, shown>>
    PROVE  Clocks'
  BY DEF Clocks, RowsStayTracked

LEMMA PullBeginClocks ==
    ASSUME IInv, Clocks, PullBegin
    PROVE  Clocks' /\ Forgiving
  <1>1. /\ pull' = [pull EXCEPT !.stage = "read", !.observed = Tick]
        /\ UNCHANGED <<row, log, missing, shown>>
    BY DEF PullBegin
  <1>2. pull'.stage = "read" /\ pull'.rows = pull.rows
    BY <1>1, PullType
  <1>. QED BY <1>1, <1>2, ClaimsNoRevoke DEF Clocks

LEMMA NoPullRows ==
    /\ NoPull.stage = "idle" /\ \A i \in Instance : ~Tracked(NoPull.rows[i])
  BY DEF NoPull, Tracked

LEMMA PullReadClocks ==
    ASSUME IInv, Clocks, PullRead
    PROVE  Clocks' /\ Forgiving
  <1>1. UNCHANGED <<row, log, missing>>
    BY DEF PullRead
  <1>2. \A i \in Instance : shown'[i] = "completed" => shown[i] = "completed"
    BY DEF PullRead
  <1>3. pull'.stage # "sweep" /\ \A i \in Instance : Tracked(pull'.rows[i]) => Tracked(row[i])
    <2>1. CASE pull' = NoPull
      BY <2>1, NoPullRows
    <2>2. ASSUME NEW v, pull' = [pull EXCEPT !.stage = "list", !.view = v]
          PROVE  pull'.stage = "list" /\ pull'.rows = pull.rows
      BY <2>2, PullType
    <2>3. \/ pull' = NoPull
          \/ pull' = [pull EXCEPT !.stage = "list", !.view = container]
          \/ \E i \in Instance : pull' = [pull EXCEPT !.stage = "list",
                                                      !.view = [container EXCEPT ![i] = 0]]
      BY Zenon DEF PullRead
    <2>. QED BY <2>1, <2>2, <2>3 DEF Clocks
  <1>. QED BY <1>1, <1>2, <1>3, ClaimsNoRevoke DEF Clocks

LEMMA PullListClocks ==
    ASSUME IInv, Clocks, PullList
    PROVE  Clocks' /\ Forgiving
  <1>1. /\ pull' = [pull EXCEPT !.stage = "sweep", !.rows = row, !.todo = Instance]
        /\ UNCHANGED <<row, log, missing, shown>>
    BY DEF PullList
  <1>2. pull'.rows = row /\ pull'.todo = Instance
    BY <1>1, PullType
  <1>. QED BY <1>1, <1>2, ClaimsNoRevoke DEF Clocks

\* An instance that is listed: its clock is stopped, or was not running.
LEMMA PullOfferedClocks ==
    ASSUME IInv, Clocks, NEW i \in Instance, PullOffered(i)
    PROVE  Clocks' /\ Forgiving
  <1>. DEFINE kind == PulledKind(pull.rows[i])
              e == PulledEvent(i, kind, pull.view[i])
  <1>1. /\ pull.stage = "sweep" /\ pull' = [pull EXCEPT !.todo = @ \ {i}]
        /\ missing' = Forgiven(i) /\ UNCHANGED <<row, shown>>
        /\ UNCHANGED log \/ Apply(e)
    BY DEF PullOffered, Swept
  <1>2. /\ pull'.stage = "sweep" /\ pull'.rows = pull.rows /\ pull'.view = pull.view
        /\ pull'.todo = pull.todo \ {i}
    BY <1>1, PullType
  <1>3. /\ \A j \in Instance : missing'[j] \in {missing[j], "none"}
        /\ missing'[i] = "none"
    BY <1>1, PullType DEF Forgiven, Clocks
  <1>4. Clocks'
    BY <1>1, <1>2, <1>3 DEF Clocks
  <1>5. e.kind # "REVOKED"
    BY DEF PulledEvent, PulledKind
  <1>. HIDE DEF e
  <1>6. DOMAIN log' \subseteq DOMAIN log \cup {e}
    BY <1>1, ClaimedDomain DEF Apply
  <1>. QED BY <1>4, <1>5, <1>6, ClaimsNoRevoke

\* One that is not: the clock is started, runs on, is stopped, or has run out.
LEMMA PullAbsentClocks ==
    ASSUME IInv, Clocks, NEW i \in Instance, PullAbsent(i)
    PROVE  Clocks' /\ Forgiving
  <1>. DEFINE r == pull.rows[i]
              e == PulledEvent(i, "REVOKED", r.ident)
  <1>1. /\ pull.stage = "sweep" /\ pull' = [pull EXCEPT !.todo = @ \ {i}]
        /\ i \in pull.todo /\ pull.view[i] = 0 /\ UNCHANGED row
    BY DEF PullAbsent, Swept
  <1>2. /\ pull'.stage = "sweep" /\ pull'.rows = pull.rows /\ pull'.view = pull.view
        /\ pull'.todo = pull.todo \ {i}
    BY <1>1, PullType
  <1>3. CASE UNCHANGED <<log, shown>> /\ missing' \in {missing, [missing EXCEPT ![i] = "none"]}
    <2>1. \A j \in Instance : missing'[j] \in {missing[j], "none"} /\ (j # i => missing'[j] = missing[j])
      BY <1>3, PullType
    <2>. QED BY <1>1, <1>2, <1>3, <2>1, ClaimsNoRevoke DEF Clocks
  <1>4. CASE /\ Active(r) /\ missing' = [missing EXCEPT ![i] = "running"]
             /\ shown' = [shown EXCEPT ![i] = "no"] /\ UNCHANGED log
    <2>1. Tracked(r)
      BY <1>4 DEF Active
    <2>2. /\ \A j \in Instance \ {i} : missing'[j] = missing[j] /\ shown'[j] = shown[j]
          /\ shown'[i] = "no"
      BY <1>4, PullType
    <2>. QED BY <1>1, <1>2, <1>4, <2>1, <2>2, ClaimsNoRevoke DEF Clocks
  <1>5. CASE /\ missing[i] = "elapsed" /\ missing' = [missing EXCEPT ![i] = "none"]
             /\ Apply(e) /\ UNCHANGED shown
    <2>1. \A j \in Instance : missing'[j] = IF j = i THEN "none" ELSE missing[j]
      BY <1>5, PullType
    <2>2. Clocks'
      BY <1>1, <1>2, <1>5, <2>1 DEF Clocks
    <2>3. e.inst = i
      BY DEF PulledEvent
    <2>. HIDE DEF e
    <2>4. DOMAIN log' \subseteq DOMAIN log \cup {e}
      BY <1>5, ClaimedDomain DEF Apply
    <2>5. shown[i] # "completed"
      BY <1>5 DEF Clocks
    <2>. QED BY <2>2, <2>3, <2>4, <2>5 DEF Forgiving, PulledRevokes
  <1>. HIDE DEF e
  <1>. QED BY <1>3, <1>4, <1>5 DEF PullAbsent, e

LEMMA PullOutcomeClocks ==
    ASSUME IInv, Clocks, PullOutcome
    PROVE  Clocks' /\ Forgiving
  <1>1. UNCHANGED <<row, log, missing, shown>> /\ pull' \in {pull, NoPull}
    BY DEF PullOutcome
  <1>. QED BY <1>1, NoPullRows, ClaimsNoRevoke DEF Clocks

\* The round is complete: what it was shown has no clock running.
LEMMA PullCommitClocks ==
    ASSUME IInv, Clocks, PullCommit
    PROVE  Clocks' /\ Forgiving
  <1>1. /\ pull.stage = "sweep" /\ pull.todo = {} /\ pull' = NoPull
        /\ \A i \in Instance : shown'[i] = IF pull.view[i] # 0 THEN "completed" ELSE shown[i]
        /\ UNCHANGED <<row, log, missing>>
    BY DEF PullCommit
  <1>. QED BY <1>1, NoPullRows, ClaimsNoRevoke DEF Clocks

LEMMA NextClocks ==
    ASSUME IInv, Named, Clocks, [Next]_vars
    PROVE  Clocks' /\ Forgiving
  <1>1. RowsStayTracked
    BY NextNamed
  <1>2. ASSUME NEW x \in Executor, Handle(x) \/ Cancel(x)
        PROVE  Clocks' /\ Forgiving
    <2>1. UNCHANGED <<pull, missing, shown>>
      BY <1>2 DEF Handle, HandleAdded, Admit, Allocate, HandleUpdated, Touch, Update, StoreUpdate,
                  HandleRevoked, RequestReclaim, Reclaim, Drain, Complete, Cancel, loopVars
    <2>2. CASE Complete(x)
      <3>1. exec[x].pc \in Working /\ log' = CompleteEvent(exec[x].event, exec[x].result)
        BY <2>2 DEF Complete, Working
      <3>2. DOMAIN log' \subseteq DOMAIN log
        BY <3>1, AtWork DEF CompleteEvent, IInv, Base, Typed, Pending
      <3>. QED BY <1>1, <2>1, <3>2, ClocksStay, ClaimsNoRevoke
    <2>3. CASE UNCHANGED log
      BY <1>1, <2>1, <2>3, ClocksStay, ClaimsNoRevoke
    <2>. QED BY <1>2, <2>2, <2>3
             DEF Handle, HandleAdded, Admit, Allocate, HandleUpdated, Touch, Update, StoreUpdate,
                 HandleRevoked, RequestReclaim, Reclaim, Drain, Cancel
  <1>3. ASSUME NEW x \in Executor, NEW e \in sent, Deliver(x, e)
        PROVE  Clocks' /\ Forgiving
    <2>1. UNCHANGED <<pull, missing, shown>> /\ DOMAIN log' = DOMAIN log \cup {e}
      BY <1>3, ClaimedDomain DEF Deliver, loopVars
    <2>2. e.src # "pull"
      BY DEF Named, EventsNamed
    <2>. QED BY <1>1, <2>1, <2>2, ClocksStay, ClaimsNoRevoke
  <1>4. CASE \/ \E i \in Instance : LifecycleStep(i) \/ Partner(i)
             \/ Replay \/ UNCHANGED vars
    <2>1. UNCHANGED <<pull, missing, shown, log>>
      BY <1>4 DEF LifecycleStep, LifecycleBegin, LifecycleEnd, Partner, PartnerOffers, PartnerReplaces,
                  PartnerConfirms, PartnerWithdraws, PartnerIssues, Does, Replay, ResumePending,
                  ResumeEvent, vars, loopVars
    <2>. QED BY <1>1, <2>1, ClocksStay, ClaimsNoRevoke
  <1>5. ASSUME NEW i \in Instance, GracePasses(i)
        PROVE  Clocks' /\ Forgiving
    <2>1. /\ missing[i] = "running" /\ UNCHANGED <<row, log, pull, shown>>
          /\ \A j \in Instance : missing'[j] = IF j = i THEN "elapsed" ELSE missing[j]
      BY <1>5, PullType DEF GracePasses
    <2>. QED BY <2>1, ClaimsNoRevoke DEF Clocks
  <1>6. CASE Crash
    <2>1. /\ pull' = NoPull /\ missing' = [i \in Instance |-> "none"] /\ UNCHANGED <<row, log>>
      BY <1>6 DEF Crash, Forget
    <2>. QED BY <2>1, NoPullRows, ClaimsNoRevoke DEF Clocks
  <1>7. CASE Pull
    BY <1>7, PullBeginClocks, PullReadClocks, PullListClocks, PullOutcomeClocks, PullCommitClocks,
       PullOfferedClocks, PullAbsentClocks DEF Pull
  <1>. QED BY <1>2, <1>3, <1>4, <1>5, <1>6, <1>7 DEF Next

\* Named holds of every reachable state, whatever is pulled: nothing that is
\* tracked or offered is without a lease.
THEOREM EventsNamedAlways == Spec => []Named
  <1>. QED BY InitNamed, NextNamed, EventsInvariant, PTL DEF Spec

\* AbsenceForgiven: whatever the pushes, the replay and the lifecycle do to the rows
\* during a sweep, and however often it is cut short, no absence is answered with a
\* revoke on a clock that a completed round should have stopped.
THEOREM EventsAbsenceForgiven == Spec => AbsenceForgiven
  <1>1. Init => Clocks
    BY NoPullRows DEF Init, Clocks
  <1>2. IInv /\ Named /\ Clocks /\ [Next]_vars => Clocks' /\ [Forgiving]_vars
    BY NextClocks
  <1>3. Spec => []Clocks
    BY <1>1, <1>2, EventsInvariant, EventsNamedAlways, PTL DEF Spec
  <1>4. Spec => [][Forgiving]_vars
    BY <1>2, <1>3, EventsInvariant, EventsNamedAlways, PTL DEF Spec
  <1>. QED BY <1>4 DEF AbsenceForgiven, Forgiving
-----------------------------------------------------------------------------
(***************************************************************************)
(* Partners that only push.  Said(i, n, t): by time t the partner has said *)
(* that instance i is the container n.                                     *)
(***************************************************************************)
Said(i, n, t) == \E f \in sent : f.kind # "REVOKED" /\ f.inst = i /\ f.ident = n /\ f.at <= t

\* The partner names its containers in the order it creates them, each for one
\* instance, and a revoke comes after the container it names.
Told ==
    /\ \A e \in sent : e.at <= now /\ e.ident <= e.at
    /\ \A e \in sent : e.kind = "ADDED" => e.ident = e.at
    /\ \A e \in sent : e.kind = "REVOKED" => e.ident < e.at /\ (NamesLease => e.ident # 0)
    /\ \A e, f \in sent : e.ident # 0 /\ e.ident = f.ident => e.inst = f.inst
    /\ \A e, f \in sent : e.inst = f.inst /\ e.at <= f.at /\ f.ident # 0 => e.ident <= f.ident
    /\ \A e \in sent : container[e.inst] # 0 => e.ident <= container[e.inst]
    /\ \A i \in Instance : container[i] # 0 => Said(i, container[i], now)

\* A row holds what was said, by the time it shows, and nothing is queued for a row
\* that is given up.
Sound(i, r) ==
    /\ r.pr \/ r.inst = "RELEASED" => r.pu = NoUpdate
    /\ r.inst = "RELEASING" => r.pr
    /\ Tracked(r) => Said(i, r.ident, r.seen)
    /\ HasUpdate(r) => Said(i, r.pu.ident, r.pu.at)

\* c is a copy of r since which a reclaim may have been asked for, not the reverse.
Current(c, r) == c.ident = r.ident /\ (c.pr => r.pr) /\ (r.pr \/ c.pu = r.pu)

\* No revoke of the lease that e offers is accepted or about to be.
Open(e) ==
    \A r \in DOMAIN log :
        r.kind = "REVOKED" /\ r.ident = e.ident =>
            /\ log[r] # "APPLIED"
            /\ \A z \in Executor :
                  exec[z].event = r => \/ exec[z].pc = "apply"
                                       \/ exec[z].pc = "complete" /\ exec[z].result = "REJECTED"

\* What x has found out before it writes.
Posted(x) ==
    LET self == exec[x]
        e    == self.event
        i    == e.inst
    IN  /\ self.pc = "admit" =>
              ~Active(row[i]) /\ row[i].ident # e.ident /\ row[i].seen <= e.at
        /\ self.pc \in {"allocate", "store"} => Current(self.copy, row[i]) /\ Sound(i, self.copy)
        /\ self.pc = "store" => Recordable(self.copy) /\ LatestObservation(self.copy) <= e.at
        /\ self.pc = "request" => self.copy.ident = e.ident \/ e.ident = 0

RowsSound    == \A i \in Instance : Sound(i, row[i])
OwnersPosted == \A i \in Instance : lock[i] = Owner => Current(work[i], row[i]) /\ Sound(i, work[i])
Barred       == \A x \in Executor : exec[x].pc = "admit" => Open(exec[x].event)
PushOnly     == ~Pulls /\ pull.stage = "idle" /\ DOMAIN log \subseteq sent

OInv == /\ PushOnly /\ Told /\ RowsSound /\ OwnersPosted /\ Barred
        /\ \A x \in Executor : Posted(x)

\* What the two properties say of a step.
NotAdmitted  == \A i \in Instance : Active(row'[i]) /\ ~Active(row[i]) => ~Revoked(row'[i].ident)
NotTakenBack == \A i \in Instance : Wanted(row'[i]) >= Wanted(row[i])
Ordered      == NotAdmitted /\ (NamesLease => NotTakenBack)

\* The invariants of the stages before this one.
Stage == IInv /\ Named /\ OInv
-----------------------------------------------------------------------------
(***************************************************************************)
(* Rows.                                                                   *)
(***************************************************************************)
LEMMA SaidLater ==
    ASSUME IInv, NEW i, NEW n, NEW s \in Nat, NEW t \in Nat, Said(i, n, s), s <= t
    PROVE  Said(i, n, t)
  <1>1. \A f \in sent : f.at \in Nat
    BY EventParts DEF IInv, Base, Typed
  <1>. QED BY <1>1 DEF Said

LEMMA SaidStays ==
    ASSUME NEW i, NEW n, NEW t, Said(i, n, t), sent \subseteq sent'
    PROVE  Said(i, n, t)'
  BY DEF Said

\* What was said before e of the same instance is not newer than what e names.
LEMMA SaidBefore ==
    ASSUME Stage, NEW e \in sent, e.ident # 0, NEW n, NEW t \in Nat,
           Said(e.inst, n, t), t <= e.at
    PROVE  n <= e.ident
  <1>1. PICK f \in sent : f.inst = e.inst /\ f.ident = n /\ f.at <= t
    BY DEF Said
  <1>2. f.at \in Nat /\ e.at \in Nat
    BY EventParts DEF Stage, IInv, Base, Typed
  <1>. QED BY <1>1, <1>2 DEF Stage, OInv, Told

LEMMA SoundStays ==
    ASSUME NEW i, NEW r, Sound(i, r), sent \subseteq sent'
    PROVE  Sound(i, r)'
  BY SaidStays DEF Sound

LEMMA NotTrackedSound ==
    ASSUME NEW i
    PROVE  Sound(i, NotTracked)
  BY NotTrackedType DEF Sound, Tracked, HasUpdate

LEMMA WantedType ==
    ASSUME NEW r \in Row
    PROVE  Wanted(r) \in Nat /\ r.ident \in Nat
  BY DEF Wanted, Row

LEMMA SoundWanted ==
    ASSUME NEW i, NEW r, Sound(i, r), r.pr \/ r.inst = "RELEASED"
    PROVE  Wanted(r) = r.ident
  BY DEF Sound, Wanted, HasUpdate

LEMMA CurrentSelf ==
    ASSUME NEW r
    PROVE  Current(r, r)
  BY DEF Current

\* Somebody else writes: a reclaim may be asked for, an observation recorded; a row
\* that nobody uses is left alone.
Gentle(r, s) == Alike(r, s) /\ (~Active(r) => s = r)

LEMMA GentleSelf ==
    ASSUME NEW r
    PROVE  Gentle(r, r)
  BY AlikeSelf DEF Gentle

LEMMA CurrentStays ==
    ASSUME NEW c, NEW r, NEW s, Current(c, r), Gentle(r, s)
    PROVE  Current(c, s)
  BY DEF Current, Gentle, Alike

LEMMA LaterType ==
    ASSUME NEW m \in Nat, NEW n \in Nat
    PROVE  Later(m, n) \in Nat /\ Later(m, n) >= m /\ Later(m, n) >= n
  BY DEF Later

\* A row that is merged from sound parts.
LEMMA MergedSound ==
    ASSUME IInv, NEW i, NEW r \in Row, Sound(i, r), NEW n \in Row,
           Said(i, n.ident, n.seen), HasUpdate(n) => Said(i, n.pu.ident, n.pu.at),
           n.inst = "RELEASING" => n.pr
    PROVE  Sound(i, Merged(r, n))
  <1>. DEFINE m == Merged(r, n)
  <1>1. /\ m.inst = n.inst /\ m.ident = n.ident /\ m.pr = (UnderReclaim(r, n) \/ n.pr)
        /\ m.pu = KeptUpdate(r, n, m.pr) /\ m.seen = Later(n.seen, r.seen)
    BY MergedType
  <1>2. m.pr \/ m.inst = "RELEASED" => m.pu = NoUpdate
    BY <1>1 DEF KeptUpdate
  <1>3. m.inst = "RELEASING" => m.pr
    BY <1>1
  <1>4. Said(i, m.ident, m.seen)
    <2>1. n.seen \in Nat /\ r.seen \in Nat
      BY RowParts
    <2>. HIDE DEF m
    <2>. QED BY <1>1, <2>1, LaterType, SaidLater
  <1>5. HasUpdate(m) => Said(i, m.pu.ident, m.pu.at)
    <2>1. m.pu \in {r.pu, n.pu, NoUpdate}
      BY <1>1, KeptUpdateType
    <2>. HIDE DEF m
    <2>. QED BY <2>1 DEF Sound, HasUpdate
  <1>. HIDE DEF m
  <1>. QED BY <1>2, <1>3, <1>4, <1>5 DEF Sound, m

\* A write that asks for no identity of its own changes none.
LEMMA MergedWanted ==
    ASSUME NEW i, NEW r \in Row, Sound(i, r), NEW c \in Row, Sound(i, c), Current(c, r),
           NEW n \in Row, n.ident = c.ident, n.pu = c.pu,
           n.pr = c.pr \/ (n.inst = "RELEASED" /\ c.pr),
           n.inst = "RELEASED" => c.pr \/ c.inst = "RELEASED"
    PROVE  Wanted(Merged(r, n)) = Wanted(r)
  <1>. DEFINE m == Merged(r, n)
  <1>1. /\ m.ident = r.ident /\ m.pr = (UnderReclaim(r, n) \/ n.pr)
        /\ m.pu = KeptUpdate(r, n, m.pr)
    BY MergedType DEF Current
  <1>2. CASE r.pr \/ n.inst = "RELEASED"
    <2>1. m.pu = NoUpdate
      BY <1>1, <1>2 DEF KeptUpdate, UnderReclaim
    <2>2. r.pu = NoUpdate
      BY <1>2 DEF Sound, Current
    <2>. HIDE DEF m
    <2>. QED BY <1>1, <2>1, <2>2 DEF Wanted, HasUpdate, m
  <1>3. CASE ~r.pr /\ n.inst # "RELEASED"
    <2>1. ~n.pr /\ n.pu = r.pu
      BY <1>3 DEF Current
    <2>2. m.pr = FALSE /\ m.pu = r.pu
      BY <1>1, <1>3, <2>1 DEF UnderReclaim, KeptUpdate, Row
    <2>. HIDE DEF m
    <2>. QED BY <1>1, <2>2 DEF Wanted, HasUpdate, m
  <1>. QED BY <1>2, <1>3

\* A released row stays released under a merge.
LEMMA MergedStaysDown ==
    ASSUME NEW r \in Row, Tracked(r), ~Active(r), NEW n \in Row, Accepts(r, n)
    PROVE  ~Active(Merged(r, n))
  <1>1. r.inst = "RELEASED" /\ Merged(r, n).inst = n.inst
    BY MergedType DEF Active
  <1>2. n.inst = "RELEASED"
    BY <1>1 DEF Accepts, ValidateTransition, CanTransitionInstance, instanceTransitions
  <1>. QED BY <1>1, <1>2 DEF Active
-----------------------------------------------------------------------------
(***************************************************************************)
(* What a step of a does to rows, and to the places of the others.         *)
(***************************************************************************)
RowsTurn(a) == /\ \A j \in Instance : lock[j] = a \/ Gentle(row[j], row'[j])
               /\ RowsSound' /\ Ordered

LEMMA RowsRest ==
    ASSUME Stage, UNCHANGED row, sent \subseteq sent', NEW a
    PROVE  RowsTurn(a)
  <1>1. RowsSound'
    BY SoundStays DEF Stage, OInv, RowsSound
  <1>2. NotTakenBack
    BY WantedType DEF NotTakenBack, Stage, IInv, Base, Typed
  <1>. QED BY <1>1, <1>2, GentleSelf DEF RowsTurn, Ordered, NotAdmitted

LEMMA PutTurns ==
    ASSUME Stage, UNCHANGED sent, NEW a, NEW i \in Instance, NEW r \in Row, Put(i, r),
           Sound(i, r), lock[i] = a \/ Gentle(row[i], r),
           Active(r) /\ ~Active(row[i]) => ~Revoked(r.ident),
           NamesLease => Wanted(r) >= Wanted(row[i])
    PROVE  RowsTurn(a)
  <1>1. \A j \in Instance : row'[j] = IF j = i THEN r ELSE row[j]
    BY DEF Put, Stage, IInv, Base, Typed
  <1>2. RowsSound'
    BY <1>1, SoundStays DEF Stage, OInv, RowsSound
  <1>3. NamesLease => NotTakenBack
    BY <1>1, WantedType DEF NotTakenBack, Stage, IInv, Base, Typed
  <1>4. NotAdmitted
    BY <1>1 DEF NotAdmitted
  <1>. QED BY <1>1, <1>2, <1>3, <1>4, GentleSelf DEF RowsTurn, Ordered

LEMMA OthersPosted ==
    ASSUME Stage, NEW a \in Executor \cup {Owner}, RowsTurn(a), sent \subseteq sent',
           NEW y \in Executor \ {a}, exec'[y] = exec[y]
    PROVE  Posted(y)'
  <1>. DEFINE self == exec[y]
              i == self.event.inst
  <1>1. Posted(y)
    BY DEF Stage, OInv
  <1>. SUFFICES ASSUME self.pc \in {"admit", "allocate", "store", "request"} PROVE Posted(y)'
    BY DEF Posted
  <1>2. self.pc \in Working
    BY DEF Working
  <1>3. i \in Instance
    BY <1>2, AtWork DEF Stage, IInv
  <1>4. CASE self.pc = "request"
    BY <1>1, <1>4 DEF Posted
  <1>5. CASE self.pc \in {"admit", "allocate", "store"}
    <2>1. lock[i] = y
      BY <1>5 DEF Stage, IInv, Places, Placed, Locking, Admitting
    <2>2. Gentle(row[i], row'[i])
      BY <1>3, <2>1 DEF RowsTurn
    <2>3. self.pc = "admit" => row'[i] = row[i]
      BY <1>1, <2>2 DEF Posted, Gentle
    <2>4. self.pc \in {"allocate", "store"} =>
             Current(self.copy, row'[i]) /\ Sound(i, self.copy)'
      BY <1>1, <2>2, CurrentStays, SoundStays DEF Posted
    <2>. QED BY <1>1, <1>5, <2>3, <2>4 DEF Posted
  <1>. QED BY <1>4, <1>5

LEMMA OwnersStay ==
    ASSUME Stage, NEW a, RowsTurn(a), sent \subseteq sent',
           \A j \in Instance : lock'[j] = Owner => lock[j] = Owner /\ lock[j] # a /\ work'[j] = work[j]
    PROVE  OwnersPosted'
  <1>. SUFFICES ASSUME NEW j \in Instance, lock'[j] = Owner
                PROVE  Current(work'[j], row'[j]) /\ Sound(j, work[j])'
    BY DEF OwnersPosted
  <1>1. lock[j] = Owner /\ work'[j] = work[j] /\ Gentle(row[j], row'[j])
    BY DEF RowsTurn
  <1>2. Current(work[j], row[j]) /\ Sound(j, work[j])
    BY <1>1 DEF Stage, OInv, OwnersPosted
  <1>. QED BY <1>1, <1>2, CurrentStays, SoundStays

\* Somebody is about to admit the lease that r revokes.
Awaited(r) == \E y \in Executor : exec[y].pc = "admit" /\ exec[y].event.ident = r.ident

\* How z may be at a revoke after a step.
Answers(z) ==
    LET r == exec'[z].event IN
    r.kind = "REVOKED" =>
        \/ exec'[z].pc = "apply"
        \/ exec'[z].pc = "complete" /\ exec'[z].result = "REJECTED"
        \/ r = exec[z].event /\ exec[z].pc \notin {"apply", "complete"}
        \/ exec'[z] = exec[z]
        \/ ~Awaited(r)

\* How the log may be after a step.
Accounted ==
    \A r \in DOMAIN log' : log'[r] = "APPLIED" =>
        \/ r \in DOMAIN log /\ log[r] = "APPLIED"
        \/ \E z \in Executor : exec[z].event = r /\ exec[z].pc = "complete"
                               /\ exec[z].result # "REJECTED"

LEMMA OpenStays ==
    ASSUME Stage, \A z \in Executor : Answers(z), Accounted,
           NEW y \in Executor, exec[y].pc = "admit", NEW e, e = exec[y].event
    PROVE  Open(e)'
  <1>1. Open(e)
    BY DEF Stage, OInv, Barred
  <1>. SUFFICES ASSUME NEW r \in DOMAIN log', r.kind = "REVOKED", r.ident = e.ident
                PROVE  /\ log'[r] # "APPLIED"
                       /\ \A z \in Executor :
                             exec'[z].event = r =>
                                \/ exec'[z].pc = "apply"
                                \/ exec'[z].pc = "complete" /\ exec'[z].result = "REJECTED"
    BY DEF Open
  <1>2. \A z \in Executor : exec[z].event = r => r \in DOMAIN log
    BY NoEventIsNone DEF Stage, IInv, Base, Claimed, Pending, NoEvent
  <1>3. \A z \in Executor : exec[z].event = r =>
            \/ exec[z].pc = "apply"
            \/ exec[z].pc = "complete" /\ exec[z].result = "REJECTED"
    BY <1>1, <1>2 DEF Open
  <1>4. log'[r] # "APPLIED"
    BY <1>1, <1>3 DEF Accounted, Open
  <1>5. Awaited(r)
    BY DEF Awaited
  <1>6. ASSUME NEW z \in Executor, exec'[z].event = r
        PROVE  \/ exec'[z].pc = "apply"
               \/ exec'[z].pc = "complete" /\ exec'[z].result = "REJECTED"
    <2>1. Answers(z)
      OBVIOUS
    <2>. QED BY <1>3, <1>5, <1>6, <2>1 DEF Answers
  <1>. QED BY <1>4, <1>6

LEMMA BarredStays ==
    ASSUME Stage, \A z \in Executor : Answers(z), Accounted,
           \A y \in Executor : exec'[y].pc = "admit" =>
               exec[y].pc = "admit" /\ exec'[y].event = exec[y].event
    PROVE  Barred'
  BY OpenStays DEF Barred

(***************************************************************************)
(* A step of x, which leaves the log, the partner and the pull alone.      *)
(***************************************************************************)
LEMMA QuietStays ==
    ASSUME Stage, UNCHANGED <<partnerVars, pull>>, DOMAIN log' \subseteq sent
    PROVE  PushOnly' /\ Told'
  <1>1. UNCHANGED <<now, container, sent>>
    BY DEF partnerVars
  <1>2. Told'
    BY <1>1 DEF Stage, OInv, Told, Said
  <1>. QED BY <1>1, <1>2 DEF Stage, OInv, PushOnly

LEMMA UnansweredLog ==
    ASSUME UNCHANGED log
    PROVE  Accounted
  BY DEF Accounted

\* x goes on, and what it goes on with holds.
LEMMA PostKeeps ==
    ASSUME Stage, NEW x \in Executor, NEW n, Goes(x, n), UNCHANGED <<partnerVars, log, loopVars>>,
           Lets(x) \/ (work' = work /\ \E i \in Instance : lock' = [lock EXCEPT ![i] = x]),
           RowsTurn(x), Posted(x)',
           n.event.kind = "REVOKED" => \/ exec[x].pc \notin {"apply", "complete"}
                                       \/ n.pc = "complete" /\ n.result = "REJECTED"
                                       \/ ~Awaited(n.event),
           n.pc = "admit" => Open(n.event)'
    PROVE  OInv' /\ Ordered
  <1>1. UNCHANGED <<now, container, sent, pull>> /\ x # Owner /\ Nobody # Owner
    BY EventsAssumption DEF partnerVars, loopVars
  <1>2. /\ \A y \in Executor : exec'[y] = IF y = x THEN n ELSE exec[y]
        /\ n.event \in {exec[x].event, NoEvent} /\ (n.event = NoEvent <=> n.pc \in Resting)
    BY DEF Goes, Stage, IInv, Base, Typed
  <1>3. PushOnly' /\ Told'
    BY <1>1, QuietStays DEF Stage, OInv, PushOnly
  <1>4. \A y \in Executor : Posted(y)'
    BY <1>1, <1>2, OthersPosted
  <1>5. \A j \in Instance : lock'[j] = Owner => lock[j] = Owner /\ lock[j] # x /\ work'[j] = work[j]
    BY <1>1 DEF Lets, Stage, IInv, Base, Typed
  <1>6. OwnersPosted'
    BY <1>1, <1>5, OwnersStay
  <1>7. \A z \in Executor : Answers(z)
    <2>1. NoEvent.kind # "REVOKED"
      BY DEF NoEvent
    <2>. QED BY <1>2, <2>1 DEF Answers
  <1>8. Barred'
    <2>1. \A y \in Executor : exec'[y].pc = "admit" => exec'[y].event = exec[y].event
      BY <1>2 DEF Resting
    <2>2. \A y \in Executor \ {x} : exec'[y].pc = "admit" => Open(exec[y].event)'
      BY <1>2, <1>7, UnansweredLog, OpenStays
    <2>3. exec'[x].pc = "admit" => Open(exec[x].event)'
      BY <1>2
    <2>. QED BY <2>1, <2>2, <2>3 DEF Barred
  <1>. QED BY <1>3, <1>4, <1>6, <1>8 DEF OInv, RowsTurn

\* x is done, decides, or goes on to where nothing need be known.
LEMMA LeaveKeeps ==
    ASSUME Stage, NEW x \in Executor, exec[x].pc \in Working,
           UNCHANGED <<partnerVars, log, loopVars>>, UNCHANGED lockVars \/ Release(x),
           RowsTurn(x),
           \/ Defer(x)
           \/ \E v \in Verdict : /\ Decide(x, v)
                                 /\ \/ v = "REJECTED" \/ exec[x].pc # "apply"
                                    \/ exec[x].event.kind # "REVOKED"
                                    \/ ~Awaited(exec[x].event)
           \/ \E p \in {"touch", "update", "reclaim", "drain"}, c \in Row :
                 /\ Names(c) /\ Goto(x, p, c)
                 /\ exec[x].pc # "apply" \/ exec[x].event.kind # "REVOKED",
           exec[x].pc # "complete"
    PROVE  OInv' /\ Ordered
  <1>1. Lets(x)
    BY LetsGo DEF Stage, IInv, Base
  <1>2. ASSUME NEW n, n.pc \notin {"admit", "allocate", "store", "request"}, exec'[x] = n
        PROVE  Posted(x)'
    BY <1>2 DEF Posted
  <1>3. CASE Defer(x)
    <2>1. "PENDING" \in Result /\ Finish(x, "PENDING")
      BY <1>3 DEF Defer, Result
    <2>2. PICK n : Goes(x, n) /\ n.pc \in Resting /\ n.event = NoEvent /\ exec'[x] = n
      BY <2>1, FinishGoes DEF Stage, IInv
    <2>3. Posted(x)'
      BY <1>2, <2>2 DEF Resting
    <2>4. n.event.kind # "REVOKED"
      BY <2>2 DEF NoEvent
    <2>. QED BY <1>1, <2>2, <2>3, <2>4, PostKeeps DEF Resting
  <1>4. ASSUME NEW v \in Verdict, Decide(x, v),
               \/ v = "REJECTED" \/ exec[x].pc # "apply" \/ exec[x].event.kind # "REVOKED"
               \/ ~Awaited(exec[x].event)
        PROVE  OInv' /\ Ordered
    <2>1. PICK n : /\ Goes(x, n) /\ n.pc = "complete" /\ n.event = exec[x].event
                   /\ n.result = v /\ exec'[x] = n
      BY <1>4, DecideGoes DEF Stage, IInv
    <2>2. Posted(x)'
      BY <1>2, <2>1
    <2>. QED BY <1>1, <1>4, <2>1, <2>2, PostKeeps
  <1>5. ASSUME NEW p \in {"touch", "update", "reclaim", "drain"}, NEW c \in Row, Names(c),
               Goto(x, p, c), exec[x].pc # "apply" \/ exec[x].event.kind # "REVOKED"
        PROVE  OInv' /\ Ordered
    <2>1. p \in Working
      BY DEF Working
    <2>2. PICK n : Goes(x, n) /\ n.pc = p /\ n.event = exec[x].event /\ exec'[x] = n
      BY <1>5, <2>1, GotoGoes DEF Stage, IInv
    <2>3. Posted(x)'
      BY <1>2, <2>2
    <2>. QED BY <1>1, <1>5, <2>2, <2>3, PostKeeps
  <1>. QED BY <1>3, <1>4, <1>5
-----------------------------------------------------------------------------
(***************************************************************************)
(* The handlers, one by one.                                               *)
(***************************************************************************)
LEMMA AtWorkPosted ==
    ASSUME Stage, NEW x \in Executor, exec[x].pc \in Working
    PROVE  /\ exec[x].event \in sent /\ exec[x].event \in Event /\ exec[x].event.inst \in Instance
           /\ exec[x].event.kind # "REVOKED" => exec[x].event.ident # 0
           /\ exec[x].event.at \in Nat /\ exec[x].event.ident \in Nat
           /\ row[exec[x].event.inst] \in Row /\ Well(row[exec[x].event.inst])
           /\ Sound(exec[x].event.inst, row[exec[x].event.inst])
           /\ Names(row[exec[x].event.inst]) /\ Names(exec[x].copy)
           /\ exec[x].copy \in Row /\ NamedPlace(exec[x]) /\ Posted(x) /\ Placed(x)
           /\ exec[x].event # NoEvent
  <1>1. exec[x].event \in sent
    BY AtWork DEF Stage, IInv, OInv, PushOnly, Pending
  <1>2. exec[x].event \in Event /\ exec[x].event.inst \in Instance
    BY AtWork DEF Stage, IInv
  <1>. QED BY <1>1, <1>2, AtWork, AtWorkNamed, EventParts
           DEF Stage, IInv, OInv, RowsSound, Places

\* x takes the lock of its instance and goes on with what it has found.
LEMMA TakesPosted ==
    ASSUME Stage, NEW x \in Executor, exec[x].pc \in Working, exec[x].pc # "complete",
           exec[x].event.kind # "REVOKED" \/ exec[x].pc # "apply",
           UNCHANGED <<partnerVars, log, loopVars, row>>, work' = work,
           NEW i \in Instance, lock' = [lock EXCEPT ![i] = x],
           NEW p \in {"admit", "allocate", "store", "drain"}, NEW c \in Row, Names(c), Goto(x, p, c),
           NEW e, e = exec[x].event, NEW r, r = row[e.inst],
           p = "admit" => /\ ~Active(r) /\ r.ident # e.ident /\ r.seen <= e.at /\ Open(e)
                          /\ e.kind = "ADDED",
           p \in {"allocate", "store"} => c = r,
           p = "store" => Recordable(c) /\ LatestObservation(c) <= e.at
    PROVE  OInv' /\ Ordered
  <1>1. p \in Working
    BY DEF Working
  <1>2. PICK n : /\ Goes(x, n) /\ n.pc = p /\ n.copy = c /\ n.event = e /\ exec'[x] = n
    BY <1>1, GotoGoes DEF Stage, IInv
  <1>3. RowsTurn(x)
    BY RowsRest DEF partnerVars
  <1>4. Sound(e.inst, r)
    BY AtWorkPosted
  <1>5. Posted(x)'
    <2>1. p \in {"allocate", "store"} => Current(c, r) /\ Sound(e.inst, c)'
      BY <1>4, CurrentSelf, SoundStays DEF partnerVars
    <2>. QED BY <1>2, <2>1 DEF Posted
  <1>6. p = "admit" => Open(e)'
    <2>. SUFFICES ASSUME p = "admit" PROVE Open(e)'
      OBVIOUS
    <2>1. \A z \in Executor : exec'[z] = IF z = x THEN n ELSE exec[z]
      BY <1>2 DEF Goes, Stage, IInv, Base, Typed
    <2>2. Open(e) /\ e.kind = "ADDED"
      OBVIOUS
    <2>. QED BY <1>2, <2>1, <2>2 DEF Open
  <1>. QED BY <1>2, <1>3, <1>5, <1>6, PostKeeps

\* An offer that no accepted or unfinished revoke follows: its lease is open.
LEMMA OffersOpen ==
    ASSUME Stage, NEW x \in Executor, exec[x].pc \in Working, exec[x].event.kind = "ADDED",
           NEW e, e = exec[x].event, ~HasRevokeAfter(e)
    PROVE  Open(e)
  <1>. SUFFICES ASSUME NEW r \in DOMAIN log, r.kind = "REVOKED", r.ident = e.ident
                PROVE  /\ log[r] # "APPLIED"
                       /\ \A z \in Executor : exec[z].event # r
    BY DEF Open
  <1>1. e \in sent /\ r \in sent /\ e.ident # 0
    BY AtWorkPosted DEF Stage, OInv, PushOnly
  <1>2. r.inst = e.inst
    BY <1>1 DEF Stage, OInv, Told
  <1>3. r.at > e.at
    <2>1. r.at \in Nat /\ e.at \in Nat /\ r.ident \in Nat
      BY <1>1, EventParts DEF Stage, IInv, Base, Typed
    <2>. QED BY <1>1, <2>1 DEF Stage, OInv, Told
  <1>4. log[r] \notin {"APPLIED", "PENDING"}
    BY <1>2, <1>3 DEF HasRevokeAfter
  <1>5. r # NoEvent
    BY NoEventIsNone DEF Stage, IInv, Base, Typed
  <1>. QED BY <1>4, <1>5 DEF Stage, IInv, Base, Claimed, Pending

LEMMA HandleAddedPosted ==
    ASSUME Stage, NEW x \in Executor, HandleAdded(x)
    PROVE  OInv' /\ Ordered
  <1>. DEFINE e == exec[x].event
              i == e.inst
              r == row[i]
              refused == HasRevokeAfter(e) \/ AddRejected(e, r)
              settled == AddSettled(e, r)
              taken == ~Active(r) /\ Taken(i, e.ident)
  <1>1. /\ exec[x].pc = "apply" /\ exec[x].pc \in Working /\ e.kind = "ADDED"
        /\ UNCHANGED <<partnerVars, row, log, loopVars, faults>>
    BY DEF HandleAdded, Handles, Working
  <1>2. RowsTurn(x)
    BY <1>1, RowsRest DEF partnerVars
  <1>3. CASE (Defer(x) \/ \E v \in Verdict : Decide(x, v)) /\ UNCHANGED lockVars
    BY <1>1, <1>2, <1>3, LeaveKeeps
  <1>4. CASE /\ ~refused /\ ~settled /\ Acquire(x, i)
             /\ Goto(x, IF Active(r) THEN "allocate" ELSE "admit", r)
    <2>1. work' = work /\ lock' = [lock EXCEPT ![i] = x]
      BY <1>4 DEF Acquire
    <2>2. r \in Row /\ Names(r) /\ i \in Instance /\ e.ident # 0 /\ e.at \in Nat
      BY <1>1, AtWorkPosted
    <2>3. CASE Active(r)
      BY <1>1, <1>4, <2>1, <2>2, <2>3, TakesPosted
    <2>4. CASE ~Active(r)
      <3>1. Goto(x, "admit", r)
        BY <1>4, <2>4
      <3>2. r.ident # e.ident /\ r.seen <= e.at
        <4>1. CASE Tracked(r)
          <5>1. ~(e.at < r.seen) /\ e.ident # r.ident
            BY <1>4, <2>4, <4>1 DEF AddRejected, AddSettled
          <5>. QED BY <2>2, <5>1, RowParts
        <4>2. CASE ~Tracked(r)
          <5>1. r.ident = 0 /\ r.seen = 0
            BY <4>2 DEF Tracked, NotTracked, FreshRow
          <5>. QED BY <2>2, <5>1
        <4>. QED BY <4>1, <4>2
      <3>3. Open(e)
        BY <1>1, <1>4, OffersOpen
      <3>. QED BY <1>1, <2>1, <2>2, <2>4, <3>1, <3>2, <3>3, TakesPosted
    <2>. QED BY <2>3, <2>4
  <1>5. \/ Defer(x) /\ UNCHANGED lockVars
        \/ /\ Decide(x, IF refused \/ ~settled THEN "REJECTED" ELSE "APPLIED")
           /\ UNCHANGED lockVars
        \/ /\ ~refused /\ ~settled /\ Acquire(x, i)
           /\ Goto(x, IF Active(r) THEN "allocate" ELSE "admit", r)
    BY DEF HandleAdded
  <1>. HIDE DEF refused, settled, taken
  <1>6. (IF refused \/ ~settled THEN "REJECTED" ELSE "APPLIED") \in Verdict
    BY DEF Verdict
  <1>. QED BY <1>3, <1>4, <1>5, <1>6

LEMMA AdmitPosted ==
    ASSUME Stage, NEW x \in Executor, Admit(x)
    PROVE  OInv' /\ Ordered
  <1>1. PICK e, i, r : e = exec[x].event /\ i = e.inst /\ r = row[i]
    OBVIOUS
  <1>. DEFINE new == [FreshRow(e.ident) EXCEPT !.seen = e.at]
  <1>2. /\ exec[x].pc = "admit" /\ exec[x].pc \in Working
        /\ UNCHANGED <<partnerVars, log, loopVars, faults>>
    BY DEF Admit, Working
  <1>3. /\ e \in sent /\ e \in Event /\ i \in Instance /\ e.kind = "ADDED"
        /\ e.at \in Nat /\ e.ident \in Nat /\ e.ident # 0
        /\ r \in Row /\ Well(r) /\ Sound(i, r) /\ Names(r)
        /\ ~Active(r) /\ r.ident # e.ident /\ r.seen <= e.at /\ lock[i] = x
    BY <1>1, <1>2, AtWorkPosted DEF NamedPlace, Posted, Placed, Locking, Admitting
  <1>4. CASE Put(i, Reoffered(r, new)) /\ Goto(x, "allocate", new) /\ UNCHANGED lockVars
    <2>1. /\ new \in Row /\ new.ident = e.ident /\ new.pu = NoUpdate
      BY <1>1, <1>3, AdmittedRow
    <2>2. new.seen = e.at /\ new.inst = "ALLOCATING" /\ new.pr = FALSE
      BY <1>1 DEF FreshRow
    <2>. HIDE DEF new
    <2>. DEFINE m == Reoffered(r, new)
    <2>3. m \in Row /\ m.ident = e.ident /\ m.pu = NoUpdate
      BY <1>3, <2>1, ReofferIdempotent
    <2>4. m.seen = Later(new.seen, r.seen) /\ m.inst = "ALLOCATING" /\ m.pr = FALSE
      BY <2>1, <2>2, RowParts DEF Reoffered, Row
    <2>. HIDE DEF m
    <2>5. Said(i, e.ident, e.at)
      BY <1>1, <1>3 DEF Said
    <2>6. Said(i, m.ident, m.seen)
      <3>1. r.seen \in Nat
        BY <1>3, RowParts
      <3>2. m.seen = Later(e.at, r.seen) /\ m.ident = e.ident
        BY <2>2, <2>3, <2>4
      <3>3. Later(e.at, r.seen) \in Nat /\ e.at <= Later(e.at, r.seen)
        BY <1>3, <3>1, LaterType
      <3>. QED BY <1>3, <2>5, <3>2, <3>3, SaidLater DEF Stage
    <2>7. Sound(i, m) /\ Sound(i, new)
      BY <2>1, <2>2, <2>3, <2>4, <2>5, <2>6 DEF Sound, HasUpdate
    <2>8. ~Revoked(m.ident)
      <3>1. Open(e)
        BY <1>1, <1>2 DEF Stage, OInv, Barred
      <3>. QED BY <2>3, <3>1 DEF Open, Revoked
    <2>9. Wanted(m) >= Wanted(r)
      <3>1. Wanted(m) = e.ident
        BY <2>3 DEF Wanted, HasUpdate
      <3>2. CASE Tracked(r)
        <4>1. r.inst = "RELEASED"
          BY <1>3, <3>2 DEF Active
        <4>2. Wanted(r) = r.ident /\ Said(i, r.ident, r.seen) /\ r.seen \in Nat /\ r.ident \in Nat
          BY <1>3, <3>2, <4>1, SoundWanted, RowParts DEF Sound
        <4>3. r.ident <= e.ident
          BY <1>1, <1>3, <4>2, SaidBefore
        <4>. QED BY <1>3, <3>1, <4>2, <4>3
      <3>3. CASE ~Tracked(r)
        <4>1. Wanted(r) = 0
          BY <3>3, NotTrackedType DEF Tracked, Wanted, HasUpdate
        <4>. QED BY <1>3, <3>1, <4>1
      <3>. QED BY <3>2, <3>3
    <2>10. RowsTurn(x)
      <3>1. UNCHANGED sent /\ Put(i, m)
        BY <1>2, <1>4 DEF partnerVars, m
      <3>. QED BY <1>1, <1>3, <2>3, <2>7, <2>8, <2>9, <3>1, PutTurns
    <2>11. Names(new)
      <3>1. e.ident \in Known
        BY <1>1, <1>2, AtWork DEF Stage, IInv
      <3>. QED BY <2>1, <3>1 DEF Names, NoUpdate, Known
    <2>12. PICK n : /\ Goes(x, n) /\ n.pc = "allocate" /\ n.copy = new /\ n.event = e /\ exec'[x] = n
      <3>1. "allocate" \in Working
        BY DEF Working
      <3>. QED BY <1>1, <1>2, <1>4, <2>1, <2>11, <3>1, GotoGoes DEF Stage, IInv
    <2>13. Posted(x)'
      <3>1. row'[i] = m
        BY <1>3, <1>4 DEF Put, m, Stage, IInv, Base, Typed
      <3>2. Current(new, m)
        BY <2>1, <2>2, <2>3, <2>4 DEF Current
      <3>3. Sound(i, new)'
        BY <1>2, <2>7, SoundStays DEF partnerVars
      <3>. QED BY <1>1, <2>12, <3>1, <3>2, <3>3 DEF Posted
    <2>14. Lets(x)
      BY <1>4, LetsGo DEF Stage, IInv, Base
    <2>. QED BY <1>2, <1>3, <2>10, <2>12, <2>13, <2>14, PostKeeps
  <1>5. CASE Release(x) /\ Defer(x) /\ UNCHANGED row
    <2>1. RowsTurn(x)
      BY <1>2, <1>5, RowsRest DEF partnerVars
    <2>. QED BY <1>2, <1>5, <2>1, LeaveKeeps
  <1>. HIDE DEF new
  <1>. QED BY <1>1, <1>4, <1>5 DEF Admit, new

LEMMA AllocatePosted ==
    ASSUME Stage, NEW x \in Executor, Allocate(x)
    PROVE  OInv' /\ Ordered
  <1>. DEFINE c == exec[x].copy
              n == [c EXCEPT !.inst = "PREPARING"]
  <1>1. PICK i, r : i = exec[x].event.inst /\ r = row[i]
    OBVIOUS
  <1>2. /\ exec[x].pc = "allocate" /\ exec[x].pc \in Working /\ Release(x)
        /\ UNCHANGED <<partnerVars, log, loopVars>> /\ UNCHANGED sent
        /\ Defer(x) \/ Decide(x, "APPLIED")
    BY DEF Allocate, Working, partnerVars
  <1>3. /\ i \in Instance /\ r \in Row /\ Well(r) /\ Sound(i, r) /\ c \in Row /\ Real(c)
        /\ Current(c, r) /\ Sound(i, c) /\ lock[i] = x
    BY <1>1, <1>2, AtWorkPosted DEF NamedPlace, Posted, Placed, Locking, Admitting
  <1>4. ASSUME r.inst = "ALLOCATING", Accepts(r, n), Put(i, Merged(r, n))
        PROVE  RowsTurn(x)
    <2>1. /\ n \in Row /\ n.ident = c.ident /\ n.pu = c.pu /\ n.pr = c.pr /\ n.seen = c.seen
          /\ n.inst = "PREPARING"
      BY <1>3 DEF Row, InstanceState
    <2>. HIDE DEF n, c
    <2>2. Tracked(c) /\ Active(r)
      BY <1>3, <1>4, RealIsTracked DEF Real, Current, Active
    <2>3. Sound(i, Merged(r, n))
      <3>1. Said(i, n.ident, n.seen) /\ (HasUpdate(n) => Said(i, n.pu.ident, n.pu.at))
        BY <1>3, <2>1, <2>2 DEF Sound, HasUpdate
      <3>. QED BY <1>3, <2>1, <3>1, MergedSound DEF Stage
    <2>4. Merged(r, n) \in Row /\ Wanted(Merged(r, n)) >= Wanted(r)
      <3>1. Wanted(Merged(r, n)) = Wanted(r)
        BY <1>3, <2>1, MergedWanted
      <3>2. Merged(r, n) \in Row /\ Wanted(r) \in Nat
        BY <1>3, <2>1, MergedType, WantedType
      <3>. QED BY <3>1, <3>2
    <2>5. PICK m \in Row : /\ Sound(i, m) /\ Put(i, m) /\ Wanted(m) >= Wanted(row[i])
                           /\ Active(row[i])
      BY <1>1, <1>4, <2>2, <2>3, <2>4
    <2>. QED BY <1>2, <1>3, <2>5, PutTurns
  <1>5. RowsTurn(x)
    <2>1. CASE UNCHANGED row
      BY <1>2, <2>1, RowsRest
    <2>. HIDE DEF n
    <2>. QED BY <1>1, <1>4, <2>1 DEF Allocate, n
  <1>. QED BY <1>2, <1>5, LeaveKeeps DEF Verdict

LEMMA HandleUpdatedPosted ==
    ASSUME Stage, NEW x \in Executor, HandleUpdated(x)
    PROVE  OInv' /\ Ordered
  <1>1. /\ exec[x].pc = "apply" /\ exec[x].pc \in Working /\ exec[x].event.kind = "UPDATED"
        /\ UNCHANGED <<partnerVars, row, log, loopVars, lockVars>>
    BY DEF HandleUpdated, Handles, Working
  <1>2. RowsTurn(x)
    BY <1>1, RowsRest DEF partnerVars
  <1>3. row[exec[x].event.inst] \in Row /\ Names(row[exec[x].event.inst])
    BY <1>1, AtWorkPosted
  <1>4. \/ Decide(x, "REJECTED") \/ Goto(x, "touch", row[exec[x].event.inst])
        \/ Goto(x, "update", NotTracked)
    BY DEF HandleUpdated
  <1>. QED BY <1>1, <1>2, <1>3, <1>4, NotTrackedType, NamesNothing, LeaveKeeps DEF Verdict

\* An observation only makes the row newer.
LEMMA TouchPosted ==
    ASSUME Stage, NEW x \in Executor, Touch(x)
    PROVE  OInv' /\ Ordered
  <1>1. PICK e, i, r : e = exec[x].event /\ i = e.inst /\ r = row[i]
    OBVIOUS
  <1>. DEFINE s == [r EXCEPT !.seen = e.at]
  <1>2. /\ exec[x].pc = "touch" /\ exec[x].pc \in Working
        /\ UNCHANGED <<partnerVars, log, loopVars, lockVars>> /\ UNCHANGED sent
    BY DEF Touch, Working, partnerVars
  <1>3. /\ e \in sent /\ i \in Instance /\ r \in Row /\ Sound(i, r) /\ e.at \in Nat
    BY <1>1, <1>2, AtWorkPosted
  <1>4. ASSUME Recordable(r), e.at >= r.seen, Put(i, s)
        PROVE  RowsTurn(x)
    <2>1. /\ s \in Row /\ s.ident = r.ident /\ s.pu = r.pu /\ s.pr = r.pr /\ s.inst = r.inst
          /\ s.seen = e.at
      BY <1>3 DEF Row
    <2>2. Active(r) /\ Tracked(r) /\ r.seen \in Nat
      BY <1>3, <1>4, RowParts DEF Recordable, Active
    <2>. HIDE DEF s
    <2>3. Sound(i, s)
      <3>1. Said(i, s.ident, s.seen)
        BY <1>3, <1>4, <2>1, <2>2, SaidLater DEF Sound, Stage
      <3>. QED BY <1>3, <2>1, <3>1 DEF Sound, HasUpdate
    <2>4. Gentle(r, s) /\ Wanted(s) = Wanted(r) /\ Wanted(r) \in Nat
      <3>1. Wanted(s) = Wanted(r)
        BY <2>1 DEF Wanted, HasUpdate
      <3>. QED BY <1>3, <2>1, <2>2, <3>1, WantedType DEF Gentle, Alike
    <2>5. Gentle(row[i], s) /\ Wanted(s) >= Wanted(row[i]) /\ Active(row[i])
      BY <1>1, <2>2, <2>4
    <2>. QED BY <1>2, <1>3, <1>4, <2>1, <2>3, <2>5, PutTurns
  <1>. HIDE DEF s
  <1>5. RowsTurn(x)
    <2>1. CASE UNCHANGED row
      BY <1>2, <2>1, RowsRest
    <2>. QED BY <1>1, <1>4, <2>1 DEF Touch, s
  <1>6. Decide(x, "APPLIED") \/ Goto(x, "update", NotTracked)
    BY DEF Touch
  <1>. QED BY <1>2, <1>5, <1>6, NotTrackedType, NamesNothing, LeaveKeeps DEF Verdict

\* What is stored under the locks is newer than all the row shows.
LEMMA UpdatePosted ==
    ASSUME Stage, NEW x \in Executor, Update(x)
    PROVE  OInv' /\ Ordered
  <1>1. PICK e, i, r : e = exec[x].event /\ i = e.inst /\ r = row[i]
    OBVIOUS
  <1>2. /\ exec[x].pc = "update" /\ exec[x].pc \in Working
        /\ UNCHANGED <<partnerVars, row, log, loopVars>>
    BY DEF Update, Working
  <1>3. /\ i \in Instance /\ r \in Row /\ Names(r) /\ e.at \in Nat
    BY <1>1, <1>2, AtWorkPosted
  <1>4. CASE (Defer(x) \/ \E v \in Verdict : Decide(x, v)) /\ UNCHANGED lockVars
    <2>1. RowsTurn(x)
      BY <1>2, RowsRest DEF partnerVars
    <2>. QED BY <1>2, <1>4, <2>1, LeaveKeeps
  <1>5. CASE ~UpdateRejected(e, r) /\ Active(r) /\ Acquire(x, i) /\ Goto(x, "store", r)
    <2>1. LatestObservation(r) \in Nat
      BY <1>3, RowParts, LaterType DEF LatestObservation
    <2>2. Recordable(r) /\ LatestObservation(r) <= e.at
      BY <1>3, <1>5, <2>1 DEF UpdateRejected, Active
    <2>3. work' = work /\ lock' = [lock EXCEPT ![i] = x]
      BY <1>5 DEF Acquire
    <2>. QED BY <1>1, <1>2, <1>3, <1>5, <2>2, <2>3, TakesPosted
  <1>6. \/ (Defer(x) \/ \E v \in Verdict : Decide(x, v)) /\ UNCHANGED lockVars
        \/ /\ ~UpdateRejected(exec[x].event, row[exec[x].event.inst])
           /\ Active(row[exec[x].event.inst])
           /\ Acquire(x, exec[x].event.inst) /\ Goto(x, "store", row[exec[x].event.inst])
    BY Zenon DEF Update, Verdict
  <1>. QED BY <1>1, <1>4, <1>5, <1>6

\* The row an update leaves asks for nothing older than before.
LEMMA StoredRow ==
    ASSUME Stage, NEW e \in sent, e.kind # "REVOKED", e.ident # 0,
           NEW r \in Row, Sound(e.inst, r), NEW c \in Row, Sound(e.inst, c), Real(c), Current(c, r),
           Recordable(c), LatestObservation(c) <= e.at,
           NEW n, n = Queued(c, e) \/ n = Replaced(c, e), Accepts(r, n)
    PROVE  /\ Merged(r, n) \in Row /\ Sound(e.inst, Merged(r, n))
           /\ Wanted(Merged(r, n)) >= Wanted(r)
           /\ Active(Merged(r, n)) => Active(r)
  <1>1. e \in Event /\ e.at \in Nat /\ e.ident \in Nat
    BY EventParts DEF Stage, IInv, Base, Typed
  <1>2. n \in Row /\ n.pr = c.pr
    BY <1>1, WantedRow
  <1>3. c.pr = FALSE /\ c.inst \notin {"RELEASING", "RELEASED"} /\ Tracked(c)
    BY RowParts DEF Recordable, Active
  <1>4. n.inst \notin {"RELEASING", "RELEASED"}
    BY <1>1, <1>3, WantedRow
  <1>5. c.seen <= e.at /\ c.pu.at <= e.at /\ c.seen \in Nat /\ c.pu.at \in Nat
        /\ c.ident \in Nat /\ c.pu.ident \in Nat
    BY <1>1, RowParts DEF LatestObservation, Later
  <1>6. Said(e.inst, e.ident, e.at)
    BY <1>1 DEF Said
  <1>7. c.ident <= e.ident /\ (HasUpdate(c) => c.pu.ident <= e.ident)
    BY <1>3, <1>5, SaidBefore DEF Sound
  <1>. DEFINE m == Merged(r, n)
  <1>8. m \in Row /\ Sound(e.inst, m)
    <2>1. Said(e.inst, n.ident, n.seen) /\ (HasUpdate(n) => Said(e.inst, n.pu.ident, n.pu.at))
      <3>1. CASE n = Queued(c, e)
        BY <1>1, <1>3, <1>6, <3>1, WantedRow DEF Sound
      <3>2. CASE n = Replaced(c, e)
        BY <1>1, <1>6, <3>2, WantedRow DEF HasUpdate
      <3>. QED BY <3>1, <3>2
    <2>. QED BY <1>2, <1>4, <2>1, MergedSound, MergedType DEF Stage
  <1>9. m.ident = n.ident /\ m.pr = (UnderReclaim(r, n) \/ n.pr) /\ m.pu = KeptUpdate(r, n, m.pr)
    BY <1>2, MergedType
  <1>. HIDE DEF m
  <1>10. Wanted(m) >= Wanted(r)
    <2>1. CASE r.pr
      <3>1. UnderReclaim(r, n)
        BY <1>4, <2>1 DEF UnderReclaim
      <3>2. m.pu = NoUpdate /\ m.ident = r.ident
        BY <1>9, <3>1 DEF KeptUpdate, Accepts
      <3>3. Wanted(m) = r.ident /\ Wanted(r) = r.ident /\ r.ident \in Nat
        BY <2>1, <3>2, SoundWanted, WantedType DEF Wanted, HasUpdate
      <3>. QED BY <3>3
    <2>2. CASE ~r.pr
      <3>1. c.pu = r.pu /\ c.ident = r.ident
        BY <2>2 DEF Current
      <3>2. m.pu = KeptUpdate(r, n, FALSE)
        BY <1>2, <1>3, <1>9, <2>2 DEF UnderReclaim
      <3>3. Wanted(r) <= e.ident /\ Wanted(r) \in Nat
        BY <1>7, <3>1, WantedType DEF Wanted, HasUpdate
      <3>4. CASE n = Queued(c, e)
        <4>1. n.pu.ident = e.ident /\ n.pu.at = e.at
          BY <1>1, <3>4, WantedRow
        <4>2. HasUpdate(n)
          BY <4>1 DEF HasUpdate, NoUpdate
        <4>3. ~(n.pu.at < r.pu.at)
          BY <1>1, <1>5, <3>1, <4>1
        <4>4. m.pu = n.pu
          BY <1>4, <3>2, <4>2, <4>3 DEF KeptUpdate
        <4>5. Wanted(m) = e.ident
          BY <4>1, <4>2, <4>4 DEF Wanted, HasUpdate
        <4>. QED BY <1>1, <3>3, <4>5
      <3>5. CASE n = Replaced(c, e)
        <4>1. n.pu = NoUpdate /\ n.ident = e.ident
          BY <1>1, <3>5, WantedRow
        <4>2. m.pu = r.pu
          BY <1>4, <3>2, <4>1 DEF KeptUpdate, HasUpdate
        <4>. QED BY <1>1, <1>9, <3>3, <4>1, <4>2 DEF Wanted, HasUpdate
      <3>. QED BY <3>4, <3>5
    <2>. QED BY <2>1, <2>2
  <1>11. Active(m) => Active(r)
    <2>1. Tracked(r)
      BY RealIsTracked DEF Real, Current
    <2>. QED BY <1>2, <2>1, MergedStaysDown DEF m
  <1>. QED BY <1>8, <1>10, <1>11 DEF m

LEMMA StoreUpdatePosted ==
    ASSUME Stage, NEW x \in Executor, StoreUpdate(x)
    PROVE  OInv' /\ Ordered
  <1>1. PICK e, i, r, c : e = exec[x].event /\ i = e.inst /\ r = row[i] /\ c = exec[x].copy
    OBVIOUS
  <1>. DEFINE queue == HasService(c) /\ (HasUpdate(c) \/ e.ident # Wanted(c))
              next == IF queue THEN Queued(c, e) ELSE Replaced(c, e)
  <1>2. PICK n : n = next
    OBVIOUS
  <1>3. n = Queued(c, e) \/ n = Replaced(c, e)
    BY <1>2
  <1>4. /\ exec[x].pc = "store" /\ exec[x].pc \in Working
        /\ UNCHANGED <<partnerVars, log, loopVars>> /\ UNCHANGED sent
    BY DEF StoreUpdate, Working, partnerVars
  <1>5. /\ e \in sent /\ i \in Instance /\ e.ident # 0 /\ e.kind = "UPDATED"
        /\ r \in Row /\ Sound(i, r) /\ c \in Row /\ Real(c) /\ Sound(i, c) /\ Current(c, r)
        /\ Recordable(c) /\ LatestObservation(c) <= e.at /\ lock[i] = x
    BY <1>1, <1>4, AtWorkPosted DEF NamedPlace, Posted, Placed, Locking, Admitting
  <1>6. /\ UNCHANGED row \/ (Accepts(r, next) /\ Put(i, Merged(r, next)))
        /\ \/ Goto(x, "drain", NotTracked) /\ UNCHANGED lockVars
           \/ Release(x) /\ (Decide(x, "APPLIED") \/ Defer(x))
    BY <1>1, Zenon DEF StoreUpdate
  <1>. HIDE DEF next
  <1>7. RowsTurn(x)
    <2>1. CASE UNCHANGED row
      BY <1>4, <2>1, RowsRest
    <2>2. CASE Accepts(r, n) /\ Put(i, Merged(r, n))
      <3>1. /\ Merged(r, n) \in Row /\ Sound(i, Merged(r, n)) /\ Wanted(Merged(r, n)) >= Wanted(r)
            /\ Active(Merged(r, n)) => Active(r)
        BY <1>1, <1>3, <1>5, <2>2, StoredRow
      <3>. QED BY <1>1, <1>4, <1>5, <2>2, <3>1, PutTurns
    <2>. QED BY <1>2, <1>6, <2>1, <2>2
  <1>. QED BY <1>4, <1>6, <1>7, NotTrackedType, NamesNothing, LeaveKeeps DEF Verdict
-----------------------------------------------------------------------------
(***************************************************************************)
(* Revokes.                                                                *)
(***************************************************************************)

\* Whoever is about to admit the lease that e revokes holds its instance, whose row
\* does not show the lease.
LEMMA AwaitedHolds ==
    ASSUME Stage, NEW x \in Executor, exec[x].pc \in Working, exec[x].event.kind = "REVOKED",
           NEW e, e = exec[x].event, Awaited(e)
    PROVE  ~Free(e.inst) /\ ~Active(row[e.inst]) /\ OtherLease(e, row[e.inst])
  <1>1. PICK y \in Executor : exec[y].pc = "admit" /\ exec[y].event.ident = e.ident
    BY DEF Awaited
  <1>2. PICK f : f = exec[y].event
    OBVIOUS
  <1>3. exec[y].pc \in Working
    BY <1>1 DEF Working
  <1>4. /\ f \in sent /\ e \in sent /\ f.ident # 0 /\ f.ident = e.ident
        /\ lock[f.inst] = y /\ ~Active(row[f.inst]) /\ row[f.inst].ident # f.ident
    BY <1>1, <1>2, <1>3, AtWorkPosted DEF NamedPlace, Posted, Placed, Locking, Admitting
  <1>5. f.inst = e.inst
    BY <1>4 DEF Stage, OInv, Told
  <1>6. y # Nobody
    BY EventsAssumption
  <1>. QED BY <1>4, <1>5, <1>6 DEF Free, OtherLease

LEMMA HandleRevokedPosted ==
    ASSUME Stage, NEW x \in Executor, HandleRevoked(x)
    PROVE  OInv' /\ Ordered
  <1>1. PICK e, i, r : e = exec[x].event /\ i = e.inst /\ r = row[i]
    OBVIOUS
  <1>2. /\ exec[x].pc = "apply" /\ exec[x].pc \in Working /\ e.kind = "REVOKED"
        /\ UNCHANGED <<partnerVars, row, log, loopVars, lockVars>>
    BY <1>1 DEF HandleRevoked, Handles, Working
  <1>3. /\ i \in Instance /\ r \in Row /\ Names(r) /\ e.at \in Nat /\ e.ident \in Nat
    BY <1>1, <1>2, AtWorkPosted
  <1>4. RowsTurn(x)
    BY <1>2, RowsRest DEF partnerVars
  <1>5. Awaited(e) => ~Free(i) /\ ~Active(r) /\ OtherLease(e, r)
    BY <1>1, <1>2, AwaitedHolds
  <1>6. CASE Defer(x) \/ Decide(x, "REJECTED")
    BY <1>2, <1>4, <1>6, LeaveKeeps DEF Verdict
  <1>7. CASE Decide(x, "APPLIED") /\ (Tracked(r) => ~RevokeRejected(e, r)) /\ (~Tracked(r) => Free(i))
    <2>1. ~Awaited(e)
      BY <1>5, <1>7 DEF RevokeRejected
    <2>. QED BY <1>1, <1>2, <1>4, <1>7, <2>1, LeaveKeeps DEF Verdict
  <1>8. CASE Goto(x, "request", r) /\ Active(r) /\ Tracked(r) /\ ~RevokeRejected(e, r)
    <2>1. "request" \in Working
      BY DEF Working
    <2>2. PICK n : /\ Goes(x, n) /\ n.pc = "request" /\ n.copy = r /\ n.event = e /\ exec'[x] = n
      BY <1>1, <1>2, <1>3, <1>8, <2>1, GotoGoes DEF Stage, IInv
    <2>3. r.ident = e.ident \/ e.ident = 0
      BY <1>8 DEF RevokeRejected, OtherLease
    <2>4. Posted(x)'
      BY <2>2, <2>3 DEF Posted
    <2>5. Lets(x)
      BY <1>2, LetsGo DEF Stage, IInv, Base
    <2>6. ~Awaited(e)
      BY <1>5, <1>8
    <2>. QED BY <1>2, <1>4, <2>2, <2>4, <2>5, <2>6, PostKeeps
  <1>. QED BY <1>1, <1>6, <1>7, <1>8 DEF HandleRevoked

\* The row that is asked back waits for nothing newer than the lease it has.
LEMMA RequestReclaimPosted ==
    ASSUME Stage, NEW x \in Executor, RequestReclaim(x)
    PROVE  OInv' /\ Ordered
  <1>1. PICK e, i, r, c : e = exec[x].event /\ i = e.inst /\ r = row[i] /\ c = exec[x].copy
    OBVIOUS
  <1>2. /\ exec[x].pc = "request" /\ exec[x].pc \in Working
        /\ UNCHANGED <<partnerVars, log, loopVars, lockVars>> /\ UNCHANGED sent
    BY DEF RequestReclaim, Working, partnerVars
  <1>3. /\ e \in sent /\ e \in Event /\ i \in Instance /\ r \in Row /\ Sound(i, r)
        /\ c \in Row /\ Real(c) /\ Names(c) /\ e.kind = "REVOKED"
        /\ c.ident = e.ident \/ e.ident = 0
    BY <1>1, <1>2, AtWorkPosted DEF NamedPlace, Posted
  <1>4. ASSUME r.ident = c.ident, r.pu.at <= e.at, Put(i, RequestRelease(r))
        PROVE  RowsTurn(x)
    <2>. DEFINE m == RequestRelease(r)
    <2>1. /\ m \in Row /\ m.inst = r.inst /\ m.ident = r.ident /\ m.seen = r.seen
          /\ (r.pr \/ r.inst = "RELEASED" => m = r) /\ Alike(r, m)
      BY <1>3, RequestType, RequestIdents
    <2>2. ~(r.pr \/ r.inst = "RELEASED") => m.pr = TRUE /\ m.pu = NoUpdate
      BY <1>3 DEF RequestRelease, Row
    <2>3. Put(i, m)
      BY <1>4
    <2>. HIDE DEF m
    <2>4. Tracked(r) /\ r.ident # 0
      BY <1>3, <1>4, RealIsTracked DEF Real
    <2>5. Sound(i, m)
      <3>1. CASE m = r
        BY <1>3, <3>1
      <3>2. CASE ~(r.pr \/ r.inst = "RELEASED")
        BY <1>3, <2>1, <2>2, <2>4, <3>2 DEF Sound, HasUpdate
      <3>. QED BY <2>1, <3>1, <3>2
    <2>6. Gentle(r, m) /\ (Active(m) => Active(r))
      BY <2>1, <2>4 DEF Gentle, Active
    <2>7. NamesLease => Wanted(m) >= Wanted(r)
      <3>. SUFFICES ASSUME NamesLease PROVE Wanted(m) >= Wanted(r)
        OBVIOUS
      <3>1. Wanted(r) \in Nat /\ r.ident \in Nat /\ r.pu.at \in Nat
        BY <1>3, WantedType, RowParts
      <3>2. CASE m = r
        BY <3>1, <3>2
      <3>3. CASE m # r
        <4>1. Wanted(m) = r.ident
          BY <2>1, <2>2, <3>3 DEF Wanted, HasUpdate
        <4>2. e.ident # 0
          BY <1>3 DEF Stage, OInv, Told
        <4>3. e.ident = r.ident
          BY <1>3, <1>4, <4>2
        <4>4. HasUpdate(r) => r.pu.ident <= r.ident
          BY <1>1, <1>3, <1>4, <3>1, <4>2, <4>3, SaidBefore DEF Sound
        <4>. QED BY <3>1, <4>1, <4>4 DEF Wanted
      <3>. QED BY <3>2, <3>3
    <2>8. Gentle(row[i], m) /\ (Active(m) => Active(row[i])) /\ (NamesLease => Wanted(m) >= Wanted(row[i]))
      BY <1>1, <2>6, <2>7
    <2>. QED BY <1>2, <1>3, <2>1, <2>3, <2>5, <2>8, PutTurns
  <1>5. RowsTurn(x)
    <2>1. CASE UNCHANGED row
      BY <1>2, <2>1, RowsRest
    <2>. QED BY <1>1, <1>4, <2>1 DEF RequestReclaim
  <1>6. Goto(x, "reclaim", c) \/ Defer(x)
    BY <1>1 DEF RequestReclaim
  <1>. QED BY <1>2, <1>3, <1>5, <1>6, LeaveKeeps

LEMMA ReclaimPosted ==
    ASSUME Stage, NEW x \in Executor, Reclaim(x)
    PROVE  OInv' /\ Ordered
  <1>1. PICK e, i, r : e = exec[x].event /\ i = e.inst /\ r = row[e.inst]
    OBVIOUS
  <1>2. /\ exec[x].pc = "reclaim" /\ exec[x].pc \in Working /\ i \in Instance
        /\ UNCHANGED <<partnerVars, log, loopVars, row>>
    BY <1>1, AtWorkPosted DEF Reclaim, Working
  <1>3. CASE UNCHANGED lockVars /\ Decide(x, "APPLIED")
    <2>1. RowsTurn(x)
      BY <1>2, RowsRest DEF partnerVars
    <2>. QED BY <1>2, <1>3, <2>1, LeaveKeeps DEF Verdict
  <1>4. CASE lock' = [lock EXCEPT ![i] = x] /\ UNCHANGED work /\ Goto(x, "drain", NotTracked)
    BY <1>1, <1>2, <1>4, NotTrackedType, NamesNothing, TakesPosted
  <1>. QED BY <1>1, <1>3, <1>4 DEF Reclaim
-----------------------------------------------------------------------------
(***************************************************************************)
(* What a lifecycle operation writes.                                      *)
(***************************************************************************)
LEMMA MovesAreModest ==
    ASSUME NEW c \in Row, NEW i, Sound(i, c), NEW n \in LifecycleMoves(c),
           ~(c.svc = "DRAINING" /\ HasUpdate(c) /\ ~c.pr)
    PROVE  /\ n \in Row /\ n.ident = c.ident /\ n.pu = c.pu /\ n.seen = c.seen
           /\ n.pr = c.pr \/ (n.inst = "RELEASED" /\ c.pr)
           /\ n.inst = "RELEASED" => c.pr \/ c.inst = "RELEASED"
           /\ n.inst = "RELEASING" => n.pr
  <1>1. n \in Row /\ n.ident = c.ident /\ n.pu = c.pu
    BY LifecycleMovesType
  <1>2. /\ n.seen = c.seen
        /\ \/ n.pr = c.pr /\ n.inst \in {c.inst, "IDLE"}
           \/ n.pr = c.pr /\ c.pr /\ n.inst = "RELEASING"
           \/ n.inst = "RELEASED" /\ c.inst = "RELEASING"
    <2>1. CASE n \in DrainMoves(c)
      <3>1. \/ n = [c EXCEPT !.svc = "DRAINING"]
            \/ n = [c EXCEPT !.inst = "RELEASING"] /\ c.pr
        BY <2>1 DEF DrainMoves
      <3>. QED BY <3>1 DEF Row
    <2>2. CASE n \in DrainedMoves(c)
      <3>1. n = [c EXCEPT !.svc = "NONE", !.role = NoRole]
        BY <2>2, Zenon DEF DrainedMoves
      <3>. QED BY <3>1 DEF Row
    <2>3. CASE n \in StartMoves(c)
      <3>1. \/ n = [c EXCEPT !.inst = "IDLE"]
            \/ \E role \in Role : n = [c EXCEPT !.svc = "STARTING", !.role = role]
        BY <2>3 DEF StartMoves
      <3>. QED BY <3>1 DEF Row
    <2>4. CASE n \in ReleasedMoves(c)
      <3>1. n = [c EXCEPT !.inst = "RELEASED", !.pr = FALSE] /\ c.inst = "RELEASING"
        BY <2>4 DEF ReleasedMoves
      <3>. QED BY <3>1 DEF Row
    <2>. QED BY <2>1, <2>2, <2>3, <2>4 DEF LifecycleMoves
  <1>. QED BY <1>1, <1>2 DEF Sound

\* Whatever it does, the row wants what it wanted, and is not up again.
LEMMA WrittenRow ==
    ASSUME IInv, NEW i, NEW r \in Row, Sound(i, r), Well(r), NEW c \in Row, Sound(i, c), Well(c),
           Current(c, r), NEW n \in LifecycleMoves(c)
    PROVE  /\ Written(r, c, n) \in Row /\ Sound(i, Written(r, c, n))
           /\ Wanted(Written(r, c, n)) >= Wanted(r)
           /\ Active(Written(r, c, n)) => Active(r)
  <1>1. Tracked(c)
    <2>1. LifecycleMoves(NotTracked) = {}
      BY DEF LifecycleMoves, DrainMoves, DrainedMoves, StartMoves, ReleasedMoves, NotTracked, FreshRow,
             LiveService, HasUpdate, HasService, NoUpdate
    <2>. QED BY <2>1 DEF Tracked
  <1>2. Tracked(r)
    BY <1>1, RealIsTracked DEF Well, Current
  <1>3. n \in Row /\ Wanted(r) \in Nat
    BY LifecycleMovesType, WantedType
  <1>. DEFINE w == Written(r, c, n)
              takes == c.svc = "DRAINING" /\ HasUpdate(c) /\ ~c.pr
  <1>4. CASE w = r
    BY <1>3, <1>4
  <1>5. CASE takes /\ AcceptsUpdate(r, n) /\ w = Updated(r, n)
    <2>1. w \in Row /\ w.ident = r.pu.ident /\ w.pu = NoUpdate
      BY <1>3, <1>5, UpdateIdempotent
    <2>2. /\ w.seen = Later(r.pu.at, r.seen) /\ w.inst = "PREPARING"
          /\ HasUpdate(r) /\ ~r.pr /\ r.inst # "RELEASED"
      <3>1. n.inst = "PREPARING" /\ HasUpdate(r) /\ ~r.pr /\ r.inst # "RELEASED"
        BY <1>5 DEF AcceptsUpdate, ValidateTransition, CanTransitionInstance, instanceTransitions
      <3>2. Updated(r, n).seen = Later(r.pu.at, r.seen) /\ Updated(r, n).inst = n.inst
        BY <1>3 DEF Updated, Row
      <3>. QED BY <1>5, <3>1, <3>2
    <2>. HIDE DEF w
    <2>3. r.pu.at \in Nat /\ r.seen \in Nat
      BY RowParts
    <2>4. Said(i, w.ident, w.seen)
      <3>1. Said(i, r.pu.ident, r.pu.at)
        BY <2>2 DEF Sound
      <3>2. Later(r.pu.at, r.seen) \in Nat /\ r.pu.at <= Later(r.pu.at, r.seen)
        BY <2>3, LaterType
      <3>3. Said(i, r.pu.ident, Later(r.pu.at, r.seen))
        BY <2>3, <3>1, <3>2, SaidLater
      <3>. QED BY <2>1, <2>2, <3>3
    <2>5. Sound(i, w)
      BY <2>1, <2>2, <2>4 DEF Sound, HasUpdate
    <2>6. Wanted(w) = Wanted(r)
      BY <2>1, <2>2 DEF Wanted, HasUpdate
    <2>. QED BY <1>2, <1>3, <2>1, <2>2, <2>5, <2>6 DEF Active, w
  <1>6. CASE ~takes /\ Accepts(r, n) /\ w = Merged(r, n)
    <2>1. /\ n.ident = c.ident /\ n.pu = c.pu /\ n.seen = c.seen
          /\ n.pr = c.pr \/ (n.inst = "RELEASED" /\ c.pr)
          /\ n.inst = "RELEASED" => c.pr \/ c.inst = "RELEASED"
          /\ n.inst = "RELEASING" => n.pr
      BY <1>6, MovesAreModest
    <2>2. Said(i, n.ident, n.seen) /\ (HasUpdate(n) => Said(i, n.pu.ident, n.pu.at))
      BY <1>1, <2>1 DEF Sound, HasUpdate
    <2>3. Sound(i, Merged(r, n))
      BY <1>3, <2>1, <2>2, MergedSound
    <2>4. Wanted(Merged(r, n)) = Wanted(r)
      BY <1>3, <2>1, MergedWanted
    <2>5. Active(Merged(r, n)) => Active(r)
      BY <1>2, <1>3, <1>6, MergedStaysDown
    <2>6. Merged(r, n) \in Row
      BY <1>3, MergedType
    <2>. HIDE DEF takes
    <2>. QED BY <1>3, <1>6, <2>3, <2>4, <2>5, <2>6
  <1>. QED BY <1>4, <1>5, <1>6, Zenon DEF Written

LEMMA DrainPosted ==
    ASSUME Stage, NEW x \in Executor, Drain(x)
    PROVE  OInv' /\ Ordered
  <1>1. PICK i, r : i = exec[x].event.inst /\ r = row[i]
    OBVIOUS
  <1>2. /\ exec[x].pc = "drain" /\ exec[x].pc \in Working /\ Release(x) /\ Decide(x, "APPLIED")
        /\ UNCHANGED <<partnerVars, log, loopVars>> /\ UNCHANGED sent
    BY DEF Drain, Working, partnerVars
  <1>3. /\ i \in Instance /\ r \in Row /\ Well(r) /\ Sound(i, r) /\ lock[i] = x
    BY <1>1, <1>2, AtWorkPosted DEF Placed, Locking
  <1>4. ASSUME NEW n \in DrainMoves(r), Put(i, Written(r, r, n))
        PROVE  RowsTurn(x)
    <2>1. n \in LifecycleMoves(r) /\ Current(r, r)
      BY CurrentSelf DEF LifecycleMoves
    <2>2. PICK w : w = Written(r, r, n)
      OBVIOUS
    <2>3. w \in Row /\ Sound(i, w) /\ Wanted(w) >= Wanted(row[i]) /\ (Active(w) => Active(row[i]))
      BY <1>1, <1>3, <2>1, <2>2, WrittenRow DEF Stage
    <2>. QED BY <1>2, <1>3, <1>4, <2>2, <2>3, PutTurns
  <1>5. RowsTurn(x)
    <2>1. CASE UNCHANGED row
      BY <1>2, <2>1, RowsRest
    <2>. QED BY <1>1, <1>4, <2>1 DEF Drain
  <1>. QED BY <1>2, <1>5, LeaveKeeps DEF Verdict
-----------------------------------------------------------------------------
(***************************************************************************)
(* Steps that write no row.                                                *)
(***************************************************************************)
LEMMA AroundPosted ==
    ASSUME Stage, UNCHANGED row, sent \subseteq sent', PushOnly', Told', OwnersPosted', Accounted,
           \A z \in Executor : \/ exec'[z] = exec[z] \/ exec'[z].pc = "apply"
                               \/ exec'[z].pc \in Resting /\ exec'[z].event = NoEvent
    PROVE  OInv' /\ Ordered
  <1>1. RowsTurn(Owner)
    BY RowsRest
  <1>2. \A y \in Executor : Posted(y)'
    <2>. SUFFICES ASSUME NEW y \in Executor PROVE Posted(y)'
      OBVIOUS
    <2>1. CASE exec'[y] = exec[y]
      <3>1. y # Owner
        BY EventsAssumption
      <3>. QED BY <1>1, <2>1, <3>1, OthersPosted
    <2>2. CASE exec'[y].pc \in Resting \cup {"apply"}
      BY <2>2 DEF Posted, Resting
    <2>. QED BY <2>1, <2>2
  <1>3. \A z \in Executor : Answers(z)
    <2>1. NoEvent.kind # "REVOKED"
      BY DEF NoEvent
    <2>. QED BY <2>1 DEF Answers
  <1>4. \A y \in Executor : exec'[y].pc = "admit" =>
            exec[y].pc = "admit" /\ exec'[y].event = exec[y].event
    BY DEF Resting
  <1>5. Barred'
    BY <1>3, <1>4, BarredStays
  <1>. QED BY <1>1, <1>2, <1>5 DEF OInv, RowsTurn

LEMMA OwnersRest ==
    ASSUME Stage, UNCHANGED row, sent \subseteq sent',
           \A j \in Instance : lock'[j] = Owner => lock[j] = Owner /\ work'[j] = work[j]
    PROVE  OwnersPosted'
  <1>1. RowsTurn(Nobody) /\ Nobody # Owner
    BY RowsRest, EventsAssumption
  <1>. QED BY <1>1, OwnersStay

\* The same for a step that the partner takes no part in.
LEMMA AsidePosted ==
    ASSUME Stage, UNCHANGED <<partnerVars, row>>, pull'.stage = "idle",
           DOMAIN log' \subseteq sent, Accounted,
           \A j \in Instance : lock'[j] = Owner => lock[j] = Owner /\ work'[j] = work[j],
           \A z \in Executor : \/ exec'[z] = exec[z] \/ exec'[z].pc = "apply"
                               \/ exec'[z].pc \in Resting /\ exec'[z].event = NoEvent
    PROVE  OInv' /\ Ordered
  <1>1. UNCHANGED <<now, container, sent>>
    BY DEF partnerVars
  <1>2. PushOnly'
    BY <1>1 DEF Stage, OInv, PushOnly
  <1>3. Told'
    BY <1>1 DEF Stage, OInv, Told, Said
  <1>. QED BY <1>1, <1>2, <1>3, OwnersRest, AroundPosted

LEMMA CompletePosted ==
    ASSUME Stage, NEW x \in Executor, Complete(x)
    PROVE  OInv' /\ Ordered
  <1>1. PICK e, v : e = exec[x].event /\ v = exec[x].result
    OBVIOUS
  <1>2. /\ exec[x].pc = "complete" /\ exec[x].pc \in Working
        /\ log' = CompleteEvent(e, v) /\ Finish(x, v)
        /\ UNCHANGED <<partnerVars, row, lockVars, loopVars>>
    BY <1>1 DEF Complete, Working
  <1>3. e \in sent /\ e \in DOMAIN log /\ e.src = "push" /\ v \in Result
    <2>1. e \in Pending /\ exec[x] \in Handler
      BY <1>1, <1>2, AtWork DEF Stage, IInv
    <2>2. e \in sent
      BY <1>1, <1>2, AtWorkPosted
    <2>. QED BY <1>1, <2>1, <2>2 DEF Pending, Handler, Stage, Named, EventsNamed
  <1>4. log' = [log EXCEPT ![e] = v]
    BY <1>2, <1>3 DEF CompleteEvent
  <1>5. DOMAIN log' = DOMAIN log /\ \A r \in DOMAIN log : log'[r] = IF r = e THEN v ELSE log[r]
    BY <1>3, <1>4
  <1>6. Accounted
    BY <1>1, <1>2, <1>5 DEF Accounted
  <1>7. PICK n : Goes(x, n) /\ n.pc \in Resting /\ n.event = NoEvent /\ exec'[x] = n
    BY <1>2, <1>3, FinishGoes DEF Stage, IInv
  <1>8. \A z \in Executor : exec'[z] = IF z = x THEN n ELSE exec[z]
    BY <1>7 DEF Goes, Stage, IInv, Base, Typed
  <1>9. UNCHANGED <<lock, work, pull>> /\ pull.stage = "idle" /\ DOMAIN log' \subseteq sent
    BY <1>2, <1>5 DEF lockVars, loopVars, Stage, OInv, PushOnly
  <1>. QED BY <1>2, <1>6, <1>7, <1>8, <1>9, AsidePosted

LEMMA CancelPosted ==
    ASSUME Stage, NEW x \in Executor, Cancel(x)
    PROVE  OInv' /\ Ordered
  <1>1. /\ Release(x) /\ Finish(x, "PENDING") /\ "PENDING" \in Result
        /\ UNCHANGED <<partnerVars, row, log, pull>>
    BY DEF Cancel, Defer, Result, loopVars
  <1>2. PICK n : Goes(x, n) /\ n.pc \in Resting /\ n.event = NoEvent /\ exec'[x] = n
    BY <1>1, FinishGoes DEF Stage, IInv
  <1>3. \A z \in Executor : exec'[z] = IF z = x THEN n ELSE exec[z]
    BY <1>2 DEF Goes, Stage, IInv, Base, Typed
  <1>4. \A j \in Instance : lock'[j] = Owner => lock[j] = Owner /\ work'[j] = work[j]
    BY <1>1, EventsAssumption DEF Release
  <1>5. pull'.stage = "idle" /\ DOMAIN log' \subseteq sent /\ Accounted
    BY <1>1, UnansweredLog DEF Stage, OInv, PushOnly
  <1>. QED BY <1>1, <1>2, <1>3, <1>4, <1>5, AsidePosted

LEMMA DeliverPosted ==
    ASSUME Stage, NEW x \in Executor, NEW e \in sent, Deliver(x, e)
    PROVE  OInv' /\ Ordered
  <1>1. /\ log' = ClaimEvent(e) /\ Begin(x, e)
        /\ UNCHANGED <<partnerVars, row, lockVars, loopVars>>
    BY DEF Deliver
  <1>2. \A z \in Executor : exec'[z] = exec[z] \/ exec'[z].pc = "apply"
    BY <1>1 DEF Begin, Idle, Stage, IInv, Base, Typed
  <1>3. DOMAIN log' \subseteq sent /\ Accounted
    <2>1. /\ DOMAIN log' = DOMAIN log \cup {e}
          /\ \A r \in DOMAIN log' : log'[r] = IF r \in DOMAIN log THEN log[r] ELSE "PENDING"
      BY <1>1 DEF ClaimEvent
    <2>. QED BY <2>1 DEF Accounted, Stage, OInv, PushOnly
  <1>4. UNCHANGED <<lock, work>> /\ pull'.stage = "idle"
    BY <1>1 DEF lockVars, loopVars, Stage, OInv, PushOnly
  <1>. QED BY <1>1, <1>2, <1>3, <1>4, AsidePosted

LEMMA ReplayPosted ==
    ASSUME Stage, Replay
    PROVE  OInv' /\ Ordered
  <1>1. UNCHANGED <<partnerVars, row, log, lockVars, pull>>
    BY DEF Replay, ResumePending, ResumeEvent
  <1>2. \A z \in Executor : exec'[z] = exec[z] \/ exec'[z].pc = "apply"
    <2>1. UNCHANGED exec \/ \E e : Begin(Reconciler, e)
      BY Zenon DEF Replay, ResumePending, ResumeEvent
    <2>2. ASSUME NEW e, Begin(Reconciler, e)
          PROVE  \A z \in Executor : exec'[z] = exec[z] \/ exec'[z].pc = "apply"
      BY <2>2 DEF Begin, Idle, Stage, IInv, Base, Typed
    <2>. QED BY <2>1, <2>2
  <1>3. UNCHANGED <<lock, work>> /\ pull'.stage = "idle" /\ DOMAIN log' \subseteq sent /\ Accounted
    BY <1>1, UnansweredLog DEF lockVars, Stage, OInv, PushOnly
  <1>. QED BY <1>1, <1>2, <1>3, AsidePosted

\* Of the pull loop there is nothing but an outcome to look at.
LEMMA PullPosted ==
    ASSUME Stage, Pull
    PROVE  OInv' /\ Ordered
  <1>1. ~Pulls /\ pull.stage = "idle" /\ NoPull.stage = "idle"
    BY DEF Stage, OInv, PushOnly, NoPull
  <1>2. PullOutcome
    BY <1>1 DEF Pull, PullBegin, PullRead, PullList, PullCommit, PullOffered, PullAbsent
  <1>3. /\ exec' = [exec EXCEPT ![Puller] = Idle] /\ pull' \in {pull, NoPull}
        /\ UNCHANGED <<partnerVars, row, log, lockVars>>
    BY <1>2 DEF PullOutcome
  <1>4. \A z \in Executor : exec'[z] = exec[z] \/ (exec'[z].pc \in Resting /\ exec'[z].event = NoEvent)
    BY <1>3, IdleType DEF Resting, Stage, IInv, Base, Typed
  <1>5. UNCHANGED <<lock, work>> /\ pull'.stage = "idle" /\ DOMAIN log' \subseteq sent /\ Accounted
    BY <1>1, <1>3, UnansweredLog DEF lockVars, Stage, OInv, PushOnly
  <1>. QED BY <1>3, <1>4, <1>5, AsidePosted

LEMMA CrashPosted ==
    ASSUME Stage, Crash
    PROVE  OInv' /\ Ordered
  <1>1. /\ UNCHANGED <<partnerVars, row, log>> /\ pull' = NoPull
        /\ exec' = [x \in Executor |-> Idle] /\ lock' = [i \in Instance |-> Nobody]
    BY DEF Crash, Forget
  <1>2. \A z \in Executor : exec'[z].pc \in Resting /\ exec'[z].event = NoEvent
    BY <1>1, IdleType DEF Resting
  <1>3. /\ pull'.stage = "idle" /\ DOMAIN log' \subseteq sent /\ Accounted
        /\ \A j \in Instance : lock'[j] # Owner
    BY <1>1, EventsAssumption, UnansweredLog DEF NoPull, Stage, OInv, PushOnly
  <1>. QED BY <1>1, <1>2, <1>3, AsidePosted

LEMMA RestPosted ==
    ASSUME Stage, UNCHANGED vars \/ \E i \in Instance : GracePasses(i)
    PROVE  OInv' /\ Ordered
  <1>1. UNCHANGED <<partnerVars, row, log, lockVars, exec, pull>>
    BY DEF vars, loopVars, GracePasses, partnerVars, lockVars
  <1>2. UNCHANGED <<lock, work>> /\ pull'.stage = "idle" /\ DOMAIN log' \subseteq sent /\ Accounted
    BY <1>1, UnansweredLog DEF lockVars, Stage, OInv, PushOnly
  <1>. QED BY <1>1, <1>2, AsidePosted
-----------------------------------------------------------------------------
(***************************************************************************)
(* The lifecycle.                                                          *)
(***************************************************************************)
LEMMA LifecycleBeginPosted ==
    ASSUME Stage, NEW i \in Instance, LifecycleBegin(i)
    PROVE  OInv' /\ Ordered
  <1>1. /\ UNCHANGED <<partnerVars, row, log, exec, pull>>
        /\ \A j \in Instance : j # i => lock'[j] = lock[j] /\ work'[j] = work[j]
        /\ work'[i] = row[i]
    BY DEF LifecycleBegin, loopVars, Stage, IInv, Base, Typed
  <1>2. UNCHANGED <<now, container, sent>>
    BY <1>1 DEF partnerVars
  <1>3. PushOnly' /\ Told' /\ Accounted
    BY <1>1, <1>2, QuietStays, UnansweredLog DEF Stage, OInv, PushOnly
  <1>4. OwnersPosted'
    <2>. SUFFICES ASSUME NEW j \in Instance, lock'[j] = Owner
                  PROVE  Current(work'[j], row[j]) /\ Sound(j, work[j])'
      BY <1>1 DEF OwnersPosted
    <2>1. CASE j = i
      <3>1. Current(row[i], row[i]) /\ Sound(i, row[i])
        BY CurrentSelf DEF Stage, OInv, RowsSound
      <3>. QED BY <1>1, <1>2, <2>1, <3>1 DEF Sound, Said
    <2>2. CASE j # i
      <3>1. Current(work[j], row[j]) /\ Sound(j, work[j])
        BY <1>1, <2>2 DEF Stage, OInv, OwnersPosted
      <3>. QED BY <1>1, <1>2, <2>2, <3>1 DEF Sound, Said
    <2>. QED BY <2>1, <2>2
  <1>. QED BY <1>1, <1>2, <1>3, <1>4, AroundPosted

LEMMA LifecycleEndPosted ==
    ASSUME Stage, NEW i \in Instance, LifecycleEnd(i)
    PROVE  OInv' /\ Ordered
  <1>1. /\ lock[i] = Owner /\ lock' = [lock EXCEPT ![i] = Nobody]
        /\ work' = [work EXCEPT ![i] = NotTracked]
        /\ UNCHANGED <<now, sent, log, exec, pull>>
    BY DEF LifecycleEnd, loopVars
  <1>2. PICK r, c : r = row[i] /\ c = work[i]
    OBVIOUS
  <1>3. PICK next \in LifecycleMoves(c) :
            /\ Put(i, Written(r, c, next))
            /\ container' \in {container, [container EXCEPT ![i] = 0]}
    BY <1>2 DEF LifecycleEnd
  <1>4. /\ r \in Row /\ Sound(i, r) /\ Well(r) /\ c \in Row /\ Sound(i, c) /\ Well(c) /\ Current(c, r)
    BY <1>1, <1>2 DEF Stage, IInv, Base, Typed, Named, RowsNamed, OwnersNamed, Real, OInv, RowsSound,
                      OwnersPosted
  <1>5. PICK w : w = Written(r, c, next)
    OBVIOUS
  <1>6. w \in Row /\ Sound(i, w) /\ Wanted(w) >= Wanted(row[i]) /\ (Active(w) => Active(row[i]))
    BY <1>2, <1>4, <1>5, WrittenRow DEF Stage
  <1>7. RowsTurn(Owner)
    BY <1>1, <1>3, <1>5, <1>6, PutTurns
  <1>8. PushOnly'
    BY <1>1 DEF Stage, OInv, PushOnly
  <1>9. Told'
    <2>1. \A j \in Instance : container'[j] \in {container[j], 0}
      BY <1>3 DEF Stage, IInv, Base, Typed
    <2>2. \A e \in sent : e.inst \in Instance
      BY EventParts DEF Stage, IInv, Base, Typed
    <2>. QED BY <1>1, <2>1, <2>2 DEF Stage, OInv, Told, Said
  <1>10. \A y \in Executor : Posted(y)'
    <2>1. Owner \notin Executor
      BY EventsAssumption
    <2>. QED BY <1>1, <1>7, <2>1, OthersPosted
  <1>11. OwnersPosted'
    <2>. SUFFICES ASSUME NEW j \in Instance, lock'[j] = Owner
                  PROVE  Current(work'[j], row'[j]) /\ Sound(j, work[j])'
      BY DEF OwnersPosted
    <2>1. j # i /\ lock[j] = Owner /\ work'[j] = work[j] /\ row'[j] = row[j]
      BY <1>1, <1>3, EventsAssumption DEF Put, Stage, IInv, Base, Typed
    <2>2. Current(work[j], row[j]) /\ Sound(j, work[j])
      BY <2>1 DEF Stage, OInv, OwnersPosted
    <2>. QED BY <1>1, <2>1, <2>2 DEF Sound, Said
  <1>12. Barred'
    <2>1. \A z \in Executor : Answers(z)
      BY <1>1 DEF Answers
    <2>. QED BY <1>1, <2>1, UnansweredLog, BarredStays
  <1>. QED BY <1>7, <1>8, <1>9, <1>10, <1>11, <1>12 DEF OInv, RowsTurn
-----------------------------------------------------------------------------
(***************************************************************************)
(* The partner.                                                            *)
(***************************************************************************)

\* One more thing is said, of the newest container of i.
LEMMA PartnerTells ==
    ASSUME Stage, now' = now + 1, now \in Nat, NEW i \in Instance, NEW kind, NEW ident,
           Says(i, kind, ident), NEW held, container' = [container EXCEPT ![i] = held],
           \/ ident = now + 1 /\ held = ident /\ kind # "REVOKED"
           \/ ident = container[i] /\ ident # 0 /\ held = ident /\ kind = "UPDATED"
           \/ ident = container[i] /\ ident # 0 /\ held = 0 /\ kind = "REVOKED"
           \/ ident = 0 /\ held = 0 /\ kind = "REVOKED" /\ ~NamesLease
    PROVE  Told'
  <1>1. PICK t : t = now + 1
    OBVIOUS
  <1>2. PICK e : /\ e.at = t /\ e.inst = i /\ e.kind = kind /\ e.ident = ident /\ e.src = "push"
                 /\ sent' = sent \cup {e}
    BY <1>1 DEF Says
  <1>3. \A f \in sent : f.at \in Nat /\ f.ident \in Nat /\ f.inst \in Instance /\ f.at <= now
                        /\ f.ident <= f.at
    BY EventParts DEF Stage, IInv, Base, Typed, OInv, Told
  <1>4. \A j \in Instance : container'[j] = IF j = i THEN held ELSE container[j]
    BY DEF Stage, IInv, Base, Typed
  <1>5. \A j \in Instance : container[j] # 0 =>
            \E f \in sent : f.kind # "REVOKED" /\ f.inst = j /\ f.ident = container[j]
    BY DEF Stage, OInv, Told, Said
  <1>6. ident \in Nat /\ ident <= t /\ t \in Nat /\ t > now
    BY <1>1, <1>3, <1>5
  <1>7. \A f \in sent' : f.at <= now' /\ f.ident <= f.at
    BY <1>1, <1>2, <1>3, <1>6
  <1>8. \A f \in sent' : f.kind = "ADDED" => f.ident = f.at
    BY <1>1, <1>2 DEF Stage, OInv, Told
  <1>9. \A f \in sent' : f.kind = "REVOKED" => f.ident < f.at /\ (NamesLease => f.ident # 0)
    <2>1. kind = "REVOKED" => ident < t /\ (NamesLease => ident # 0)
      BY <1>1, <1>3, <1>5
    <2>. QED BY <1>2, <2>1 DEF Stage, OInv, Told
  <1>10. \A f, g \in sent' : f.ident # 0 /\ f.ident = g.ident => f.inst = g.inst
    <2>1. \A f \in sent : f.ident # 0 /\ f.ident = ident => f.inst = i
      <3>1. CASE ident = now + 1
        BY <1>3, <3>1
      <3>2. CASE ident = container[i] /\ ident # 0
        BY <1>5, <3>2 DEF Stage, OInv, Told
      <3>. QED BY <3>1, <3>2
    <2>. QED BY <1>2, <2>1 DEF Stage, OInv, Told
  <1>11. \A f \in sent : f.inst = i /\ ident # 0 => f.ident <= ident
    BY <1>3 DEF Stage, OInv, Told
  <1>12. \A f, g \in sent' : f.inst = g.inst /\ f.at <= g.at /\ g.ident # 0 => f.ident <= g.ident
    <2>1. \A f \in sent : ~(t <= f.at)
      BY <1>3, <1>6
    <2>. QED BY <1>2, <1>6, <1>11, <2>1 DEF Stage, OInv, Told
  <1>13. \A f \in sent' : container'[f.inst] # 0 => f.ident <= container'[f.inst]
    <2>1. ASSUME NEW f \in sent, container'[f.inst] # 0
          PROVE  f.ident <= container'[f.inst]
      <3>1. CASE f.inst = i
        BY <1>4, <1>11, <2>1, <3>1
      <3>2. CASE f.inst # i
        BY <1>3, <1>4, <2>1, <3>2 DEF Stage, OInv, Told
      <3>. QED BY <3>1, <3>2
    <2>2. container'[i] # 0 => ident <= container'[i]
      BY <1>4, <1>6
    <2>. QED BY <1>2, <2>1, <2>2
  <1>14. \A j \in Instance : container'[j] # 0 => Said(j, container[j], now)'
    <2>. SUFFICES ASSUME NEW j \in Instance, container'[j] # 0
                  PROVE  \E f \in sent' : /\ f.kind # "REVOKED" /\ f.inst = j
                                          /\ f.ident = container'[j] /\ f.at <= now'
      BY DEF Said
    <2>1. CASE j = i
      BY <1>1, <1>2, <1>4, <1>6, <2>1
    <2>2. CASE j # i
      <3>1. PICK f \in sent : f.kind # "REVOKED" /\ f.inst = j /\ f.ident = container[j]
        BY <1>4, <1>5, <2>2
      <3>. QED BY <1>2, <1>3, <1>4, <2>2, <3>1
    <2>. QED BY <2>1, <2>2
  <1>. QED BY <1>7, <1>8, <1>9, <1>10, <1>12, <1>13, <1>14 DEF Told

LEMMA PartnerPosted ==
    ASSUME Stage, NEW i \in Instance, Partner(i)
    PROVE  OInv' /\ Ordered
  <1>1. /\ UNCHANGED <<row, log, lockVars, exec, loopVars>> /\ now' = now + 1 /\ now \in Nat
    BY EventsAssumption DEF Partner, PartnerOffers, PartnerReplaces, PartnerConfirms, PartnerWithdraws,
           PartnerIssues, Does, Stage, IInv, Base, Typed, Time
  <1>2. PICK t, held : t = now + 1 /\ held = container[i]
    OBVIOUS
  <1>3. \E kind, ident, h :
           /\ Says(i, kind, ident) /\ container' = [container EXCEPT ![i] = h]
           /\ \/ ident = now + 1 /\ h = ident /\ kind # "REVOKED"
              \/ ident = container[i] /\ ident # 0 /\ h = ident /\ kind = "UPDATED"
              \/ ident = container[i] /\ ident # 0 /\ h = 0 /\ kind = "REVOKED"
              \/ ident = 0 /\ h = 0 /\ kind = "REVOKED" /\ ~NamesLease
    <2>1. CASE PartnerOffers(i) \/ PartnerReplaces(i)
      <3>1. \E kind \in {"ADDED", "UPDATED"} :
               Says(i, kind, t) /\ container' = [container EXCEPT ![i] = t]
        BY <1>1, <1>2, <2>1 DEF PartnerOffers, PartnerReplaces, PartnerIssues
      <3>. QED BY <1>2, <3>1
    <2>2. CASE PartnerConfirms(i)
      <3>1. Says(i, "UPDATED", held) /\ held # 0 /\ container' = container
        BY <1>2, <2>2 DEF PartnerConfirms
      <3>2. container' = [container EXCEPT ![i] = held]
        BY <1>2, <3>1 DEF Stage, IInv, Base, Typed
      <3>. QED BY <1>2, <3>1, <3>2
    <2>3. CASE PartnerWithdraws(i)
      <3>1. /\ Says(i, "REVOKED", IF NamesLease THEN held ELSE 0) /\ held # 0
            /\ container' = [container EXCEPT ![i] = 0]
        BY <1>2, <2>3 DEF PartnerWithdraws
      <3>2. \E ident : /\ Says(i, "REVOKED", ident)
                       /\ \/ ident = container[i] /\ ident # 0
                          \/ ident = 0 /\ ~NamesLease
        BY <1>2, <3>1
      <3>. QED BY <3>1, <3>2
    <2>. QED BY <2>1, <2>2, <2>3 DEF Partner
  <1>4. Told'
    BY <1>1, <1>3, PartnerTells
  <1>5. sent \subseteq sent'
    BY <1>3 DEF Says
  <1>6. UNCHANGED <<lock, work, pull>>
    BY <1>1 DEF lockVars, loopVars
  <1>7. PushOnly'
    BY <1>1, <1>5, <1>6 DEF Stage, OInv, PushOnly
  <1>8. OwnersPosted' /\ Accounted
    BY <1>1, <1>5, <1>6, OwnersRest, UnansweredLog
  <1>. QED BY <1>1, <1>4, <1>5, <1>7, <1>8, AroundPosted
-----------------------------------------------------------------------------
LEMMA InitPosted ==
    ASSUME ~Pulls, Init
    PROVE  OInv
  <1>1. PushOnly /\ Told
    BY DEF Init, PushOnly, Told, NoPull
  <1>2. RowsSound
    BY NotTrackedSound DEF Init, RowsSound
  <1>3. OwnersPosted
    BY EventsAssumption DEF Init, OwnersPosted
  <1>4. \A x \in Executor : exec[x].pc = "idle"
    BY IdleType DEF Init
  <1>5. Barred /\ \A x \in Executor : Posted(x)
    BY <1>4 DEF Barred, Posted
  <1>. QED BY <1>1, <1>2, <1>3, <1>5 DEF OInv

LEMMA NextPosted ==
    ASSUME Stage, [Next]_vars
    PROVE  OInv' /\ Ordered
  <1>1. ASSUME NEW x \in Executor, Handle(x)
        PROVE  OInv' /\ Ordered
    BY <1>1, HandleAddedPosted, AdmitPosted, AllocatePosted, HandleUpdatedPosted, TouchPosted, UpdatePosted,
       StoreUpdatePosted, HandleRevokedPosted, RequestReclaimPosted, ReclaimPosted, DrainPosted,
       CompletePosted DEF Handle
  <1>2. ASSUME NEW x \in Executor, Cancel(x) \/ \E e \in sent : Deliver(x, e)
        PROVE  OInv' /\ Ordered
    BY <1>2, CancelPosted, DeliverPosted
  <1>3. ASSUME NEW i \in Instance, LifecycleStep(i) \/ Partner(i)
        PROVE  OInv' /\ Ordered
    BY <1>3, LifecycleBeginPosted, LifecycleEndPosted, PartnerPosted DEF LifecycleStep
  <1>. QED BY <1>1, <1>2, <1>3, RestPosted, ReplayPosted, PullPosted, CrashPosted DEF Next

\* OInv holds of every reachable state while partners only push.  A pull stamps what
\* it sees with the time before it looked, so that an event may name a container that
\* is younger than itself, and Told does not hold.
THEOREM EventsPosted == ~Pulls => (Spec => []OInv)
  <1>. SUFFICES ASSUME ~Pulls PROVE Spec => []OInv
    OBVIOUS
  <1>1. Init => OInv
    BY InitPosted
  <1>2. IInv /\ Named /\ OInv /\ [Next]_vars => OInv'
    BY NextPosted DEF Stage
  <1>. QED BY <1>1, <1>2, EventsInvariant, EventsNamedAlways, PTL DEF Spec

\* RevokedNotAdmitted: however late an offer arrives and whoever replays it, a lease
\* whose revoke was answered APPLIED is not brought in; HandleAdded looks for it in
\* the log under the lock that a revoke has to find free.
THEOREM EventsRevokedNotAdmitted == ~Pulls => (Spec => RevokedNotAdmitted)
  <1>. SUFFICES ASSUME ~Pulls PROVE Spec => RevokedNotAdmitted
    OBVIOUS
  <1>1. IInv /\ Named /\ OInv /\ [Next]_vars => [NotAdmitted]_vars
    BY NextPosted DEF Stage, Ordered
  <1>2. Spec => [][NotAdmitted]_vars
    BY <1>1, EventsPosted, EventsInvariant, EventsNamedAlways, PTL DEF Spec
  <1>. QED BY <1>2 DEF RevokedNotAdmitted, NotAdmitted

\* IdentityNotTakenBack: pushes in any order never take an instance back to a
\* container its partner has replaced, if revokes name the lease they end.
THEOREM EventsIdentityNotTakenBack ==
    ~Pulls /\ NamesLease => (Spec => IdentityNotTakenBack)
  <1>. SUFFICES ASSUME ~Pulls, NamesLease PROVE Spec => IdentityNotTakenBack
    OBVIOUS
  <1>1. IInv /\ Named /\ OInv /\ [Next]_vars => [NotTakenBack]_vars
    BY NextPosted DEF Stage, Ordered
  <1>2. Spec => [][NotTakenBack]_vars
    BY <1>1, EventsPosted, EventsInvariant, EventsNamedAlways, PTL DEF Spec
  <1>. QED BY <1>2 DEF IdentityNotTakenBack, NotTakenBack
=============================================================================
