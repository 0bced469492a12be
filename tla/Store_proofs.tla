---------------------------- MODULE Store_proofs ----------------------------
(***************************************************************************)
(* Lemmas about the operators of Store: what one transaction makes of the  *)
(* row it finds and the row it is given, for every set of roles.  The      *)
(* proofs about the instance table and about Lifecycle rest on them.       *)
(***************************************************************************)
EXTENDS Store, TLAPS

\* A row built for a new lease is a row.
LEMMA FreshRowType ==
    ASSUME NEW i \in Nat
    PROVE  FreshRow(i) \in Row
  BY DEF FreshRow, Row, InstanceState, ServiceState, AnyRole, NoWorker, NoUpdate

\* The update left pending is one of the two it was chosen from, or none.
LEMMA KeptUpdateType ==
    ASSUME NEW c \in Row, NEW n \in Row, NEW pr
    PROVE  KeptUpdate(c, n, pr) \in {c.pu, n.pu, NoUpdate}
  BY DEF KeptUpdate

\* Merging a row into a row gives a row that keeps the state, role and identity
\* the caller asked for.
LEMMA MergedType ==
    ASSUME NEW c \in Row, NEW n \in Row
    PROVE  /\ Merged(c, n) \in Row
           /\ Merged(c, n).inst = n.inst
           /\ Merged(c, n).svc = n.svc
           /\ Merged(c, n).role = n.role
           /\ Merged(c, n).ident = n.ident
           /\ Merged(c, n).pr = (UnderReclaim(c, n) \/ n.pr)
           /\ Merged(c, n).deadline = IF UnderReclaim(c, n) THEN c.deadline ELSE n.deadline
           /\ Merged(c, n).pu = KeptUpdate(c, n, UnderReclaim(c, n) \/ n.pr)
           /\ Merged(c, n).seen = Later(n.seen, c.seen)
  <1>1. KeptUpdate(c, n, UnderReclaim(c, n) \/ n.pr) \in [ident : Nat, at : Nat]
    BY KeptUpdateType DEF Row, NoUpdate
  <1>2. UnderReclaim(c, n) \in BOOLEAN
    BY DEF UnderReclaim, Row
  <1>3. Later(n.seen, c.seen) \in Nat
    BY DEF Later, Row
  <1>. QED BY <1>1, <1>2, <1>3, ZenonT(60) DEF Merged, Row

\* Merging looks at the current row and at fields it does not change, so a merged
\* row merges into itself and is accepted whenever the request was.
LEMMA MergeIdempotent ==
    ASSUME NEW c \in Row, NEW n \in Row
    PROVE  /\ Merged(c, Merged(c, n)) = Merged(c, n)
           /\ Accepts(c, n) => Accepts(c, Merged(c, n))
  <1>. DEFINE m == Merged(c, n)
              reclaim == UnderReclaim(c, n)
  <1>1. /\ m \in Row
        /\ m.inst = n.inst /\ m.svc = n.svc /\ m.role = n.role /\ m.ident = n.ident
        /\ m.pr = (reclaim \/ n.pr)
        /\ m.deadline = IF reclaim THEN c.deadline ELSE n.deadline
        /\ m.pu = KeptUpdate(c, n, reclaim \/ n.pr)
        /\ m.seen = Later(n.seen, c.seen)
    BY MergedType
  <1>2. UnderReclaim(c, m) = reclaim
    BY <1>1 DEF UnderReclaim
  <1>3. Merged(c, m) = m
    <2>1. (UnderReclaim(c, m) \/ m.pr) = m.pr
      BY <1>1, <1>2
    <2>2. KeptUpdate(c, m, m.pr) = m.pu
      <3>1. c.pu \in [ident : Nat, at : Nat] /\ n.pu \in [ident : Nat, at : Nat]
        BY DEF Row
      <3>. QED BY <1>1, <3>1 DEF KeptUpdate, HasUpdate, NoUpdate
    <2>3. Later(m.seen, c.seen) = m.seen
      BY <1>1 DEF Later, Row
    <2>4. (IF UnderReclaim(c, m) THEN c.deadline ELSE m.deadline) = m.deadline
      BY <1>1, <1>2
    <2>. HIDE DEF m
    <2>5. Merged(c, m) \in Row
      BY <1>1, MergedType
    <2>. QED BY <1>1, <2>1, <2>2, <2>3, <2>4 DEF Merged, Row
  <1>4. Accepts(c, n) => Accepts(c, m)
    <2>. HIDE DEF m
    <2>. QED BY <1>1, <1>2 DEF Accepts, ValidateTransition, CheckCombination
  <1>. QED BY <1>3, <1>4

\* So are the two special writes.
LEMMA ReofferIdempotent ==
    ASSUME NEW c \in Row, NEW n \in Row
    PROVE  /\ Reoffered(c, n) \in Row
           /\ Reoffered(c, n).ident = n.ident
           /\ Reoffered(c, n).pu = n.pu
           /\ Reoffered(c, Reoffered(c, n)) = Reoffered(c, n)
           /\ AcceptsReoffer(c, n) => AcceptsReoffer(c, Reoffered(c, n))
  <1>. DEFINE m == Reoffered(c, n)
  <1>1. Later(n.seen, c.seen) \in Nat
    BY DEF Later, Row
  <1>2. m \in Row /\ m.seen = Later(n.seen, c.seen)
    BY <1>1 DEF Reoffered, Row
  <1>3. /\ m.inst = n.inst /\ m.svc = n.svc /\ m.role = n.role
        /\ m.pr = n.pr /\ m.ident = n.ident /\ m.pu = n.pu
    BY <1>1 DEF Reoffered, Row
  <1>4. Later(m.seen, c.seen) = m.seen
    BY <1>2 DEF Later, Row
  <1>. HIDE DEF m
  <1>5. Reoffered(c, m) = m
    BY <1>2, <1>4 DEF Reoffered, Row
  <1>6. AcceptsReoffer(c, n) => AcceptsReoffer(c, m)
    BY <1>3 DEF AcceptsReoffer
  <1>. QED BY <1>2, <1>3, <1>5, <1>6 DEF m

\* A row that took its pending identity is the row that writing it again stores.
LEMMA UpdateIdempotent ==
    ASSUME NEW c \in Row, NEW n \in Row
    PROVE  /\ Updated(c, n) \in Row
           /\ Updated(c, n).ident = c.pu.ident
           /\ Updated(c, n).pu = NoUpdate
           /\ Updated(c, Updated(c, n)) = Updated(c, n)
           /\ AcceptsUpdate(c, n) => AcceptsUpdate(c, Updated(c, n))
  <1>. DEFINE m == Updated(c, n)
  <1>1. c.pu \in [ident : Nat, at : Nat] /\ Later(c.pu.at, c.seen) \in Nat
    BY DEF Later, Row
  <1>2. /\ m \in Row /\ m.ident = c.pu.ident
        /\ m.seen = Later(c.pu.at, c.seen) /\ m.pu = NoUpdate
    BY <1>1 DEF Updated, Row, NoUpdate
  <1>3. m.inst = n.inst /\ m.svc = n.svc /\ m.role = n.role
    BY <1>1 DEF Updated, Row
  <1>. HIDE DEF m
  <1>4. Updated(c, m) = m
    BY <1>2 DEF Updated, Row
  <1>5. AcceptsUpdate(c, n) => AcceptsUpdate(c, m)
    BY <1>3 DEF AcceptsUpdate, ValidateTransition, CheckCombination
  <1>. QED BY <1>2, <1>4, <1>5 DEF m

\* Requesting a reclaim sets the request and its deadline, and nothing else.
LEMMA RequestType ==
    ASSUME NEW c \in Row
    PROVE  /\ RequestRelease(c) \in Row
           /\ RequestRelease(c).inst = c.inst
           /\ RequestRelease(c).svc = c.svc
           /\ RequestRelease(c).role = c.role
           /\ RequestRelease(c).ident = c.ident
           /\ RequestRelease(c).seen = c.seen
           /\ c.pr \/ c.inst = "RELEASED" => RequestRelease(c) = c
  BY DEF RequestRelease, Row, NoUpdate

\* A merged row keeps a reclaim request with its deadline, and the later of the
\* two observations.
LEMMA MergedKeeps ==
    ASSUME NEW c \in Row, NEW n \in Row, n = Merged(c, n)
    PROVE  /\ c.pr /\ n.inst # "RELEASED" => n.pr /\ n.deadline = c.deadline
           /\ n.seen >= c.seen
  <1>1. n.pr = (UnderReclaim(c, n) \/ n.pr)
    BY MergedType
  <1>2. n.deadline = IF UnderReclaim(c, n) THEN c.deadline ELSE n.deadline
    BY MergedType
  <1>3. n.seen = Later(n.seen, c.seen)
    BY MergedType
  <1>4. n.seen >= c.seen
    BY <1>3 DEF Later, Row
  <1>. QED BY <1>1, <1>2, <1>4 DEF UnderReclaim, Row

\* Taking a pending identity takes the later observation as well.
LEMMA UpdatedKeeps ==
    ASSUME NEW c \in Row, NEW n \in Row, n = Updated(c, n)
    PROVE  n.seen >= c.seen
  <1>1. c.pu \in [ident : Nat, at : Nat]
    BY DEF Row
  <1>2. Updated(c, n).seen = Later(c.pu.at, c.seen)
    BY DEF Updated, Row
  <1>. QED BY <1>1, <1>2 DEF Later, Row
=============================================================================
