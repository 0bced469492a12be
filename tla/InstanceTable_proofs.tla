------------------------ MODULE InstanceTable_proofs ------------------------
(***************************************************************************)
(* What InstanceTable promises, proved for every set of roles and every    *)
(* sequence of writes: the typing of the stored row and the four           *)
(* properties stated in InstanceTable.                                     *)
(***************************************************************************)
EXTENDS InstanceTable, Store_proofs

\* The stored row has the types of its columns.
THEOREM TableTyped == Spec => []TypeOK
  <1>1. Init => TypeOK
    BY FreshRowType DEF Init, TypeOK
  <1>2. TypeOK /\ [Next]_row => TypeOK'
    BY RequestType DEF TypeOK, Next, Write, Request, Offer, ApplyUpdate
  <1>. QED BY <1>1, <1>2, PTL DEF Spec

\* The pair of states in the row is always one of the legal ones: every write is
\* checked, and a reclaim request leaves the pair alone.
THEOREM TableLegal == Spec => []LegalRow
  <1>1. Init => LegalRow
    BY DEF Init, LegalRow, FreshRow, CheckCombination, LiveService
  <1>2. TypeOK /\ LegalRow /\ [Next]_row => LegalRow'
    <2>. SUFFICES ASSUME TypeOK, LegalRow, [Next]_row
                  PROVE  LegalRow'
      OBVIOUS
    <2>1. CASE Write
      BY <2>1 DEF Write, Accepts, LegalRow
    <2>2. CASE Request
      BY <2>2, RequestType DEF Request, TypeOK, LegalRow, CheckCombination
    <2>3. CASE Offer
      BY <2>3 DEF Offer, AcceptsReoffer, LegalRow, CheckCombination, LiveService
    <2>4. CASE ApplyUpdate
      BY <2>4 DEF ApplyUpdate, AcceptsUpdate, LegalRow
    <2>5. CASE UNCHANGED row
      BY <2>5 DEF LegalRow
    <2>. QED BY <2>1, <2>2, <2>3, <2>4, <2>5 DEF Next
  <1>. QED BY <1>1, <1>2, TableTyped, PTL DEF Spec

\* A reclaim request survives until the row is released: merging keeps request
\* and deadline, the guard of the transaction refuses another identity and a
\* service on its way up, and the two special writes need a row without one.
THEOREM TableReclaimSticky == Spec => ReclaimSticky
  <1>. DEFINE Sticky == row.pr /\ row'.inst # "RELEASED" =>
                           /\ row'.pr
                           /\ row'.ident = row.ident
                           /\ row'.deadline = row.deadline
                           /\ row'.svc \in LiveService => row'.inst = "LOST"
  <1>1. TypeOK /\ [Next]_row => [Sticky]_row
    <2>. SUFFICES ASSUME TypeOK, Next, row' # row, row.pr, row'.inst # "RELEASED"
                  PROVE  Sticky
      OBVIOUS
    <2>1. CASE Write
      <3>1. row'.pr /\ row'.deadline = row.deadline
        BY <2>1, MergedKeeps DEF Write, TypeOK
      <3>2. row'.ident = row.ident /\ (row'.inst = "LOST" \/ row'.svc \notin LiveService)
        BY <2>1 DEF Write, Accepts, UnderReclaim
      <3>. QED BY <3>1, <3>2
    <2>2. CASE Request
      BY <2>2, RequestType DEF Request, TypeOK
    <2>3. CASE Offer
      BY <2>3 DEF Offer, AcceptsReoffer
    <2>4. CASE ApplyUpdate
      BY <2>4 DEF ApplyUpdate, AcceptsUpdate
    <2>. QED BY <2>1, <2>2, <2>3, <2>4 DEF Next
  <1>. QED BY <1>1, TableTyped, PTL DEF Spec, ReclaimSticky

\* RELEASED has no outgoing edge and a reclaim request leaves it alone; the only
\* write that leaves it is a reoffer under another lease.
THEOREM TableReleasedIsFinal == Spec => ReleasedIsFinal
  <1>. DEFINE Final == row.inst = "RELEASED" /\ row'.inst # "RELEASED" =>
                          /\ row'.ident # row.ident
                          /\ row'.inst = "ALLOCATING" /\ row'.svc = "NONE" /\ ~row'.pr
  <1>1. TypeOK /\ [Next]_row => [Final]_row
    <2>. SUFFICES ASSUME TypeOK, Next, row.inst = "RELEASED", row'.inst # "RELEASED"
                  PROVE  Final
      OBVIOUS
    <2>1. CASE Write
      BY <2>1 DEF Write, Accepts, ValidateTransition, CanTransitionInstance,
                  instanceTransitions
    <2>2. CASE Request
      BY <2>2, RequestType DEF Request, TypeOK
    <2>3. CASE Offer
      BY <2>3 DEF Offer, AcceptsReoffer
    <2>4. CASE ApplyUpdate
      BY <2>4 DEF ApplyUpdate, AcceptsUpdate, ValidateTransition,
                  CanTransitionInstance, instanceTransitions
    <2>. QED BY <2>1, <2>2, <2>3, <2>4 DEF Next
  <1>. QED BY <1>1, TableTyped, PTL DEF Spec, ReleasedIsFinal

\* Every write stores the later of the two observations it could store.
THEOREM TableObservations == Spec => ObservationsMoveForward
  <1>1. TypeOK /\ [Next]_row => [row'.seen >= row.seen]_row
    <2>. SUFFICES ASSUME TypeOK, Next
                  PROVE  row'.seen >= row.seen
      OBVIOUS
    <2>1. CASE Write
      BY <2>1, MergedKeeps DEF Write, TypeOK
    <2>2. CASE Request
      BY <2>2, RequestType DEF Request, TypeOK, Row
    <2>3. CASE Offer
      BY <2>3 DEF Offer, Reoffered, TypeOK, Later, Row
    <2>4. CASE ApplyUpdate
      BY <2>4, UpdatedKeeps DEF ApplyUpdate, TypeOK
    <2>. QED BY <2>1, <2>2, <2>3, <2>4 DEF Next
  <1>. QED BY <1>1, TableTyped, PTL DEF Spec, ObservationsMoveForward
=============================================================================
