SPECIFICATION Spec
CONSTANTS
  r1 = r1
  a1 = a1
  a2 = a2
  api = api
  rec = rec
  pul = pul
  Role = {r1}
  NoRole = NoRole
  Instance = {1, 2}
  Address = {a1, a2}
  Executor = {api, rec, pul}
  Reconciler = rec
  Puller = pul
  Nobody = Nobody
  Owner = Owner
  Deed = {"offer", "replace", "confirm", "withdraw"}
  Fault = {"crash", "cancel"}
  MaxFaults = 1
  MaxTime = 3
  Batch = 1
  Pulls = FALSE
  NamesLease = TRUE
  Reuse = TRUE
SYMMETRY Symmetry
INVARIANT TypeOK
PROPERTY RevokedNotAdmitted
INVARIANT EndpointExclusive
PROPERTY DecidedIsFinal
PROPERTY IdentityNotTakenBack
CHECK_DEADLOCK FALSE
