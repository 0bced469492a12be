SPECIFICATION Spec
CONSTANTS
  r1 = r1
  a1 = a1
  a2 = a2
  rec = rec
  pul = pul
  api = api
  Role = {r1}
  NoRole = NoRole
  Instance = {1, 2}
  Address = {a1, a2}
  Executor = {rec, pul, api}
  Reconciler = rec
  Puller = pul
  Nobody = Nobody
  Owner = Owner
  Deed = {"offer", "confirm"}
  Fault = {"omit"}
  MaxFaults = 2
  MaxTime = 6
  Batch = 32
  Pulls = TRUE
  NamesLease = TRUE
  Reuse = TRUE
PROPERTY VisibleIsForgiven
CHECK_DEADLOCK FALSE
CONSTRAINT LatePush
