SPECIFICATION Spec
CONSTANTS
  r1 = r1
  a1 = a1
  a2 = a2
  api = api
  rec = rec
  pul = pul
  Role = {r1}
  NoRole = NoRole
  Instance = {1}
  Address = {a1, a2}
  Executor = {api, rec, pul}
  Reconciler = rec
  Puller = pul
  Nobody = Nobody
  Owner = Owner
  Deed = {"offer", "replace", "withdraw"}
  Fault = {}
  MaxFaults = 0
  MaxTime = 3
  Batch = 32
  Pulls = FALSE
  NamesLease = TRUE
  Reuse = TRUE
INVARIANT RevokedStaysDown
CHECK_DEADLOCK FALSE
