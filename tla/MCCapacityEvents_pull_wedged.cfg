SPECIFICATION FairSpec
CONSTANTS
  r1 = r1
  a1 = a1
  rec = rec
  pul = pul
  Role = {r1}
  NoRole = NoRole
  Instance = {1, 2}
  Address = {a1}
  Executor = {rec, pul}
  Reconciler = rec
  Puller = pul
  Nobody = Nobody
  Owner = Owner
  Deed = {"offer", "withdraw"}
  Fault = {}
  MaxFaults = 0
  MaxTime = 4
  Batch = 32
  Pulls = TRUE
  NamesLease = TRUE
  Reuse = TRUE
PROPERTY ViewConverges
CHECK_DEADLOCK FALSE
