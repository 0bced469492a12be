SPECIFICATION FairSpec
CONSTANTS
  r1 = r1
  a1 = a1
  rec = rec
  pul = pul
  Role = {r1}
  NoRole = NoRole
  Instance = {1}
  Address = {a1}
  Executor = {rec, pul}
  Reconciler = rec
  Puller = pul
  Nobody = Nobody
  Owner = Owner
  Deed = {"offer", "replace", "withdraw"}
  Fault = {"crash", "partner", "omit"}
  MaxFaults = 2
  MaxTime = 3
  Batch = 1
  Pulls = TRUE
  NamesLease = TRUE
  Reuse = TRUE
PROPERTY AbsenceForgiven
PROPERTY EventDecided
PROPERTY ViewConverges
CHECK_DEADLOCK FALSE
