SPECIFICATION Spec
CONSTANTS
  r1 = r1
  t2 = t2
  t1 = t1
  Role = {r1}
  NoRole = NoRole
  Thread = {t1, t2}
  NoThread = NoThread
  Reconciler = t1
  Caller = {"plan", "reclaim", "release", "round", "offer"}
  Fault = {"partition", "bootstrap", "restart"}
  MaxFaults = 1
  MaxIdent = 2
  PrepareMaxAttempts = 1
  StartMaxAttempts = 1
  StartRetryMaxRearms = 0
  LostFailureThreshold = 1
  ReadinessFailureThreshold = 1
  HealthFailureThreshold = 1
SYMMETRY Symmetry
PROPERTY ImplementsTable
PROPERTY ReclaimSticky
PROPERTY ReleasedIsFinal
