SPECIFICATION Spec
CONSTANTS
  r1 = r1
  t2 = t2
  t1 = t1
  Role = {r1}
  NoRole = NoRole
  Thread = {t1, t2}
  NoThread = NoThread
  Reconciler = t1
  Caller = {"plan", "drain"}
  Fault = {"death"}
  MaxFaults = 1
  MaxIdent = 1
  PrepareMaxAttempts = 1
  StartMaxAttempts = 1
  StartRetryMaxRearms = 1
  LostFailureThreshold = 1
  ReadinessFailureThreshold = 1
  HealthFailureThreshold = 1
SYMMETRY Symmetry
PROPERTY DrainRunsToItsEnd
