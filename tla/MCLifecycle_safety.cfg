SPECIFICATION Spec
CONSTANTS
  r2 = r2
  r1 = r1
  t2 = t2
  t1 = t1
  Role = {r1, r2}
  NoRole = NoRole
  Thread = {t1, t2}
  NoThread = NoThread
  Reconciler = t1
  Caller = {"plan", "drain", "requeue", "reclaim", "revoke"}
  Fault = {"crash", "router", "partner", "death", "degrade", "timeout", "delete", "cancel"}
  MaxFaults = 2
  MaxIdent = 1
  PrepareMaxAttempts = 1
  StartMaxAttempts = 2
  StartRetryMaxRearms = 1
  LostFailureThreshold = 1
  ReadinessFailureThreshold = 1
  HealthFailureThreshold = 2
SYMMETRY Symmetry
INVARIANT TypeOK
INVARIANT DrainingIsClosed
INVARIANT OwnerIsCurrent
INVARIANT BudgetRespected
INVARIANT ServedRoleMatches
INVARIANT IdleMeansStopped
PROPERTY HandedBackStopped
