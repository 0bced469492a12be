SPECIFICATION FairSpec
CONSTANTS
  r1 = r1
  t2 = t2
  t1 = t1
  Role = {r1}
  NoRole = NoRole
  Thread = {t1, t2}
  NoThread = NoThread
  Reconciler = t1
  Caller = {"plan", "reclaim", "move", "offer"}
  Fault = {"crash", "death", "router", "timeout", "partner", "degrade", "cancel"}
  MaxFaults = 1
  MaxIdent = 2
  PrepareMaxAttempts = 1
  StartMaxAttempts = 2
  StartRetryMaxRearms = 1
  LostFailureThreshold = 1
  ReadinessFailureThreshold = 1
  HealthFailureThreshold = 1
PROPERTY ReclaimCompletes
PROPERTY UpdateApplied
PROPERTY StartSettles
INVARIANT LeftBehindStopped
INVARIANT LeftBehindClosed
PROPERTY IdentityMovesForward
