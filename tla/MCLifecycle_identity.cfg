SPECIFICATION Spec
CONSTANTS
  r2 = r2
  r1 = r1
  t2 = t2
  t1 = t1
  Role = {r1, r2}
  NoRole = NoRole
  Thread = {t1, t2}
  NoThread = NoThread
  Reconciler = t1
  Caller = {"plan", "drain", "revoke", "move", "offer"}
  Fault = {"crash", "router", "partner", "timeout", "death", "cancel"}
  MaxFaults = 1
  MaxIdent = 2
  PrepareMaxAttempts = 1
  StartMaxAttempts = 2
  StartRetryMaxRearms = 1
  LostFailureThreshold = 1
  ReadinessFailureThreshold = 1
  HealthFailureThreshold = 1
SYMMETRY Symmetry
INVARIANT LeftBehindStopped
INVARIANT LeftBehindClosed
PROPERTY IdentityMovesForward
