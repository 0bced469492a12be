SPECIFICATION FairSpec
CONSTANTS
  c1 = c1
  c2 = c2
  main = main
  Caller = {c1, c2}
  Main = main
  Nobody = Nobody
  MaxCalls = 4
  MaxSignals = 2
INVARIANT TypeOK
INVARIANT OneProcess
INVARIANT StoppedIsGone
PROPERTY CancelledIsSilent
PROPERTY ShutdownCleans
PROPERTY CallsEnd
PROPERTY StopKills
PROPERTY CrashIsReported
CHECK_DEADLOCK FALSE
