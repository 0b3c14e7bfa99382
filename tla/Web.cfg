SPECIFICATION Spec
CONSTANTS
  None = None
  Failures = TRUE
  Workers = {w1, w2}
  Requests <- MCRequests
  Buffer = 2
INVARIANTS
  TypeOK
  ModesAgree
PROPERTIES
  OnlyWholeRequestsRun
  RetriedSwitchDoesNotRestart
  WorkerComesBack
