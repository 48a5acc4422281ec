SPECIFICATION Spec
CONSTANTS
  HttpVersions = {1}
  Signal <- MCSignal
INVARIANTS
  StoppedBeforeFreed
CHECK_DEADLOCK FALSE
