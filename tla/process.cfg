SPECIFICATION FairSpec
CONSTANTS
  HttpVersions = {1, 2}
  Signal <- MCSignal
INVARIANTS
  TypeOK
  Http2StoppedBeforeFreed
  StartedMeansServed
  OnlyTooEarlyIsStuck

  
  
CHECK_DEADLOCK FALSE
