SPECIFICATION StartupFairSpec
CONSTANTS
  FileName = {f1, f2}
  NoFileName = NoFileName
  CommandLines <- MCCommandLines
  Files <- MCFiles
  Missing = Missing
  NoFile = NoFile
  Malformed = Malformed
  f1 = f1
  f2 = f2
INVARIANTS
  LoaderTypeOK
  LineIsAccepted
  LoadedArePrefixes
  ServesWhatWasRead
PROPERTIES
  StartupEnds
  StartsTheProcess
CHECK_DEADLOCK FALSE
