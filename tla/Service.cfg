\* One or two components, another thread that fires events, two rows in the
\* table of threads.
CONSTANTS
  CmpNum = 2
  Main = Main
  Firers = {f1}
  MaxThreads = 2
  MapSize = 2
  NoItem = 0
SPECIFICATION FairSpec
INVARIANTS StopsPairStarts StoppedInHalt
PROPERTIES ExitReached
CHECK_DEADLOCK FALSE
