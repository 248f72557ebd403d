\* STOP right after START, before the new thread has run.
CONSTANTS
  Clients = {}
  Starts = 1
  MaxItems = 0
  MaxSpurious = 0
  wait_limit = 1
  NoThread = NoThread
  Orderly = FALSE
SPECIFICATION FairSpec
PROPERTY StopDeactivates
CHECK_DEADLOCK FALSE
