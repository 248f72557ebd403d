\* Two lives of one component, two clients, STOP when the thread has run.
CONSTANTS
  Clients = {u, v}
  Starts = 2
  MaxItems = 2
  MaxSpurious = 1
  wait_limit = 1
  NoThread = NoThread
  Orderly = TRUE
SPECIFICATION FairSpec
INVARIANTS SentInOrder FreedAfterUse
PROPERTIES StopDeactivates WokenSends
CHECK_DEADLOCK FALSE
