\* Two clients, one life, no spurious wakeup.
CONSTANTS
  Clients = {u, v}
  Starts = 1
  MaxItems = 2
  MaxSpurious = 0
  wait_limit = 1
  NoThread = NoThread
  Orderly = TRUE
SPECIFICATION Spec
PROPERTIES BusyBlocks
CHECK_DEADLOCK FALSE
