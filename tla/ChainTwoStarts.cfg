\* START called by two callers at a time.
CONSTANTS
  Callers = {u, v}
  Activators = {a, b}
  a = a
  b = b
  ActivatorOf <- AlternatingActivators
  NTRT_MAX_THREAD_NUM = 2
  Starts = 2
  wait_limit = 1
  NoCaller = NoCaller
  NoActivator = NoActivator
  Orderly = FALSE
SPECIFICATION Spec
INVARIANTS KeptOnce
CHECK_DEADLOCK FALSE
