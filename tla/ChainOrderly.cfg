\* Two callers, two activators, one thread more than there are slots.
CONSTANTS
  Callers = {u, v}
  Activators = {a, b}
  a = a
  b = b
  ActivatorOf <- AlternatingActivators
  NTRT_MAX_THREAD_NUM = 2
  Starts = 3
  wait_limit = 1
  NoCaller = NoCaller
  NoActivator = NoActivator
  Orderly = TRUE
SPECIFICATION FairSpec
INVARIANTS KeptOnce DisposedOnce FreedAfterUse
PROPERTIES CallsReturn TakenOutEnds
CHECK_DEADLOCK FALSE
