CONSTANTS
  PufferLength = 2
  Items = {x}
  NULL = NULL
  Producers = {p}
  Consumers = {c1, c2}
  NoThread = NoThread
  SpuriousWakeups = FALSE
  CountSlack = 0
SPECIFICATION Spec
INVARIANT GuardStillHolds
