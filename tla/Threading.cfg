\* One producer and one consumer, as the pipeline of docs/components.md binds
\* them; two clients round a pool; a team of GateNum threads that waits for two
\* rounds and then destroys the barrier.
CONSTANTS
  PufferLength = 2
  Items = {x, y, z}
  NULL = NULL
  Producers = {t1}
  Consumers = {t2}
  NoThread = NoThread
  SpuriousWakeups = FALSE
  Clients = {t1, t2}
  NoClient = NoClient
  Parties = {t1, t2, t3}
  NoParty = NoParty
  GateNum = 3
  BARRIER_FLAG = 100
  Rounds = 2
  Destroyers = {t1}
SPECIFICATION ThreadingSpec
INVARIANTS GuardStillHolds NoLostWakeup OneOwner NothingLost SuppliedClean CurrentCounts NobodyPassesEarly NotFreedInUse NoLostBroadcast
PROPERTIES ImplementsFairFifo PoolCallsReturn ImplementsRoundBarrier
CHECK_DEADLOCK FALSE
