\* A short queue.
CONSTANTS
  QueueData = {a, b}
  QueueMax = 3
SPECIFICATION QueueSpec
INVARIANTS NeverMisreads
CHECK_DEADLOCK FALSE
