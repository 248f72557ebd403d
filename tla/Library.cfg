\* Every part at bounds at which it fills up, grows, wraps and runs empty.
CONSTANTS
  PufferLength = 2
  Items = {x}
  NULL = NULL
  Producers = {p1, p2}
  Consumers = {c1, c2}
  NoThread = NoThread
  SpuriousWakeups = TRUE
  CountSlack = 2
  MapSize = 2
  MapItems = {x, y, z}
  MapCallers = {c1, c2}
  NoItem = NoItem
  Keys = {1, 2, 3, 4}
  MaxRefs = 4
  MaxLag = 1
  Values = {1, 2, 3, 4}
  NumLimit = 3
  TimeLimit = 1
  Percentiles = {0, 40, 50, 67}
  QueueData = {a, b}
  QueueMax = 3
  Elems = {1, 2, 3}
  InitSize = 2
  ItemSize = 4
  VectorMax = 4
  HeapItems = {1, 2, 3}
  BaseSize = 4
  HeapMax = 6
  ListItems = {a, b}
  ListMax = 3
  RingLength = 3
  MaxItems = 6
  Sections = {s1, s2}
  IniKeys = {k1}
  IniValues = {v1, v2}
  DictMin = 2
  MaxLines = 3
  ArgTables <- Tables
  ArgTokens <- Tokens
  MaxArgs = 3
  IntMax = 15
  Kilo = 2
  NoText = NoText
SPECIFICATION LibrarySpec
INVARIANTS MutualExclusion WaitersCounted ReadersSeeTable ItemsOnce TreeCountsBag PluginsFollow PercentileSplits QueueIsDeque VectorIsList HeapIsBag ListIsSeries RingKeepsUnread DictionaryIsFile OptionsUnderstood ErrorsTold
CONSTRAINT CountBounded
CHECK_DEADLOCK FALSE
