\* Two callers, a table of two slots, removals by address.
CONSTANTS
  MapSize = 2
  MapItems = {x, y}
  MapCallers = {c1, c2}
  NoItem = NoItem
SPECIFICATION MapSpec
PROPERTIES RemovesItsItem
CHECK_DEADLOCK FALSE
