\* One section, one key, a file of at most two lines.
CONSTANTS
  Sections = {s1}
  IniKeys = {k1}
  IniValues = {v1, v2}
  DictMin = 2
  MaxLines = 2
SPECIFICATION ConfigSpec
PROPERTIES SetAddsNothing
CHECK_DEADLOCK FALSE
