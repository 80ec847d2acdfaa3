\* Everything that must end or come right, on small instances under fairness.
CONSTANTS
  None = None
  Rename = Rename
  NoTarget = NoTarget
  NoPrint = NoPrint
SPECIFICATION Spec
CHECK_DEADLOCK FALSE
PROPERTIES
  WorkEnds
  Converges
