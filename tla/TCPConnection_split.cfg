\* Commands in pieces.
CONSTANTS
  CmdLength = 3
  MaxCmd = 6
  Npos = 1000
  OutCapacity = 4
  LineLengths = {0}
  MaxCmds = 2
  MaxLines = 4
  Piecewise = TRUE
SPECIFICATION Spec
CHECK_DEADLOCK FALSE
INVARIANTS CommandsWhole
