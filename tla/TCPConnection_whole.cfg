\* Every command arrives in one read; output of all lengths; failing writes.
\* The connection may go, and the client may have nothing more to say.
CONSTANTS
  CmdLength = 2
  MaxCmd = 4
  Npos = 1000
  OutCapacity = 4
  LineLengths = {0, 1, 3, 5}
  MaxCmds = 3
  MaxLines = 4
  Piecewise = FALSE
SPECIFICATION FairSpec
CHECK_DEADLOCK FALSE
INVARIANTS OutputKept
PROPERTIES CommandsExecuted OutputSent
