\* Two signals from outside, faults in handlers, a thread that may fail.
\* A process that has ended, spins or hangs does nothing more.
CONSTANTS
  Asked = {"TERM", "INT"}
  Faults = {"SEGV", "FPE"}
  DirErrors = TRUE
SPECIFICATION ProcessSpec
CHECK_DEADLOCK FALSE
INVARIANTS HostDeletedOnce
PROPERTIES RegistrySpared SignalEnds
