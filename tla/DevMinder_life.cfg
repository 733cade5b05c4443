\* A device of either kind; a stall takes three ticks.
CONSTANTS
  Kinds = {"alsa", "rtlsdr"}
  MaxQuiet = 3
  Recent = 1
SPECIFICATION FairSpec
CHECK_DEADLOCK FALSE
INVARIANTS NoNullPcm RunningIsWatched
PROPERTIES StoppedIsSilent StallNoticed
