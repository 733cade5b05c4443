\* The labels as in Pollable_safety.cfg, with a plugin in the writer's place.
\* getPollFDs never fails: slots and pollfds agree; the round always ends.
CONSTANTS
  N = 4
  Listener = 3
  ConnLabels = {2}
  NoObj = NoObj
  Objects = {s1, s2, d1, p1}
  Devices = {d1}
  Plugins = {p1}
  Writers = {}
  MaxFDs = 1
  PollFDErrors = FALSE
SPECIFICATION FairSpec
INVARIANTS EventsInSync
PROPERTIES RemovedGoes EverybodyCalled
