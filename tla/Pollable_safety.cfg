\* One listener, one connection label before it ("Socket#" sorts
\* before "Socket:"), one host label before and one after them.
CONSTANTS
  N = 4
  Listener = 3
  ConnLabels = {2}
  NoObj = NoObj
  Objects = {s1, s2, d1, w1}
  Devices = {d1}
  Plugins = {}
  Writers = {w1}
  MaxFDs = 1
  PollFDErrors = TRUE
SPECIFICATION Spec
SYMMETRY Addresses
VIEW LiveFields
INVARIANTS SlotOwned SlotsExact OutputPolled RemovedIsGone
PROPERTIES HandlerKeepsObject
