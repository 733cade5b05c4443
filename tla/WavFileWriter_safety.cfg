\* Orderly or not, with and without faults, with a buffer that may fill up.
\* A writer that has been removed makes no more steps.
CONSTANTS
  Capacity = 3
  MinWrite = 2
  Orders <- TwoOrders
  First <- FirstOrder
  Receivers <- SomeReceivers
  c1 = c1
  c2 = c2
  Nobody = Nobody
  MaxChunk = 2
  MaxTime = 9
  MaxRequests = 3
  Tell = TRUE
  Conduct = {TRUE, FALSE}
  Faults = {TRUE, FALSE}
SPECIFICATION Spec
CHECK_DEADLOCK FALSE
INVARIANTS FramesKept FirstFileStamped SlotCurrent
PROPERTIES ImplementsRecorder
