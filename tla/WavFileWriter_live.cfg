\* Orderly or not, with and without faults; frames, orders and receivers are not told
\* apart.  A writer that has been removed makes no more steps.
CONSTANTS
  Capacity = 4
  MinWrite = 2
  Orders <- OneOrder
  First <- FirstOrder
  Receivers = {Nobody}
  c1 = c1
  c2 = c2
  Nobody = Nobody
  MaxChunk = 2
  MaxTime = 7
  MaxRequests = 3
  Tell = FALSE
  Conduct = {TRUE, FALSE}
  Faults = {TRUE, FALSE}
SPECIFICATION FairSpec
CHECK_DEADLOCK FALSE
PROPERTIES  RecordingBegins
