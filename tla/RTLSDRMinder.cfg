\* Three segments of one to four samples, headers of three bytes, any pieces; losses.
CONSTANTS
  Rates = {48000, 250000, 310000, 2400000}
  HdrSize = 3
  Segments = 3
  Data = {1, 2, 4}
  Losses = {0, 2}
  Streams <- AllStreams
  Reads = {1, 2, 3, 5, 9, 14}
  NumChan = 2
  BufSize = 2
SPECIFICATION Spec
CHECK_DEADLOCK FALSE
INVARIANTS RateMinimal Framed StampBounds
