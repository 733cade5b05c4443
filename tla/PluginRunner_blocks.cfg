\* Mono and stereo devices.
\* Block and step sizes with and without overlap and preference; frames are lost once or more.
\* Command lines of up to two parameters; files of up to nine frames.
CONSTANTS
  Preferred <- Sizes
  DefaultBlock = 2
  ChannelNums = {1, 2}
  MaxFrames = 9
  Gaps = {0, 2}
  Assignments = 2
SPECIFICATION SpecEither
CHECK_DEADLOCK FALSE
INVARIANTS StampOfNewest NothingWithheld HostFaithful
PROPERTIES ImplementsStream HostImplementsStream
