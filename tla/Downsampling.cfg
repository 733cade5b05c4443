\* Mono and stereo; factors 0 to 3, one beyond int16_t (of 3 bits) and one beyond
\* its range; a plugin rate of a half; 7 frames in pieces, up to the buffer's size.
CONSTANTS
  l1 = l1
  l2 = l2
  Listeners = {l1, l2}
  Factors = {0, 1, 2, 3, 5, 10}
  PluginFactor = 2
  ChannelNums = {1, 2}
  Leftover <- Shorts
  MaxShort = 3
  Alsa = TRUE
  BufferFrames = 6
  MaxFrames = 7
SPECIFICATION Spec
SYMMETRY Symmetry
CHECK_DEADLOCK FALSE
INVARIANTS Downsampled DemodulatedInOrder
