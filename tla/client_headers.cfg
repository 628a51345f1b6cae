\* Two calls take their message numbers and send their HEADERs in the other order.
SPECIFICATION Spec
CONSTANTS
  Calls = {c1, c2}
  Bodies = {0}
  Chunk = 2
  Watermark = 3
  ChanCap = 2
  PipeCap = 1
  PeerPackets <- SilentPeer
  MaxReply = 0
SYMMETRY CallSymmetry
INVARIANTS HeadersInSequence
CHECK_DEADLOCK FALSE
