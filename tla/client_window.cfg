\* Two calls of several chunks against a peer that acknowledges as it likes.
SPECIFICATION Spec
CONSTANTS
  Calls = {c1, c2}
  Bodies = {5}
  Chunk = 2
  Watermark = 4
  ChanCap = 1
  PipeCap = 1
  PeerPackets <- AckPeer
  MaxReply = 0
SYMMETRY CallSymmetry
INVARIANTS TypeOK PacketsInOrder NoLostWakeup WindowBounded
CHECK_DEADLOCK FALSE
