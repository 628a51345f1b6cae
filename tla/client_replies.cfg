\* Two calls against a peer that answers as it likes.
SPECIFICATION Spec
CONSTANTS
  Calls = {c1, c2}
  Bodies = {0}
  Chunk = 2
  Watermark = 3
  ChanCap = 1
  PipeCap = 1
  PeerPackets <- RepliesPeer
  MaxReply = 1
SYMMETRY CallSymmetry
INVARIANTS IInv RepliesCorrelated NothingLeaks WaitersAreRegistered
PROPERTIES ReturnedIsFinal ImplementsRpcCalls
CHECK_DEADLOCK FALSE
