\* Bodies of up to exactly the watermark, pings filling the channel: every call ends.
SPECIFICATION FairSpec
CONSTANTS
  Calls = {c1, c2}
  Bodies = {1}
  Chunk = 1
  Watermark = 1
  ChanCap = 1
  PipeCap = 1
  PeerPackets <- PingPeer
  MaxReply = 0
PROPERTIES CallsEnd
CHECK_DEADLOCK FALSE
