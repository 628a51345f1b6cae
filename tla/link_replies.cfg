\* Two calls at once, requests and replies of one chunk and of more.
SPECIFICATION MCSpec
CONSTANTS
  Calls = {c1, c2}
  Bodies = {4}
  Replies = {2, 3}
  Chunk = 2
  Watermark = 2
  ChanCap = 1
  PipeCap = 1
  PeerPackets = {}
  MaxReply = 0
  MaxPacketSize = 24
  Slack = 15
  LineMax = 9
  MaxU64 = 99
  ReadSize = 16
  Written <- PacketRuns
  Garbage <- NoPackets
SYMMETRY CallSymmetry
INVARIANTS RepliesComplete RequestsRunWhole BacklogBounded WaitersUnderWay PacketsAsWritten
CHECK_DEADLOCK FALSE
