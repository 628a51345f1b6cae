\* A reply of two chunks while another call is being sent: nobody goes on.
SPECIFICATION FairLink
CONSTANTS
  Calls = {c1, c2}
  Bodies = {2}
  Replies = {4}
  Chunk = 2
  Watermark = 3
  ChanCap = 1
  PipeCap = 1
  PeerPackets = {}
  MaxReply = 0
PROPERTIES CallsEndOrLinkDoes
CHECK_DEADLOCK FALSE
