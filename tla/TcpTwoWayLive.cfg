\* Traffic ends delivered, or in the local cycle if it flows both ways.
SPECIFICATION FairSpec
CONSTANTS
  Client = Client
  Server = Server
  BlockSize = 3
  PipeCap = 2
  SendCap = 1
  RecvCap = 2
  TunCap = 1
  FrameLens = {3}
  ClientFrames = 2
  ServerFrames = 2
  MaxFrames <- MCMaxFrames
PROPERTIES
  DeliveredOrCycle
  OneWayDelivered
CHECK_DEADLOCK FALSE
