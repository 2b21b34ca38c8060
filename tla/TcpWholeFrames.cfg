\* Violated: what reaches the device is not what was transmitted.
SPECIFICATION Spec
CONSTANTS
  Client = Client
  Server = Server
  BlockSize = 3
  PipeCap = 4
  SendCap = 2
  RecvCap = 3
  TunCap = 1
  FrameLens = {1, 3}
  ClientFrames = 2
  ServerFrames = 0
  MaxFrames <- MCMaxFrames
INVARIANT WholeFrames
CHECK_DEADLOCK FALSE
