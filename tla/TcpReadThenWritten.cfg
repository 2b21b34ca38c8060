\* Violated: a plugin blocks for ever writing what it received.
SPECIFICATION FairSpec
CONSTANTS
  Client = Client
  Server = Server
  BlockSize = 3
  PipeCap = 2
  SendCap = 1
  RecvCap = 2
  TunCap = 1
  FrameLens = {3}
  ClientFrames = 2
  ServerFrames = 2
  MaxFrames <- MCMaxFrames
PROPERTY ReadThenWritten
CHECK_DEADLOCK FALSE
