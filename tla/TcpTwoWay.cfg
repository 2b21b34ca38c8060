\* Traffic in both directions, enough of it to fill every buffer.
SPECIFICATION Spec
CONSTANTS
  Client = Client
  Server = Server
  BlockSize = 3
  PipeCap = 2
  SendCap = 1
  RecvCap = 2
  TunCap = 1
  FrameLens = {1, 3}
  ClientFrames = 2
  ServerFrames = 2
  MaxFrames <- MCMaxFrames
INVARIANTS
  TypeOK
  StreamIntegrity
  NoSendSendDeadlock
  HaltedIsDelivered
PROPERTIES
  CyclePermanent
  NoLivelock
  ImplementsStreams
CHECK_DEADLOCK FALSE
