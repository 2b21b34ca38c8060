\* Blocks both ways, programs that end and start, and a lossy network.
SPECIFICATION FairSpec
CONSTANTS
  Alice = Alice
  Bob = Bob
  BlockSize = 4
  PipeCap = 4
  Traffic <- MCTraffic
INVARIANTS
  TypeOK
  AnsweredIsWritten
PROPERTIES
  ImplementsChannel
  WritesEnd
  
CHECK_DEADLOCK FALSE
