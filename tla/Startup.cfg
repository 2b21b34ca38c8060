\* Start-up from every configuration file considered, until it ends.
SPECIFICATION FairSpec
CONSTANTS
  Value <- MCValue
  Files <- MCFiles
  Ports <- MCPorts
  Addresses <- MCAddresses
INVARIANTS
  TypeOK
  ConfAsDeclared
  ServerHasItsOptions
  LoopsAreBuilt
  SipInterfaceIsUp
PROPERTIES
  SharedStateSettled
  NothingIsRetried
  StartUpEnds
CHECK_DEADLOCK FALSE
