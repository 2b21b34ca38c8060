\* Violated: a client that lacks options is let through.
SPECIFICATION Spec
CONSTANTS
  Value <- MCValue
  Files <- MCFiles
  Ports <- MCPorts
  Addresses <- MCAddresses
INVARIANT ClientHasItsOptions
CHECK_DEADLOCK FALSE
