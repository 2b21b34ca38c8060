\* Violated: the SIP plugin looks at sip_port alone.
SPECIFICATION Spec
CONSTANTS
  Value <- MCValue
  Files <- MCFiles
  Ports <- MCPorts
  Addresses <- MCAddresses
INVARIANT SipHasItsOptions
CHECK_DEADLOCK FALSE
