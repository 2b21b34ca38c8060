\* Messages of every remainder modulo three: up to two groups, and the longest blocks.
SPECIFICATION Spec
CONSTANTS
  Octets = {0, 1, 127, 128, 254}
  MaxLength = 6
INVARIANTS
  EncodesBits
  RoundTrip
  FitsPayload
CHECK_DEADLOCK FALSE
