SPECIFICATION Spec
CONSTANTS
  ByteSize = 3
  PeerRecord <- MCPeerRecord
  MaxRecords = 2
INVARIANT GivenUpIsIncomplete
