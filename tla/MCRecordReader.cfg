SPECIFICATION FairSpec
CONSTANTS
  ByteSize = 3
  PeerRecord <- MCPeerRecord
  MaxRecords = 3
INVARIANTS
  TypeOK
  InStep
  EndOfFileIsClean
PROPERTIES
  ReadsChannel
  EveryRecordHandled
