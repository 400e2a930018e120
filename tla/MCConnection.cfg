SPECIFICATION ConnectionFairSpec
CONSTANTS
  good = good
  helloA = helloA
  helloB = helloB
  NoShare = NoShare
  NoHello = NoHello
  Hello <- MCHello
  Share <- MCShare
  LowOrder = {}
  KeyShareOf <- MCKeyShareOf
  MaxHandshakes = 5
  ByteSize = 3
  PeerRecord <- MCPeerRecord
  MaxRecords = 5
  MessageOf <- MCMessageOf
  Burst = 3
  PipeBytes = 6
  SendBuffer = 2
INVARIANTS
  Coupled
  AnswersInOrder
  NeverBothWait
PROPERTIES
  EveryHelloAnswered
