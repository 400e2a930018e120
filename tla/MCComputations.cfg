SPECIFICATION Spec
CONSTANTS
  Hello <- MCHello
  PublicKey <- MCPublicKey
  Random <- MCRandom
  Behind = {0, 255}
  Reach = 400
  Chain <- MCChain
  Extensions <- MCExtensions
  Scalar <- MCScalar
  ContextString <- MCContextString
  SignedHash <- MCHash
  s1 = s1
  s2 = s2
  h1 = h1
  SharedSecret <- MCSharedSecret
  TranscriptHash <- MCTranscriptHash
  Base <- MCBase
  Label <- MCLabel
  Context <- MCContext
  OutLength = {12, 32}
  Bits <- MCBits
  NonceLength = 3
  CounterLength = 2
  Iv <- MCIv
  Counter <- MCCounter
  MaxCalls = 2
INVARIANTS
  FieldsAsSent
  BuffersFilled
  PeerReadsAnswer
  BuffersHold
  CertificateReadBack
  SignatureReadBack
  KeysSeparate
  InfoTellsCallsApart
  NonceTellsCountersApart
