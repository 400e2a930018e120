SPECIFICATION FairSpec
CONSTANTS
  ByteSize = 3
  WordSize = 12
  ContentType = {1, 2}
  Fragment <- MCFragment
  PeerPlaintext <- MCPeerPlaintext
  Key = {k1, k2}
  PADDING_MIN = 0
  PADDING_MAX = 2
  AEAD_TAG_LENGTH = 2
  VersionOffset = 1
  StructSize = 3
INVARIANTS
  TypeOK
  SealFits
  StripFindsRecord
  OpensAsSealed
PROPERTIES
  SealedOpens
