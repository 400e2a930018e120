SPECIFICATION ScanSpec
CONSTANTS
  CountSize = 4
  KeyLength = 1
  NoShare = NoShare
  Offer <- MCOffer
INVARIANTS
  TypeOK
  ExtensionsParsed
PROPERTIES
  MakesChoice
  ScanEnds
