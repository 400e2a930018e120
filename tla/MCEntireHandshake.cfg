SPECIFICATION Spec
CONSTANTS
  good = good
  weak = weak
  helloGood = helloGood
  helloWeak = helloWeak
  helloNone = helloNone
  NoShare = NoShare
  NoHello = NoHello
  Hello <- MCHello
  Share <- MCShare
  LowOrder <- MCLowOrder
  KeyShareOf <- MCKeyShareOf
  MaxHandshakes = 3
INVARIANT EntireHandshake
