SPECIFICATION Spec
CONSTANTS
  CountSize = 4
  MaxRecords = 3
  NULL = NULL
  ExtensionCount <- MCExtensionCount
INVARIANTS
  NoMisuse
  NothingElseLeaks
