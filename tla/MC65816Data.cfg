SPECIFICATION FairSpec
CONSTANTS
  Codes <- MCCodes
  Origins <- MCOrigins
  Table <- MCTable
INVARIANT
  DataOnlyAtTheEnd
