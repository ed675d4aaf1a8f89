SPECIFICATION FairSpec
CONSTANTS
  Codes <- MCDecles
  Origins <- MCMiddle
INVARIANT
  ByteExact
