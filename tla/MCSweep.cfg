SPECIFICATION FairSpec
CONSTANTS
  Codes <- MCCodes
  Origins <- MCOrigins
  Unit = 2
  Memory = 65536
INVARIANT
  Tiling
PROPERTY
  Termination
