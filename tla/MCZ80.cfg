SPECIFICATION FairSpec
CONSTANTS
  Codes <- MCCodes
  Origins <- MCOrigins
  Table <- MCTable
INVARIANTS
  TypeOK
  RoundTrip
  Unambiguous
  ExemplarsDecode
PROPERTY
  ImplementsSweep
