SPECIFICATION FairSpec
CONSTANTS
  Codes <- MCCodes
  Origins <- MCOrigins
  AddressSpace = 1073741824
INVARIANTS
  TypeOK
  RoundTrip
  OneReading
  ExemplarsDecode
PROPERTY
  ImplementsSweep
