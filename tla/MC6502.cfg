SPECIFICATION FairSpec
CONSTANTS
  Codes <- MCCodes
  Origins <- MCOrigins
  Table <- MCTable
  Fill = 10
INVARIANTS
  RoundTrip
  ExemplarsDecode
  CallbackAgrees
PROPERTY
  ImplementsSweep
