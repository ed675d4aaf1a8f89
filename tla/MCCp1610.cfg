SPECIFICATION FairSpec
CONSTANTS
  Codes <- MCCodes
  Origins <- MCOrigins
INVARIANTS
  TypeOK
  RoundTrip
  OneClaimant
PROPERTY
  ImplementsSweep
