SPECIFICATION FairSpec
CONSTANTS
  Codes <- MCCodes
  Origins <- MCOrigins
  Table <- MCTable
INVARIANTS
  TypeOK
  RoundTrip816
  WidthsAgree
  WidthsFollowStatus
  DirectivesAlternate
  NoPanic
PROPERTY
  ImplementsSweep
