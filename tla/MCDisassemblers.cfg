SPECIFICATION FairSpec
CONSTANTS
  Codes <- MCCodes
  Origins <- MCOrigins
  Fill = 18
INVARIANTS
  TypeOK
  RoundTrip
  OneReading
  ExemplarsDecode
  CallbackAgrees
  TimingAgrees
PROPERTY
  ImplementsSweep
