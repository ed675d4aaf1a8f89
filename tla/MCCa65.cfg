SPECIFICATION FairSpec
CONSTANTS
  Cpus <- MCCpus
  Codes <- MCCodes
  Origins <- MCOrigins
  Rows <- MCRows
INVARIANTS
  TypeOK
  RoundTrip
  OneText
  Longest
PROPERTY
  ImplementsSweep
