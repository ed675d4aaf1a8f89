SPECIFICATION FairSpec
CONSTANTS
  Cpus <- MCCpus
  Codes <- MCCodes
  Origins <- MCOrigins
  Rows <- MCRows
INVARIANT
  ByteExact
