SPECIFICATION FairSpec
CONSTANTS
  Codes <- ExemplarsZ8000
  Origins <- MCOrigins
  Fill = 18
INVARIANT ByteExact
