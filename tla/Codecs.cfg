CONSTANTS
  Two8 = 2
  Two16 = 4
  Two32 = 8
  Two64 = 64
  Safe = 13
  Radix = 4
  Inputs <- MCInputs
SPECIFICATION Spec
\* A value that has been read, or that an encoder refused, rests.
CHECK_DEADLOCK FALSE
INVARIANTS
  ProtobufReadersAgree
  
  AvroRoundTrip
  ArrowRoundTrip
  TermsRoundTrip
  JsonRoundTrip
  PruneKeepsDeclared
  ZodAgrees
