SPECIFICATION Spec
CONSTANTS
  A = A
  B = B
  none = none
  Names <- MCNames
  Values <- MCValues
  NoName <- MCNoName
  NoValue <- MCNoValue
  Builds <- MCBuilds
INVARIANTS
  
  DiscriminatorsTell
  OneKeyPerType
  SharedModuleFits
  OpenApiNamesResolve
\* A build ends with its last callsite.
CHECK_DEADLOCK FALSE
