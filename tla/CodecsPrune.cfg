CONSTANTS
  Two8 = 2
  Two16 = 4
  Two32 = 8
  Two64 = 64
  Safe = 13
  Radix = 4
  Inputs <- MCInputs
SPECIFICATION Spec
CHECK_DEADLOCK FALSE
INVARIANT
  DeclaredSurvivesPruning
