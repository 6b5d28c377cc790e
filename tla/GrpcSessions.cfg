SPECIFICATION Spec
CONSTANTS
  here = here
  there = there
  Origins <- MCOrigins
  MaxSessions <- MCMaxSessions
INVARIANT
  LiveIsPooledOrEvicted
