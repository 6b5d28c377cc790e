SPECIFICATION Spec
CONSTANTS
  Requests <- MCRequests
  MaxChunks <- MCMaxChunks
INVARIANTS
  TypeOK
  NoLostWakeup
  InOrderOnce
  NoSilentSuccess
  NoWaiterLeft
  CutStreamIsNotEnded
PROPERTY
  ImplementsCall
\* A call comes to rest when it is over, and one whose writing task waits
\* for a drain that never comes rests too: DeadlineEndsCall is about that.
CHECK_DEADLOCK FALSE
