\* Two sends and a provider with tokens of 0 or 2 ticks, stated or taken to
\* be 3, kept until 1 before their end; bodies of up to five items in chunks of up to 3 cells.
\* A program stops when its calls are settled and the clock is at its end.
SPECIFICATION Spec
CONSTANTS
  prompt = prompt
  plain = plain
  Calls <- CallSet
  Programs <- ProgramSet
  Items <- ItemSet
  Timed = {prompt}
  Abortable = {prompt}
  Retried = {prompt}
  Margin = 1
  AssumedLife = 3
  Lifetimes = {0, 2}
  MaxIssued = 2
  MaxTime = 2
  MaxChunk = 3
INVARIANTS
  CachedTokensLast
  RefreshTokenIsKept
  ItemsAreWhole
PROPERTIES
  TimedCallsEnd
CHECK_DEADLOCK FALSE
