SPECIFICATION FairSpec
CONSTANTS
  swift = swift
  patient = patient
  Clients <- MCClients
  Timed <- MCTimed
  MaxCalls = 2
  MaxSockets = 2
INVARIANTS
  AnswersOwnCall
PROPERTIES
  ForgottenOnlyByClose
  ReplySettles
  TimedCallSettles
\* Every call may have been made and settled, and the sockets used up.
CHECK_DEADLOCK FALSE
