SPECIFICATION Spec
CONSTANTS
  swift = swift
  patient = patient
  Clients <- MCClients
  Timed <- MCTimed
  MaxCalls = 2
  MaxConns = 2
  MaxEvents = 3
INVARIANTS
  AnswersOwnCall
  RepliesAreReassembled
  OnlyCutRequestsAreUnread
\* Every call may have been made and settled, and the connections used up.
CHECK_DEADLOCK FALSE
