CONSTANTS
  MaxSessions = 2
  MaxVisits = 2
  MaxOutages = 2
SPECIFICATION QueueSpec
INVARIANT QueuedSessionsAreKept
CHECK_DEADLOCK FALSE
