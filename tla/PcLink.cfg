CONSTANTS
  Modes = {TRUE, FALSE}
  MaxRetries = 3
  MaxPolls = 2
  MaxErrors = 2
  MaxCommands = 2
  MaxEvents = 2
  MaxFaults = 1
  MaxLate = 1
  Backlog = 1
SPECIFICATION FairSpec
CHECK_DEADLOCK FALSE
INVARIANT TypeOK
INVARIANT RepliesMatch
INVARIANT EventsKept
PROPERTY CommandsEnd
PROPERTY EventsArrive
