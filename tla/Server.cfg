CONSTANTS
  poll = poll
  user = user
  Commands = {poll, user}
  Loops = {"rotation"}
  Asks <- MCAsks
  None = None
  MaxTries = 2
  MaxHung = 1
  PipeFaults = TRUE
SPECIFICATION PollingSpec
INVARIANTS
  TypeOK
  AtMostOneMore
  NoGuardWaits
PROPERTIES
  CommandsEnd
  StopEnds
CHECK_DEADLOCK FALSE
