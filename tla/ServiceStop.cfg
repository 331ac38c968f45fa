CONSTANTS
  poll = poll
  user = user
  Commands = {poll, user}
  Loops = {"heartbeat"}
  Asks <- MCAsks
  None = None
  MaxTries = 1
  MaxHung = 0
  PipeFaults = FALSE
SPECIFICATION FairSpec
PROPERTIES
  ServiceStops
CHECK_DEADLOCK FALSE
