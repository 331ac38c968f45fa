CONSTANTS
  Attempts = {a1, a2}
  Sessions = {s1, s2, s3}
  Users = {u1, u2}
  None = None
  BrokerFaults = TRUE
  MaxPolls = 2
SPECIFICATION Spec
INVARIANTS
  TypeOK
  ListeningHasOwner
PROPERTIES
  LogsInWhoLinked
  RefinesSingleFlight
