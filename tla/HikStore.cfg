CONSTANTS
  None = None
  MaxMade = 5
  MaxFaults = 3
SPECIFICATION Spec
INVARIANTS
  TypeOK
  RestartKeepsIdentity
  VersionNotAhead
PROPERTY RefinesFreshIdentity
