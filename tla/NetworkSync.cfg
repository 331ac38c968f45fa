CONSTANTS
  owner = owner
  member = member
  desk = desk
  laptop = laptop
  Machines = {desk, laptop}
  Tasks = {t1}
  Users = {owner, member}
  Networks = {n1}
  Owner <- OneOwner
  Home <- OwnMachine
  None = None
  Syncing = {desk}
  MaxFaults = 1
  MaxKeys = 2
  MaxHik <- LaptopRotates
  MaxVersion = 2
SPECIFICATION FairSpec
INVARIANTS
  OneKeyUnlessDisturbed
PROPERTIES
  MembersAreServed
