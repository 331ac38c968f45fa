CONSTANTS
  owner = owner
  member = member
  desk = desk
  laptop = laptop
  Machines = {desk}
  Tasks = {t1, t2}
  Users = {owner, member}
  Networks = {n1}
  Owner <- OneOwner
  Home <- SharedMachine
  None = None
  Syncing = {desk}
  MaxFaults = 1
  MaxKeys = 2
  MaxHik <- EachRotates
  MaxVersion = 1
SPECIFICATION Spec
SYMMETRY Symmetry
INVARIANTS
  TypeOK
  KeysFromOwner
  OnlyMembersGetKeys
  OneKeyUnlessDisturbed
