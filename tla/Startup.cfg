CONSTANTS
  p1 = p1
  p2 = p2
  i1 = i1
  None = None
  Processes = {p1, p2}
  Instances = {i1}
  Environments <- AllEnvironments
  Trimmed <- Prefixes
  Fields <- Parts
  AccountOf <- Keys
  NameOf <- Names
  MaxChanges = 2
SPECIFICATION FairStartSpec
INVARIANTS
  StartTypeOK
  PlacedAsConfigured
  NothingOrphaned
PROPERTIES
  ComesUp
