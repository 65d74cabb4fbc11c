CONSTANTS
  r1 = r1
  r2 = r2
  r3 = r3
  i1 = i1
  i2 = i2
  i3 = i3
  spaceA = spaceA
  spaceB = spaceB
  dA = dA
  dB = dB
  Nil = Nil
  Requests = {r1, r2}
  Instances = {i1, i2}
  Spaces = {spaceA, spaceB}
  Types = {"mongodb", "elastic_search"}
  IPs = {}
  Existing <- OneExisting
  Statuses = {"waiting", "complete", "failed"}
  MaxBackups = 2
  Catalog <- TwoServices
  IPWhitelist <- NoIPs
  Ops <- RestoreOps
  Faults = {"blank"}
  Retries = 0
SPECIFICATION Spec
SYMMETRY Symmetry
INVARIANTS
  TypeOK
  OnlyOwnData
  OnlyWantedType
  FreshSnapshot
  TouchesOnlyNamed
  ChoosesNewest
