CONSTANTS
  r1 = r1
  r2 = r2
  i1 = i1
  i2 = i2
  i3 = i3
  spaceA = spaceA
  dA = dA
  dB = dB
  dC = dC
  b1 = b1
  b2 = b2
  b3 = b3
  b4 = b4
  x1 = x1
  x2 = x2
  x3 = x3
  Nil = Nil
  Requests = {r1}
  Instances = {i1}
  Spaces = {spaceA}
  Types = {"mongodb", "elastic_search", "postgresql"}
  IPs = {}
  Existing <- OneExisting
  Statuses = {"waiting", "complete", "failed"}
  MaxBackups = 0
  Catalog <- OnePlan
  IPWhitelist <- NoIPs
  Ops <- Deprovisioning
  Faults = {"crash"}
  Retries = 0
  Binders = {b1, b2, b3}
  InstanceOf <- TwoOfOne
  Databases = {"admin", "default", "db_1"}
  Default = "default"
  Prefixed = {"db_1"}
  Contents <- AnyContents
  Droppable = {"default"}
  Serial = TRUE
SPECIFICATION BindSpec
SYMMETRY SymmetryBoth
INVARIANTS
  CredentialsWork
  Revoked
  RequestsSucceed
  SameDatabase
