CONSTANTS
  i1 = i1
  i2 = i2
  spaceA = spaceA
  x1 = x1
  x2 = x2
  r1 = r1
  r2 = r2
  r3 = r3
  r4 = r4
  r5 = r5
  r6 = r6
  b1 = b1
  b2 = b2
  b3 = b3
  Nil = Nil
  Requests = {r1, r2, r3, r4, r5, r6}
  Instances = {i1, i2}
  Spaces = {spaceA}
  Types = {"mongodb", "elastic_search"}
  IPs = {}
  Existing <- NoneExisting
  Statuses = {"waiting", "complete", "failed"}
  MaxBackups = 0
  Catalog <- OnePlan
  IPWhitelist <- NoIPs
  Ops <- AnyOp
  Faults = {}
  Retries = 0
  Binders = {b1, b2}
  InstanceOf <- BothInstances
  Databases = {"admin", "default"}
  Default = "default"
  Prefixed = {}
  Contents <- FreshContents
  Droppable = {"default"}
  Serial = TRUE
  Scripts <- Binding
SPECIFICATION LifeSpec
INVARIANTS
  DeprovisionRemoves
CHECK_DEADLOCK FALSE
