CONSTANTS
  r1 = r1
  r2 = r2
  r3 = r3
  i1 = i1
  i2 = i2
  i3 = i3
  spaceA = spaceA
  spaceB = spaceB
  dA = dA
  dB = dB
  Nil = Nil
  Requests = {r1, r2, r3}
  Instances = {i1, i2}
  Spaces = {spaceA}
  Types = {"mongodb", "elastic_search"}
  IPs = {}
  Existing <- OneExisting
  Statuses = {"waiting", "stalled", "complete", "failed"}
  MaxBackups = 0
  Catalog <- TwoPlans
  IPWhitelist <- NoIPs
  Ops <- RetireThenPoll
  Faults = {"again", "panic", "crash"}
  Retries = 1
SPECIFICATION Spec
INVARIANTS
  SucceededMeansDone
  GoneMeansGone
  TouchesOnlyNamed
