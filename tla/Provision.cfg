CONSTANTS
  r1 = r1
  r2 = r2
  r3 = r3
  i1 = i1
  i2 = i2
  i3 = i3
  spaceA = spaceA
  spaceB = spaceB
  dA = dA
  dB = dB
  Nil = Nil
  Requests = {r1, r2, r3}
  Instances = {i1}
  Spaces = {spaceA}
  Types = {"mongodb", "elastic_search"}
  IPs = {"1.1.1.1", "2.2.2.2"}
  Existing <- NoneExisting
  Statuses = {"waiting", "complete", "failed"}
  MaxBackups = 0
  Catalog <- OnePlan
  IPWhitelist <- TwoIPs
  Ops <- ProvisionThenPoll
  Faults = {"again", "panic", "crash"}
  Retries = 1
SPECIFICATION Spec
SYMMETRY PollSymmetry
INVARIANTS
  AcceptedCoversWhitelist
  SucceededMeansDone
  NoSilentLeak
  VerdictsAgree
PROPERTIES
  ImplementsOperation
