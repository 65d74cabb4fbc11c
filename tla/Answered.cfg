CONSTANTS
  r1 = r1
  r2 = r2
  r3 = r3
  i1 = i1
  i2 = i2
  i3 = i3
  spaceA = spaceA
  spaceB = spaceB
  dA = dA
  dB = dB
  Nil = Nil
  Requests = {r1, r2}
  Instances = {i1, i2}
  Spaces = {spaceA}
  Types = {"mongodb", "elastic_search"}
  IPs = {"1.1.1.1"}
  Existing <- OneExisting
  Statuses = {"waiting", "complete", "failed"}
  MaxBackups = 1
  Catalog <- OnePlan
  IPWhitelist <- OneIP
  Ops <- ChangeThenPoll
  Faults = {"again", "blank", "panic", "crash"}
  Retries = 1
SPECIFICATION FairSpec
INVARIANTS
  AcceptedCoversWhitelist
  NoSilentLeak
PROPERTIES
  EveryRequestAnswered
