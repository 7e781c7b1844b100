SPECIFICATION Spec
CONSTANTS
  Threshold = 2
  BaseCooldown = 1
  MaxCooldown = 2
  MaxOpens = 2
  FailureCap = 2
  c1 = c1
  c2 = c2
  a1 = a1
  b1 = b1
  a2 = a2
  r1 = r1
  r2 = r2
  Channels = {c1}
  Candidates = {a1, b1}
  ChannelOf <- MCChannelOf
  Pools <- TwoModelPools
  Configs <- ModelConfigs
  Requests = {r1, r2}
  Statuses = {"2xx", "auth", "payment", "429", "4xx", "5xx", "other"}
  RetryAfters = {1}
  Free = Free
  NoKey = NoKey
SYMMETRY RequestSymmetry
INVARIANTS HalfOpenBackedByLease StateWithinConfig InFlightStaysTrusted
PROPERTIES FaultsStayUntilCleared
