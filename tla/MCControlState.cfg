SPECIFICATION StateSpec
CONSTANTS
  Threshold = 1
  BaseCooldown = 1
  MaxCooldown = 1
  MaxOpens = 1
  FailureCap = 1
  c1 = c1
  a1 = a1
  Channels = {c1}
  Candidates = {a1}
  ChannelOf <- ModelChannelOf
  Pools <- ModelPools
  Configs <- ModelConfigs
  Requests = {r1}
  Statuses = {"2xx", "auth", "429"}
  RetryAfters = {1}
  Free = Free
  NoKey = NoKey
  Missing = Missing
  Damaged = Damaged
INVARIANTS CrashLosesNothing
PROPERTIES ImplementsScheduler
