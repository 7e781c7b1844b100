SPECIFICATION FairSpec
CONSTANTS
  Threshold = 1
  BaseCooldown = 1
  MaxCooldown = 1
  MaxOpens = 1
  FailureCap = 1
  c1 = c1
  c2 = c2
  a1 = a1
  b1 = b1
  a2 = a2
  r1 = r1
  r2 = r2
  Channels = {c1, c2}
  Candidates = {a1, a2}
  ChannelOf <- MCChannelOf
  Pools <- TwoChannelPools
  Configs <- ServingConfigs
  Requests = {r1, r2}
  Statuses = {"5xx"}
  RetryAfters = {0}
  Free = Free
  NoKey = NoKey
INVARIANTS LeaseMatchesRequest
PROPERTIES HalfOpenTrialEnds DrainQuiesces
