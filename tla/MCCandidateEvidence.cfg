SPECIFICATION Spec
CONSTANTS
  Threshold = 2
  BaseCooldown = 1
  MaxCooldown = 3
  MaxOpens = 3
  FailureCap = 3
  MaxSamples = 6
  TTL = 3
  MaxLatency = 4
  Latencies = {0, 2, 4}
  None = None
  k1 = k1
  Candidates = {k1}
INVARIANTS TypeOK CountsAgree RestoredUnchanged
PROPERTIES ImplementsCircuit
