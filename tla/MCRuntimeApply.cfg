SPECIFICATION FairSpec
CONSTANTS
  a = a
  b = b
  full = full
  rerouted = rerouted
  reduced = reduced
  r1 = r1
  r2 = r2
  None = None
  Channels <- TwoChannels
  Configs <- ThreeConfigs
  Releases <- TwoReleases
  ReleaseOf <- ModelReleaseOf
  EnabledIn <- ModelEnabledIn
INVARIANTS OneConfigurationServed QuietSwitch OneReleaseRuns
PROPERTIES ImplementsSwitchover AnswersTruly ApplyEnds
