SPECIFICATION Spec
CONSTANTS
  Jobs = {j1, j2, j3, j4}
  MaxQueued = 2
  NoJob = NoJob
  None = None
  x = x
  y = y
  Contents = {x, y}
  Releases = {x, y}
  ReleaseOf <- ModelReleaseOf
  Revs = {r1, r2, r3}
  Keeps = {1}
  KeepExtra = 0
SYMMETRY Symmetry
INVARIANTS HistoryIntact RunningReleaseKept LoadedIsServed
PROPERTIES ImplementsSwitchover OverwritesAreRecorded ImplementsJobLine
