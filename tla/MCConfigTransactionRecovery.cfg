\* Once the recovery snapshot is damaged the system really stops.
SPECIFICATION Spec
CONSTANTS
  Contents <- MCContents
  Snapshots <- MCSnapshots
  Valid <- MCValid
  Absent = "absent"
  None = None
CHECK_DEADLOCK FALSE
INVARIANT RecoveryPossible
