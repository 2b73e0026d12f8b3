SPECIFICATION Spec
CONSTANTS
  MaxPort = 6
  MaxRangePorts = 3
  MaxU64 = 2147483647
  Starts <- MCStarts
  Edits <- MCEdits
  MaxEdits = 2
INVARIANTS RunsWhatIsListed OverridesSurvive SnapshotUsable ClampAgrees
PROPERTIES LimitsSound
