SPECIFICATION Spec
CONSTANTS
  LiquidityPct = 15
  VolumePct = 20
  ScoreStep = 5
  HolderPct = 20
  Slots = {s1, s2}
  Snapshots <- MCSnapshots
  MaxRuns = 3
CHECK_DEADLOCK FALSE
INVARIANTS TypeOK AnnouncedBeforeAdopted CountsFollowEvents
PROPERTIES DeltaLeadsToSnapshot
