CONSTANTS
  l1 = l1
  l2 = l2
  l3 = l3
  p1 = p1
  p2 = p2
  Label = {l1, l2}
  Port = {p1, p2}
  PortOf <- MCPortOf
  Udp = {l1, l2}
  Knob = {k1, k2}
  Task = {t1, t2, t3}
  MaxEdits = 2
  MaxPanics = 1
  NoTask = NoTask
  NoLabel = NoLabel
  NoKnob = NoKnob
  Broken = Broken
SPECIFICATION FairSpec
CHECK_DEADLOCK FALSE
INVARIANTS AppliedTogether NoOrphanTask RebindFindsPortFree
PROPERTIES EverySaveApplied ShutdownCompletes
