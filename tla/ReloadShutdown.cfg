CONSTANTS
  l1 = l1
  l2 = l2
  l3 = l3
  p1 = p1
  p2 = p2
  Label = {l1, l2, l3}
  Port = {p1, p2}
  PortOf <- MCPortOf
  Udp = {l1, l2}
  Knob = {k1}
  Task = {t1, t2, t3, t4}
  MaxEdits = 1
  MaxPanics = 0
  NoTask = NoTask
  NoLabel = NoLabel
  NoKnob = NoKnob
  Broken = Broken
SPECIFICATION Spec
CHECK_DEADLOCK FALSE
INVARIANTS ShutdownStopsAll
