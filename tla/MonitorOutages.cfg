SPECIFICATION MonitorSpec
CONSTANTS
  Answer = {a1, a2}
  Conn = {c1}
  Interval = 2
  DownInterval = 1
  KickSpacing = 1
  Thresholds = {1, 2}
  MaxAge = 2
  MaxChanges = 1
  NoAnswer = none
  Quiet = 2
  Throttle = 2
  KeptOrder <- ProgramOrder
INVARIANTS AlertsAlternate
PROPERTIES NoFalseAlarm RecoveryNeedsEvidence TargetFollowed DnsSettles
