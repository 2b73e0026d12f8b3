SPECIFICATION TcpSpec
CONSTANTS
  Answer = {a1, a2}
  Conn = {c1}
  Interval = 2
  DownInterval = 1
  KickSpacing = 1
  Thresholds = {2}
  MaxAge = 2
  MaxChanges = 1
  NoAnswer = none
INVARIANTS DnsReportedOnce
