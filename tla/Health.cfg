SPECIFICATION FairSpec
CONSTANTS
  Label = {l1, l2}
  Probe = {p1}
  Scraper = {s1}
  MaxInFlight = 1
PROPERTIES HealthTellsTruth PermitsComeBack
