CONSTANTS
  Client = {c1}
  Addr = {a1, a2}
  Sess = {s1, s2}
  MaxSessions = 1
  Timeouts = {1, 2}
  MaxAge = 2
  NoClient = NoClient
  NoAddr = NoAddr
  NoSession = NoSession
SPECIFICATION FairSpec
INVARIANTS SlotsConserved MapMatchesTasks RetiredAddressClosed ReturnReleasesAll
PROPERTIES SessionsEnd StopCompletes
