SPECIFICATION FairSpec
CONSTANTS
  Conn = {c1, c2}
  Generations = 2
  Limit = 2
  MaxOthers = 1
INVARIANTS SlotsConserved DrainMissesNone
PROPERTIES ImplementsPool QueueServed PortReclaimed ShutdownCompletes
CHECK_DEADLOCK FALSE
