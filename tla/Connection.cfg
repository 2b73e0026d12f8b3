SPECIFICATION ConnSpec
CONSTANTS
  Want = 2
  MinUseful = 2
  Granted = {1, 3}
  BufCap = 2
  MaxBytes = 3
  Delay = 1
  Timeout = 3
  MaxAddrs = 3
  Latency = {1, 3, 4}
PROPERTIES FirstAnswerWins DataFlows EndsPropagate
INVARIANTS OneStreamSurvives StreamIntact
CHECK_DEADLOCK FALSE
