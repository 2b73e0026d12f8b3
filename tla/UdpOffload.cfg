SPECIFICATION OffloadSpec
CONSTANTS
  Session = {s1, s2}
  Bursts <- MCBursts
  MAX_GSO_SEGMENTS = 2
  GSO_MAX_PAYLOAD = 5
  GRO_BUF_BYTES = 8
  MaxBusy = 2
SYMMETRY Symmetry
INVARIANTS WholeInOrder EveryDatagramCounted
