----------------------------- MODULE MCNotifier -----------------------------
(* The notifier with two throttle keys of different windows.               *)
EXTENDS Notifier, TLC

CONSTANTS k1, k2

MCWindow == [k \in Key |-> IF k = k1 THEN 1 ELSE 2]
=============================================================================
