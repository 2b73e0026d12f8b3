------------------------------ MODULE FdLimits ------------------------------
(***************************************************************************)
(* The open-file limit at startup: raise_soft_limit (src/src/fdlimit.rs)   *)
(* and then, when a UDP forwarder is configured, ensure_fd_budget          *)
(* (src/src/udp.rs).  A limit is [soft, hard]; the system's part is one of *)
(* "unreadable" (getrlimit fails), "refused" (setrlimit fails), "granted". *)
(***************************************************************************)
EXTENDS Naturals

CONSTANT MaxU64  \* u64::MAX, which is also RLIM_INFINITY

ASSUME WidthAssumption == MaxU64 \in Nat /\ MaxU64 >= 512

SOFT_LIMIT_CAP == 1048576
BASE_FDS       == 128
FD_HEADROOM    == 256

Least(a, b) == IF a < b THEN a ELSE b

saturating_mul(a, k) == IF a > MaxU64 \div k THEN MaxU64 ELSE a * k
saturating_add(a, b) == IF a > MaxU64 - b THEN MaxU64 ELSE a + b

\* What max_connections can need: two sockets each, and two pipes when splicing.
fds_for(max_connections, splice) ==
  saturating_add(saturating_mul(max_connections, IF splice THEN 6 ELSE 2), BASE_FDS)

\* The soft limit plan asks for: the hard one up to the cap, never a lower one.
plan(rl) == LET target == Least(rl.hard, SOFT_LIMIT_CAP)
            IN  IF target > rl.soft THEN target ELSE rl.soft

\* The limit after raise_soft_limit, and whether it warned that max_connections
\* may not fit.
raise_soft_limit(rl, os, max_connections, splice) ==
  LET soft == IF os = "granted" THEN plan(rl) ELSE rl.soft
  IN  [rl   |-> [rl EXCEPT !.soft = soft],
       warn |-> os # "unreadable" /\ \E max \in max_connections : soft < fds_for(max, splice)]

\* Slip: a successful setrlimit counts as room enough.
ensure_fd_budgetTrusting(rl, os, udp_max_sessions) ==
  LET needed == udp_max_sessions + FD_HEADROOM
      raise  == rl.soft < needed /\ rl.hard > rl.soft /\ os = "granted"
  IN  [rl   |-> [rl EXCEPT !.soft = IF raise THEN Least(rl.hard, needed) ELSE @],
       warn |-> os # "unreadable" /\ rl.soft < needed /\ ~raise]

\* fd_plan, and the limit after ensure_fd_budget with its warning.
ensure_fd_budget(rl, os, udp_max_sessions) ==
  LET needed == udp_max_sessions + FD_HEADROOM
      to     == Least(rl.hard, needed)
      raise  == rl.soft < needed /\ rl.hard > rl.soft /\ os = "granted"
      soft   == IF raise THEN to ELSE rl.soft
  IN  [rl   |-> [rl EXCEPT !.soft = soft],
       warn |-> os # "unreadable" /\ soft < needed]
=============================================================================
