------------------------------- MODULE Monitor -------------------------------
(***************************************************************************)
(* The active monitor of one TCP forwarder's target (monitor.rs) and the   *)
(* traffic that shares its evidence (proxy_connection and stats.rs).       *)
(*                                                                         *)
(* The monitor waits for a tick or a kick, probes (or skips the probe when *)
(* traffic just proved the target reachable) and keeps the outage that the *)
(* alerts are about.  Connections resolve, observe the answer, connect and *)
(* leave their outcome in the stats.  Time is in seconds, kept as capped   *)
(* ages; an outcome that never happened has the largest age.               *)
(*                                                                         *)
(* alerts, dnsAlerts and quiet are history: alerts raised less recoveries, *)
(* DNS alerts raised, and the time since the monitor last saw the target   *)
(* reachable.                                                              *)
(***************************************************************************)
EXTENDS Integers

CONSTANTS Answer,        \* address sets the resolver may return
          Conn,          \* connections in progress at once
          Interval,      \* probe_interval
          DownInterval,  \* DOWN_PROBE_INTERVAL
          KickSpacing,   \* KICK_MIN_SPACING
          Thresholds,    \* values unreachable_after takes across reloads
          MaxAge,        \* cap on ages
          MaxChanges,    \* bound: changes of the DNS answer
          NoAnswer

ASSUME MonitorAssumption ==
  /\ Interval \in Nat \ {0} /\ DownInterval \in Nat \ {0}
  /\ KickSpacing \in Nat /\ MaxAge \in Nat /\ MaxChanges \in Nat
  /\ Thresholds \subseteq 0..MaxAge /\ Thresholds # {}
  /\ Interval <= MaxAge /\ DownInterval <= MaxAge /\ KickSpacing <= MaxAge
  /\ NoAnswer \notin Answer

VARIABLES target,      \* what the target does with a connection now
          dns,         \* what the resolver answers now
          threshold,   \* knobs.unreachable_after
          cancelled,   \* the forwarder's token
          pc,          \* where run_monitor stands
          waited,      \* time spent in wait_for_tick
          sinceProbe,  \* age of last_probe, up to KickSpacing
          found,       \* the answer a probe resolved
          outage, downAge,   \* Option<Downtime>
          gauge,       \* target_state
          okAge,       \* age of last_connect_ok_ms
          kick,        \* the permit of probe_kick
          lastAddrs,   \* last_addrs
          conn,        \* proxy_connection tasks
          alerts, dnsAlerts, changes, quiet

world == <<target, dns, threshold, cancelled, changes>>
clock == <<waited, sinceProbe>>
evidence == <<okAge, kick>>
verdict == <<outage, downAge, gauge, alerts, quiet>>
names == <<lastAddrs, dnsAlerts>>
tcpVars == <<world, clock, evidence, verdict, names, pc, found, conn>>

Targets == {"up", "down", "unresolved"}
MonitorPcs == {"wait", "spacing", "tick", "resolve", "connect", "sample", "stopped"}

Later(age) == IF age < MaxAge THEN age + 1 ELSE age
AtMost(a, b) == IF a < b THEN a ELSE b

TcpInit ==
  /\ target \in Targets /\ dns \in Answer /\ threshold \in Thresholds
  /\ cancelled = FALSE /\ changes = 0
  /\ pc = "tick" /\ waited = 0 /\ sinceProbe = KickSpacing /\ found = NoAnswer
  /\ outage = "none" /\ downAge = 0 /\ gauge = "unknown" /\ alerts = 0
  /\ quiet = 0
  /\ okAge = MaxAge /\ kick = FALSE
  /\ lastAddrs = NoAnswer /\ dnsAlerts = 0
  /\ conn = [c \in Conn |-> "idle"]

-----------------------------------------------------------------------------
(* Evidence shared through ForwarderStats.                                 *)

ObserveAddrsOnce(a) ==
  /\ lastAddrs' = IF lastAddrs = NoAnswer THEN a ELSE lastAddrs
  /\ UNCHANGED dnsAlerts

\* observe_addrs and the DnsChanged alert of whoever called it.
ObserveAddrs(a) ==
  /\ lastAddrs' = a
  /\ dnsAlerts' = IF lastAddrs \in {NoAnswer, a} THEN dnsAlerts ELSE dnsAlerts + 1

\* record_up: the outage, if any, is over; an alerted one is reported.
RecordUp ==
  /\ gauge' = "up" /\ quiet' = 0
  /\ alerts' = IF outage = "alerted" THEN alerts - 1 ELSE alerts
  /\ outage' = "none" /\ downAge' = 0

RecordDownAgain ==
  LET age == IF outage = "none" THEN 0 ELSE downAge
  IN  /\ gauge' = "down" /\ downAge' = age
      /\ outage' = IF age >= threshold THEN "alerted" ELSE "watching"
      /\ alerts' = IF age >= threshold THEN alerts + 1 ELSE alerts
      /\ UNCHANGED quiet

RecordDownRestarts ==
  /\ gauge' = "down" /\ downAge' = 0
  /\ IF outage # "alerted" /\ 0 >= threshold
       THEN outage' = "alerted" /\ alerts' = alerts + 1
       ELSE /\ outage' = IF outage = "none" THEN "watching" ELSE outage
            /\ UNCHANGED alerts
  /\ UNCHANGED quiet

RecordDownEarly ==
  LET age == IF outage = "none" THEN 0 ELSE downAge
  IN  /\ gauge' = "down" /\ downAge' = age
      /\ IF outage # "alerted" /\ age + 1 >= threshold
           THEN outage' = "alerted" /\ alerts' = alerts + 1
           ELSE /\ outage' = IF outage = "none" THEN "watching" ELSE outage
                /\ UNCHANGED alerts
      /\ UNCHANGED quiet

\* record_down: an outage starts or goes on, and is alerted once it has
\* lasted unreachable_after.
RecordDown ==
  LET age == IF outage = "none" THEN 0 ELSE downAge
  IN  /\ gauge' = "down" /\ downAge' = age
      /\ IF outage # "alerted" /\ age >= threshold
           THEN outage' = "alerted" /\ alerts' = alerts + 1
           ELSE /\ outage' = IF outage = "none" THEN "watching" ELSE outage
                /\ UNCHANGED alerts
      /\ UNCHANGED quiet

-----------------------------------------------------------------------------
(* run_monitor.                                                            *)

Wait == IF outage = "none" THEN Interval ELSE AtMost(Interval, DownInterval)

\* wait_for_tick: the sleep is over.  It is polled before the kick.
WaitEnds ==
  /\ pc = "wait" /\ ~cancelled /\ waited >= Wait
  /\ pc' = "tick" /\ waited' = 0
  /\ UNCHANGED <<world, sinceProbe, evidence, verdict, names, found, conn>>

\* wait_for_tick: a connection failed.
Kicked ==
  /\ pc = "wait" /\ ~cancelled /\ waited < Wait /\ kick
  /\ kick' = FALSE /\ waited' = 0
  /\ pc' = IF sinceProbe < KickSpacing THEN "spacing" ELSE "tick"
  /\ UNCHANGED <<world, sinceProbe, okAge, verdict, names, found, conn>>

SpacingEnds ==
  /\ pc = "spacing" /\ sinceProbe >= KickSpacing
  /\ pc' = "tick"
  /\ UNCHANGED <<world, clock, evidence, verdict, names, found, conn>>

\* The loop goes back to wait_for_tick.
Waits == pc' = "wait" /\ waited' = 0 /\ found' = NoAnswer

RecentOk == okAge < Interval /\ outage = "none"

\* Traffic succeeded within the interval: no probe, the target is up.
SkipProbe ==
  /\ pc = "tick" /\ ~cancelled /\ RecentOk
  /\ sinceProbe' = 0
  /\ RecordUp
  /\ Waits
  /\ UNCHANGED <<world, evidence, names, conn>>

BeginProbe ==
  /\ pc = "tick" /\ ~cancelled /\ ~RecentOk
  /\ sinceProbe' = 0
  /\ pc' = "resolve"
  /\ UNCHANGED <<world, waited, evidence, verdict, names, found, conn>>

\* probe_target: resolve_targets answers.
ProbeResolves ==
  /\ pc = "resolve" /\ target # "unresolved"
  /\ found' = dns /\ pc' = "connect"
  /\ UNCHANGED <<world, clock, evidence, verdict, names, conn>>

\* probe_target: the lookup fails or times out.
ProbeUnresolved ==
  /\ pc = "resolve" /\ target = "unresolved"
  /\ RecordDown
  /\ Waits
  /\ UNCHANGED <<world, sinceProbe, evidence, names, conn>>

\* probe_target connects; the addresses are reported only now.
ProbeConnects ==
  /\ pc = "connect"
  /\ ObserveAddrs(found)
  /\ IF target = "up" THEN RecordUp ELSE RecordDown
  /\ Waits
  /\ UNCHANGED <<world, sinceProbe, evidence, conn>>

\* The token, seen at an await or at the top of the loop; or stop_one's abort.
Stop ==
  /\ pc # "stopped" /\ cancelled
  /\ pc' = "stopped"
  /\ UNCHANGED <<world, clock, evidence, verdict, names, found, conn>>

MonitorTask ==
  \/ WaitEnds \/ Kicked \/ SpacingEnds \/ SkipProbe \/ BeginProbe
  \/ ProbeResolves \/ ProbeUnresolved \/ ProbeConnects \/ Stop

-----------------------------------------------------------------------------
(* proxy_connection, as far as the stats see it.                           *)

\* The lookup fails: mark_connect_failed.
ConnUnresolved(c) ==
  /\ conn[c] = "idle" /\ ~cancelled /\ target = "unresolved"
  /\ kick' = TRUE
  /\ UNCHANGED <<world, clock, okAge, verdict, names, pc, found, conn>>

\* The lookup answers and the answer is observed at once.
ConnResolves(c) ==
  /\ conn[c] = "idle" /\ ~cancelled /\ target # "unresolved"
  /\ ObserveAddrs(dns)
  /\ conn' = [conn EXCEPT ![c] = "connecting"]
  /\ UNCHANGED <<world, clock, evidence, verdict, pc, found>>

\* connect_racing returns: mark_connect_ok or mark_connect_failed.
ConnConnects(c) ==
  /\ conn[c] = "connecting"
  /\ conn' = [conn EXCEPT ![c] = "idle"]
  /\ IF target = "up" THEN okAge' = 0 /\ UNCHANGED kick
                      ELSE kick' = TRUE /\ UNCHANGED okAge
  /\ UNCHANGED <<world, clock, verdict, names, pc, found>>

Connection(c) == ConnUnresolved(c) \/ ConnResolves(c) \/ ConnConnects(c)

-----------------------------------------------------------------------------
(* The world.                                                              *)

TargetChanges(t) ==
  /\ target # t /\ target' = t
  /\ UNCHANGED <<dns, threshold, cancelled, changes, clock, evidence, verdict,
                 names, pc, found, conn>>

DnsChanges(a) ==
  /\ dns # a /\ changes < MaxChanges
  /\ dns' = a /\ changes' = changes + 1
  /\ UNCHANGED <<target, threshold, cancelled, clock, evidence, verdict, names,
                 pc, found, conn>>

\* A hot reload of unreachable_after_secs.
ReloadThreshold(t) ==
  /\ threshold # t /\ threshold' = t
  /\ UNCHANGED <<target, dns, cancelled, changes, clock, evidence, verdict, names,
                 pc, found, conn>>

\* stop_one or shutdown_all.
Cancel ==
  /\ ~cancelled /\ cancelled' = TRUE
  /\ UNCHANGED <<target, dns, threshold, changes, clock, evidence, verdict,
                 names, pc, found, conn>>

\* One second passes.
ClockTick ==
  /\ waited' = IF pc = "wait" THEN Later(waited) ELSE waited
  /\ sinceProbe' = AtMost(KickSpacing, sinceProbe + 1)
  /\ okAge' = Later(okAge) /\ quiet' = Later(quiet)
  /\ downAge' = IF outage = "none" THEN 0 ELSE Later(downAge)
  /\ UNCHANGED <<world, kick, outage, gauge, alerts, names, pc, found, conn>>

Environment ==
  \/ \E t \in Targets : TargetChanges(t)
  \/ \E a \in Answer : DnsChanges(a)
  \/ \E t \in Thresholds : ReloadThreshold(t)
  \/ Cancel \/ ClockTick

TcpNext == MonitorTask \/ (\E c \in Conn : Connection(c)) \/ Environment

TcpSpec == TcpInit /\ [][TcpNext]_tcpVars

-----------------------------------------------------------------------------
(* What monitoring promises.                                               *)

\* The types; a probe that connects has resolved an answer.
MonitorTypeOK ==
  /\ target \in Targets /\ dns \in Answer /\ threshold \in Thresholds
  /\ cancelled \in BOOLEAN /\ changes \in 0..MaxChanges
  /\ pc \in MonitorPcs /\ waited \in 0..MaxAge /\ sinceProbe \in 0..KickSpacing
  /\ found \in Answer \cup {NoAnswer}
  /\ pc = "connect" => found \in Answer
  /\ outage \in {"none", "watching", "alerted"} /\ downAge \in 0..MaxAge
  /\ gauge \in {"unknown", "up", "down"}
  /\ okAge \in 0..MaxAge /\ quiet \in 0..MaxAge /\ kick \in BOOLEAN
  /\ lastAddrs \in Answer \cup {NoAnswer}
  /\ conn \in [Conn -> {"idle", "connecting"}]
  /\ alerts \in Nat /\ dnsAlerts \in Nat

\* TargetUnreachable is sent once per outage and TargetRecovered once for it:
\* an alert is open exactly while the outage it announced lasts.
AlertsAlternate == alerts = IF outage = "alerted" THEN 1 ELSE 0

\* The gauge /metrics shows and the outage the alerts follow never disagree.
GaugeFollowsOutage == (gauge = "down") = (outage # "none")

\* TargetUnreachable needs unreachable_after without a sign of life: neither a
\* probe nor a skipped one saw the target reachable for that long.
NoFalseAlarm == [][alerts' > alerts => quiet >= threshold]_tcpVars

\* Once the DNS answer settles (it changes at most MaxChanges times), the recorded
\* set settles on it, although a probe reports addresses it resolved before it
\* connected.
DnsSettles == <>[](target # "unresolved" /\ ~cancelled) => <>[](lastAddrs = dns)

\* last_addrs is shared "so a DNS change is reported exactly once" (stats.rs).
\* Violated: a probe holds its answer while it connects; a connection that
\* reports the new answer meanwhile is followed by a report of the old one.
DnsReportedOnce == dnsAlerts <= changes
=============================================================================
