----------------------------- MODULE UdpMonitor -----------------------------
(***************************************************************************)
(* run_monitor for either protocol (src/src/monitor.rs).  A TCP forwarder  *)
(* has the active monitor of module Monitor.  A UDP forwarder has          *)
(* run_udp_monitor: the same waits, outage and alerts, but the verdict is  *)
(* passive, drawn from what the sessions left in ForwarderStats            *)
(* (src/src/stats.rs): when the target last replied, when it last drew an  *)
(* ICMP error, and how much was sent to it.                                *)
(*                                                                         *)
(* Sessions run in parallel with each other and with the monitor: a reply  *)
(* is marked by two loads and a store, an ICMP error by two stores and a   *)
(* sample is taken by four loads; the stores become visible, and the loads *)
(* are made, in any order that KeptOrder allows (all are relaxed).  A mark *)
(* takes less than a tick, and so does what the monitor does between two   *)
(* awaits.  okAge is the age of last_connect_ok_ms as in Monitor; answered *)
(* says that it is not older than the ICMP error, which ages past their    *)
(* cap no longer tell.                                                     *)
(***************************************************************************)
EXTENDS Monitor

CONSTANTS
  Quiet,    \* ICMP_QUIET_MS
  Throttle, \* the 100 ms between two records of a reply
  KeptOrder \* pairs of a sample's loads that the machine makes in this order

ASSUME UdpMonitorAssumption == Quiet \in 1 .. MaxAge /\ Throttle \in 1 .. MaxAge

\* The loads of udp_sample as they are written.
ProgramOrder == {<<"ms", "kind">>, <<"ms", "reply">>, <<"ms", "sent">>,
                 <<"kind", "reply">>, <<"kind", "sent">>, <<"reply", "sent">>}

ASSUME KeptOrderAssumption == KeptOrder \subseteq ProgramOrder

VARIABLES
  protocol,  \* cfg.protocol
  icmpAge,   \* age of udp_icmp_error_ms
  icmpSet,   \* which of its two atomics have been stored: "ms", "kind"
  answered,  \* last_connect_ok_ms is not before udp_icmp_error_ms
  prev,      \* the latest UdpSample has the icmp_ms that is stored now
  sentSince, \* the sample finds more datagrams sent than the previous one
  reply,     \* a session that marks a reply, and the last_connect_ok_ms it loaded
  icmp,      \* the stores a session that marks an ICMP error has still to make
  loading,   \* the atomics the sample has still to load
  cur,       \* what it has loaded
  vindicated, replyNow, \* history: a reply came no earlier than the error; in this tick
  overtaken             \* history: what the sample loaded of the error was stored since

evidenceVars == <<icmpAge, icmpSet, answered, sentSince, reply, icmp, vindicated, replyNow>>
sampleVars   == <<prev, loading, cur, overtaken>>
udpVars      == <<protocol, evidenceVars, sampleVars>>
allVars      == <<tcpVars, udpVars>>

NoReply == [pc |-> "idle", last |-> 0]

Sampled == {"ms", "kind", "reply", "sent"}

\* A UdpSample by what udp_verdict asks of it: whether the time and the kind of an
\* error are there, whether the previous sample has that error and it is old, and
\* whether the reply is not older; and whether a reply loaded before the error's
\* time is of this tick.
NoSample == [ms |-> FALSE, kind |-> FALSE, quiet |-> FALSE, answered |-> FALSE, recent |-> FALSE]

MonitorInit ==
  /\ TcpInit
  /\ protocol \in {"tcp", "udp"}
  /\ dns = CHOOSE a \in Answer : TRUE  \* which answer comes first does not matter
  /\ icmpAge = MaxAge /\ icmpSet = {} /\ answered = FALSE /\ prev = FALSE /\ sentSince = FALSE
  /\ reply = NoReply /\ icmp = {} /\ loading = {} /\ cur = NoSample
  /\ vindicated = FALSE /\ replyNow = FALSE /\ overtaken = FALSE

\* The sample may load this atomic next.
Loadable(field) == field \in loading /\ \A f \in loading : <<f, field>> \notin KeptOrder

-----------------------------------------------------------------------------
(* The data path.                                                          *)

\* A session reads a reply and, after the batch, calls mark_connect_ok_at, which
\* first loads the latest recorded reply.  Replies that would change nothing are
\* left out: one is recorded in this tick, or one came and no error since.
DrainReply ==
  /\ reply.pc = "idle" /\ target = "up" /\ ~cancelled
  /\ okAge > 0 /\ (replyNow => icmpAge = 0)
  /\ reply' = [pc |-> "load", last |-> okAge]
  /\ vindicated' = TRUE /\ replyNow' = TRUE
  /\ UNCHANGED <<tcpVars, protocol, sampleVars, icmpAge, icmpSet, answered, sentSince, icmp>>

\* It loads the ICMP error's time and decides whether the reply is due.
LoadIcmp ==
  /\ reply.pc = "load"
  /\ LET due == \/ reply.last >= Throttle
                \/ "ms" \in icmpSet /\ icmpAge <= reply.last
     IN  reply' = IF due THEN [NoReply EXCEPT !.pc = "store"] ELSE NoReply
  /\ UNCHANGED <<tcpVars, protocol, sampleVars, icmpAge, icmpSet, answered, sentSince, icmp,
                 vindicated, replyNow>>

StoreReply ==
  /\ reply.pc = "store"
  /\ reply' = NoReply
  /\ okAge' = 0 /\ answered' = TRUE
  /\ UNCHANGED <<world, clock, kick, verdict, names, pc, found, conn,
                 protocol, sampleVars, icmpAge, icmpSet, sentSince, icmp, vindicated, replyNow>>

\* A send or a receive reports an ICMP error: mark_udp_icmp_error.  The target's
\* host limits their rate, to one in a tick.
SeeIcmp ==
  /\ icmp = {} /\ target = "down" /\ ~cancelled /\ ("ms" \in icmpSet => icmpAge > 0)
  /\ icmp' = {"ms", "kind"}
  /\ UNCHANGED <<tcpVars, protocol, sampleVars, icmpAge, icmpSet, answered, sentSince, reply,
                 vindicated, replyNow>>

\* A reply that the sample loaded before the time is not older than the new error
\* when it is of this tick.
StoreIcmp(field) ==
  /\ field \in icmp
  /\ icmp' = icmp \ {field} /\ icmpSet' = icmpSet \cup {field}
  /\ IF field = "kind" THEN UNCHANGED <<icmpAge, answered, prev, cur, vindicated>>
     ELSE /\ icmpAge' = 0 /\ answered' = (okAge = 0) /\ vindicated' = replyNow
          /\ prev' = (prev /\ icmpAge = 0)
          /\ cur' = IF "ms" \in loading /\ "reply" \notin loading
                      THEN [cur EXCEPT !.answered = cur.recent] ELSE cur
  /\ overtaken' = (overtaken \/ (pc = "sample" /\ field \notin loading))
  /\ kick' = (kick \/ icmp' = {})
  /\ UNCHANGED <<world, clock, okAge, verdict, names, pc, found, conn, protocol, loading, sentSince,
                 reply, replyNow>>

\* Datagrams go out to the target and are counted: at the latest when the sample is
\* about to load the count, which alone tells.
Send ==
  /\ ~sentSince /\ ~cancelled /\ Loadable("sent")
  /\ sentSince' = TRUE
  /\ UNCHANGED <<tcpVars, protocol, sampleVars, icmpAge, icmpSet, answered, reply, icmp,
                 vindicated, replyNow>>

DataPath == DrainReply \/ LoadIcmp \/ StoreReply \/ SeeIcmp \/ (\E f \in {"ms", "kind"} : StoreIcmp(f)) \/ Send

-----------------------------------------------------------------------------
(* run_udp_monitor.                                                        *)

UdpBeginProbe ==
  /\ pc = "tick" /\ ~cancelled
  /\ sinceProbe' = 0 /\ pc' = "resolve"
  /\ UNCHANGED <<world, waited, evidence, verdict, names, found, conn, udpVars>>

\* probe_udp_target ends, and the addresses it found are reported.
UdpResolves ==
  /\ pc = "resolve"
  /\ IF target = "unresolved" THEN found' = NoAnswer /\ UNCHANGED names
                              ELSE found' = dns /\ ObserveAddrs(dns)
  /\ pc' = "sample" /\ loading' = Sampled
  /\ UNCHANGED <<world, clock, evidence, verdict, conn, protocol, evidenceVars, prev, cur, overtaken>>

\* udp_sample loads one atomic; the count is sentSince.  The reply it loads after
\* the time was there with it or is of this tick.
Loaded(field) ==
  CASE field = "ms"    -> [cur EXCEPT !.ms = "ms" \in icmpSet,
                                      !.quiet = prev /\ icmpAge >= Quiet,
                                      !.answered = IF "reply" \in loading THEN answered ELSE @]
    [] field = "kind"  -> [cur EXCEPT !.kind = "kind" \in icmpSet]
    [] field = "reply" -> [cur EXCEPT !.recent = ("ms" \in loading /\ okAge = 0),
                                      !.answered = IF "ms" \in loading THEN answered
                                                   ELSE @ \/ okAge = 0]
    [] field = "sent"  -> cur

Load(field) ==
  /\ Loadable(field) /\ loading' = loading \ {field}
  /\ UNCHANGED <<world, evidence, conn, names, protocol, icmpAge, icmpSet, answered, reply, icmp,
                 vindicated, replyNow>>

UdpLoads(field) ==
  /\ Load(field) /\ loading # {field}
  /\ cur' = Loaded(field)
  /\ prev' = IF field = "ms" THEN "ms" \in icmpSet ELSE prev
  /\ UNCHANGED <<clock, verdict, pc, found, overtaken, sentSince>>

\* Slip: silence counts as recovery.
udp_verdictOptimist(s) ==
  IF ~(s.ms /\ s.kind) \/ s.answered \/ s.quiet THEN "Up" ELSE "Down"

\* udp_verdict on a sample and the previous one.
udp_verdict(s) ==
  IF ~(s.ms /\ s.kind) \/ s.answered THEN "Up"
  ELSE IF ~s.quiet THEN "Down"
  ELSE IF sentSince THEN "Up" ELSE "Hold"

\* The last load, then the verdict on the sample, unless the lookup failed.
UdpJudges(field) ==
  /\ Load(field) /\ loading = {field}
  /\ LET s == Loaded(field)
     IN  /\ IF found = NoAnswer THEN RecordDown
            ELSE \/ udp_verdict(s) = "Up" /\ RecordUp
                 \/ udp_verdict(s) = "Down" /\ RecordDown
                 \/ udp_verdict(s) = "Hold" /\ UNCHANGED verdict
         /\ prev' = (s.ms /\ s.kind /\ (field = "ms" \/ prev))
  /\ Waits /\ UNCHANGED sinceProbe
  /\ cur' = NoSample /\ overtaken' = FALSE /\ sentSince' = FALSE

\* There is no await between the lookup and the verdict.
UdpMonitorTask ==
  \/ (WaitEnds \/ Kicked \/ SpacingEnds \/ (pc # "sample" /\ Stop)) /\ UNCHANGED udpVars
  \/ UdpBeginProbe \/ UdpResolves \/ (\E f \in Sampled : UdpLoads(f) \/ UdpJudges(f))

UdpTick ==
  /\ reply.pc = "idle" /\ icmp = {} /\ pc \notin {"tick", "sample"}
  /\ ClockTick
  /\ icmpAge' = Later(icmpAge) /\ replyNow' = FALSE
  /\ UNCHANGED <<protocol, sampleVars, icmpSet, answered, sentSince, reply, icmp, vindicated>>

\* The monitor alone looks at the name, the threshold and the token (but that no
\* session marks anything once the token is cancelled or the name is lost), so they
\* change where it is about to look: to change before is the same, and an answer
\* that no lookup met does not matter.
UdpWorld ==
  \/ \E t \in Targets : (t = "unresolved" => pc # "sample") /\ TargetChanges(t)
  \/ pc = "resolve" /\ lastAddrs = dns /\ \E a \in Answer : DnsChanges(a)
  \/ pc = "resolve" /\ \E t \in Thresholds : ReloadThreshold(t)
  \/ pc \in {"wait", "spacing", "tick"} /\ Cancel

UdpNext == UdpMonitorTask \/ DataPath \/ UdpTick \/ (UdpWorld /\ UNCHANGED udpVars)

\* run_monitor dispatches on the protocol.
Tcp(A) == protocol = "tcp" /\ A /\ UNCHANGED udpVars
Udp(A) == protocol = "udp" /\ A

MonitorNext == Tcp(TcpNext) \/ Udp(UdpNext)

\* Timers run and the runtime polls what is ready: a lookup and a connect end
\* within dns_timeout and connect_timeout, a mark that was begun is finished.
\* Nothing forces clients to connect or the world to change.
MonitorFairness ==
  /\ WF_allVars(Tcp(MonitorTask) \/ Udp(UdpMonitorTask))
  /\ WF_allVars(Tcp(ClockTick) \/ Udp(UdpTick))
  /\ \A c \in Conn : WF_allVars(Tcp(ConnConnects(c)))
  /\ WF_allVars(LoadIcmp \/ StoreReply \/ \E f \in {"ms", "kind"} : StoreIcmp(f))

MonitorSpec == MonitorInit /\ [][MonitorNext]_allVars /\ MonitorFairness

-----------------------------------------------------------------------------
(* What monitoring promises.                                               *)

\* "Recovery needs positive evidence": an outage of a UDP target ends only when no
\* ICMP error was ever recorded, when a reply came no earlier than the latest
\* recorded error, or when that error is old and datagrams were sent between the
\* last look and this one, whatever the marks and the loads of the sample
\* interleave to.  The exception is an error recorded after the sample loaded what
\* it says of the last: then its mark is not finished or has left the monitor a
\* kick to look again (mark_connect_ok_at, mark_udp_icmp_error, udp_sample,
\* udp_verdict).
RecoveryNeedsEvidence ==
  [][protocol = "udp" /\ outage # "none" /\ outage' = "none" =>
       \/ icmpSet # {"ms", "kind"}
       \/ vindicated
       \/ icmpAge >= Quiet /\ sentSince
       \/ overtaken /\ (icmp # {} \/ kick')]_allVars

\* The monitor follows its target: an outage is alerted when the target stays
\* unresolved, refuses every TCP connection or keeps drawing ICMP errors, whatever
\* traffic proved before; and it ends when a TCP target stays up, or a UDP target
\* stays up and keeps replying, or takes traffic without an error, though replies
\* are recorded at most once per Throttle.
TargetFollowed ==
  /\ <>[](/\ ~cancelled /\ target # "up"
          /\ target = "down" => protocol = "tcp" \/ icmpAge < Quiet)
       => <>[](outage = "alerted")
  /\ <>[](target = "up" /\ ~cancelled) /\ ([]<>(protocol = "tcp" \/ reply.pc = "load") \/ []<>sentSince)
       => <>[](outage = "none")
=============================================================================
