------------------------------ MODULE Settings ------------------------------
(***************************************************************************)
(* The runtime settings (src/src/config.rs): their defaults, the flags of  *)
(* the command line laid over them, the check that refuses bad values at   *)
(* startup, the clamping that repairs them on a reload, and what the       *)
(* RuntimeKnobs store of them and hand to a connection.                    *)
(*                                                                         *)
(* Settings are a record with the source's field names; an Option is a set *)
(* with at most one element.  A webhook URL and a metrics address are what *)
(* their checks tell apart.                                                *)
(***************************************************************************)
EXTENDS Integers

MIN_BUFFER_BYTES == 1024
MAX_BUFFER_BYTES == 16 * 1024 * 1024
MAX_UDP_SESSIONS == 1048576

Default ==
  [metrics_addr            |-> {},    report_interval_secs     |-> 60,
   sample_interval_secs    |-> 1,     buffer_bytes             |-> 65536,
   socket_buffer_bytes     |-> {},    use_splice               |-> FALSE,
   max_connections         |-> {},    connect_timeout_secs     |-> 10,
   dns_timeout_secs        |-> 5,     keepalive_idle_secs      |-> 60,
   keepalive_interval_secs |-> 10,    keepalive_retries        |-> 3,
   webhook_url             |-> {},    instance_name            |-> {},
   probe_interval_secs     |-> 30,    unreachable_after_secs   |-> 300,
   udp_session_timeout_secs |-> 60,   udp_max_sessions         |-> 16384,
   udp_gro_gso             |-> FALSE]

\* The values a field can be given: an unsigned number, a switch, an Option.
OfField(f, v) ==
  CASE f \in {"use_splice", "udp_gro_gso"} -> v \in BOOLEAN
    [] f \in {"socket_buffer_bytes", "max_connections"} -> \A n, m \in v : n \in Nat /\ n = m
    [] f \in {"metrics_addr", "webhook_url", "instance_name"} -> TRUE
    [] OTHER -> v \in Nat

\* Some of the fields, each with a value of its type.
Written(some) == DOMAIN some \subseteq DOMAIN Default /\ \A f \in DOMAIN some : OfField(f, some[f])

\* One record's fields laid over another's.
Over(top, bottom) ==
  [f \in DOMAIN top \cup DOMAIN bottom |-> IF f \in DOMAIN top THEN top[f] ELSE bottom[f]]

\* serde: a field the file leaves out has its default.
FromFile(written) == Over(written, Default)

\* apply_cli_overrides.  A flag that was passed is in the domain of `flags'; the
\* two switches can only be passed as TRUE, and a blank webhook URL means off.
apply_cli_overrides(settings, flags) ==
  Over([f \in DOMAIN flags |-> IF f = "webhook_url" THEN flags[f] \ {"blank"} ELSE flags[f]],
       settings)

-----------------------------------------------------------------------------
\* A URL of a known scheme with a host.
validate_webhook_url(url) == url \in {"https", "http"}

\* The fields that must be at least 1 whatever the others are.
Floored == {"report_interval_secs", "sample_interval_secs", "connect_timeout_secs",
            "dns_timeout_secs", "probe_interval_secs", "unreachable_after_secs",
            "udp_session_timeout_secs"}

\* Settings::validate, the fields clamp_in_place also looks at.
NumbersValid(s) ==
  /\ \A f \in Floored : s[f] # 0
  /\ s.buffer_bytes \in MIN_BUFFER_BYTES .. MAX_BUFFER_BYTES
  /\ s.socket_buffer_bytes # {0}
  /\ s.max_connections # {0}
  /\ s.keepalive_idle_secs > 0 => s.keepalive_interval_secs # 0 /\ s.keepalive_retries # 0
  /\ s.udp_max_sessions \in 1 .. MAX_UDP_SESSIONS

\* The two it does not look at.
EndpointsValid(s) ==
  /\ s.metrics_addr \subseteq {"addr"}
  /\ \A url \in s.webhook_url : validate_webhook_url(url)

validate(s) == NumbersValid(s) /\ EndpointsValid(s)

floor(value) == IF value < 1 THEN 1 ELSE value

clamp(value, lo, hi) == IF value < lo THEN lo ELSE IF value > hi THEN hi ELSE value

\* Settings::clamp_in_place with keepalive left alone: a forgotten field.
clamp_in_placeNoKeepalive(s) ==
  [f \in DOMAIN s |->
     CASE f \in Floored           -> floor(s[f])
       [] f = "buffer_bytes"      -> clamp(s[f], MIN_BUFFER_BYTES, MAX_BUFFER_BYTES)
       [] f = "udp_max_sessions"  -> clamp(s[f], 1, MAX_UDP_SESSIONS)
       [] f \in {"socket_buffer_bytes", "max_connections"} -> s[f] \ {0}
       [] OTHER                   -> s[f]]

\* The parameters of keepalive, which must be at least 1 when it is on.
KeepaliveDetails == {"keepalive_interval_secs", "keepalive_retries"}

clamp_in_place(s) ==
  [f \in DOMAIN s |->
     CASE f \in Floored           -> floor(s[f])
       [] f = "buffer_bytes"      -> clamp(s[f], MIN_BUFFER_BYTES, MAX_BUFFER_BYTES)
       [] f = "udp_max_sessions"  -> clamp(s[f], 1, MAX_UDP_SESSIONS)
       [] f \in {"socket_buffer_bytes", "max_connections"} -> s[f] \ {0}
       [] f \in KeepaliveDetails  -> IF s.keepalive_idle_secs > 0 THEN floor(s[f]) ELSE s[f]
       [] OTHER                   -> s[f]]

-----------------------------------------------------------------------------
\* RuntimeKnobs: one atomic per field.

KnobFields == {"buffer_bytes", "socket_buffer_bytes", "use_splice", "connect_timeout_secs",
               "dns_timeout_secs", "keepalive_idle_secs", "keepalive_interval_secs",
               "keepalive_retries", "probe_interval_secs", "unreachable_after_secs",
               "udp_session_timeout_secs", "udp_gro_gso"}

\* What update stores: the clamped settings, with 0 for no socket buffer size.
Stored(s) ==
  LET c == clamp_in_place(s)
  IN  [f \in KnobFields |-> IF f # "socket_buffer_bytes" THEN c[f]
                            ELSE IF c[f] = {} THEN 0 ELSE CHOOSE n \in c[f] : TRUE]

\* The order in which RuntimeKnobs::snapshot loads the fields.
SnapshotOrder == <<"buffer_bytes", "socket_buffer_bytes", "use_splice", "connect_timeout_secs",
                   "dns_timeout_secs", "keepalive_idle_secs", "keepalive_interval_secs",
                   "keepalive_retries">>

\* What the getters make of the loaded values: the KnobSnapshot.
KnobSnapshotRaw(v) ==
  [buffer_bytes        |-> v.buffer_bytes,
   socket_buffer_bytes |-> {v.socket_buffer_bytes} \ {0},
   use_splice          |-> v.use_splice,
   connect_timeout     |-> floor(v.connect_timeout_secs),
   dns_timeout         |-> floor(v.dns_timeout_secs),
   keepalive           |-> IF v.keepalive_idle_secs = 0 THEN {}
                           ELSE {[idle     |-> v.keepalive_idle_secs,
                                  interval |-> v.keepalive_interval_secs,
                                  retries  |-> v.keepalive_retries]}]

KnobSnapshot(v) ==
  [buffer_bytes        |-> v.buffer_bytes,
   socket_buffer_bytes |-> {v.socket_buffer_bytes} \ {0},
   use_splice          |-> v.use_splice,
   connect_timeout     |-> floor(v.connect_timeout_secs),
   dns_timeout         |-> floor(v.dns_timeout_secs),
   keepalive           |-> IF v.keepalive_idle_secs = 0 THEN {}
                           ELSE {[idle     |-> v.keepalive_idle_secs,
                                  interval |-> floor(v.keepalive_interval_secs),
                                  retries  |-> floor(v.keepalive_retries)]}]
=============================================================================
