----------------------------- MODULE PortRanges -----------------------------
(***************************************************************************)
(* How a configured entry becomes forwarders (src/src/config.rs): port     *)
(* spans and their parsing, entries of the YAML list, of the command line  *)
(* and of the environment, the expansion of ranges into one forwarder per  *)
(* port, and the rejection of an endpoint claimed twice.                   *)
(*                                                                         *)
(* An Option or a Result is a set with at most one element: {x} is Some(x) *)
(* or Ok(x), the empty set is None or any error.  The text of an entry is  *)
(* what parsing tells apart: how many parts it has, which suffix, and for  *)
(* each side one number or two, each perhaps missing or not a number.      *)
(***************************************************************************)
EXTENDS Naturals, Sequences, FiniteSets, Functions

CONSTANTS
  MaxPort,        \* u16::MAX
  MaxRangePorts   \* MAX_RANGE_PORTS

ASSUME PortAssumption == MaxPort \in Nat \ {0} /\ MaxRangePorts \in Nat \ {0}

U16      == 0 .. MaxPort
Protocol == {"tcp", "udp"}

-----------------------------------------------------------------------------
\* Spans.

single(port) == [start |-> port, end |-> port]

SpanLen(span) == span.end - span.start + 1

\* PortSpan::range: no port 0, not empty, not longer than the limit.
range(start, end) ==
  IF start = 0 \/ start > end THEN {}
  ELSE LET span == [start |-> start, end |-> end]
       IN  IF SpanLen(span) > MaxRangePorts THEN {} ELSE {span}

\* PortSpan::parse of `80' (text.last is no text) or `30000-30050': each number
\* must be one and must fit a u16.
parse(text) ==
  IF ~text.dash THEN {single(p) : p \in text.first \cap U16}
                ELSE UNION {range(p, q) : p \in text.first \cap U16, q \in text.last \cap U16}

-----------------------------------------------------------------------------
\* Entries.

\* Slip: sides of different lengths are let through.
ForwarderSpec_newUneven(local_host, local, remote_host, remote, protocol) ==
  {[local_host |-> local_host, local |-> local, remote_host |-> remote_host,
    remote |-> remote, protocol |-> protocol]}

\* ForwarderSpec::new: both sides have the same number of ports.
ForwarderSpec_new(local_host, local, remote_host, remote, protocol) ==
  IF SpanLen(local) # SpanLen(remote) THEN {}
  ELSE {[local_host |-> local_host, local |-> local, remote_host |-> remote_host,
         remote |-> remote, protocol |-> protocol]}

ForwarderConfig(spec, offset) ==
  [local_host  |-> spec.local_host,  local_port  |-> spec.local.start + offset,
   remote_host |-> spec.remote_host, remote_port |-> spec.remote.start + offset,
   protocol    |-> spec.protocol]

expand(spec) == [k \in 1 .. SpanLen(spec.local) |-> ForwarderConfig(spec, k - 1)]

\* The local endpoint of a spec's port is claimed by another spec already.
Claimed(specs, i, port) ==
  \E j \in 1 .. i - 1 : /\ specs[j].protocol = specs[i].protocol
                        /\ specs[j].local_host = specs[i].local_host
                        /\ port \in specs[j].local.start .. specs[j].local.end

\* Vec::extend in a loop.  (By itself: a proof reads all of what SequencesExt brings.)
Flatten(seqs) ==
  LET joined[k \in 1 .. Len(seqs)] == IF k = 1 THEN seqs[k] ELSE joined[k - 1] \o seqs[k]
  IN  IF seqs = <<>> THEN <<>> ELSE joined[Len(seqs)]

expand_specs(specs) ==
  IF \E i \in DOMAIN specs : \E p \in specs[i].local.start .. specs[i].local.end : Claimed(specs, i, p)
  THEN {}
  ELSE {Flatten([i \in DOMAIN specs |-> expand(specs[i])])}

\* validate_no_duplicates: one forwarder per protocol and local address.
validate_no_duplicates(fwds) ==
  \A i, j \in DOMAIN fwds :
    /\ fwds[i].protocol = fwds[j].protocol
    /\ fwds[i].local_host = fwds[j].local_host
    /\ fwds[i].local_port = fwds[j].local_port
    => i = j

-----------------------------------------------------------------------------
\* The YAML list.

\* A RawForwarder: its ports are u16, each end an Option<u16>.
IsRaw(raw) ==
  /\ {raw.local_port, raw.remote_port} \cup raw.local_port_end \cup raw.remote_port_end \subseteq U16
  /\ \A p, q \in raw.local_port_end : p = q
  /\ \A p, q \in raw.remote_port_end : p = q

RawLocal(raw) ==
  IF raw.local_port_end = {} THEN {single(raw.local_port)}
  ELSE UNION {range(raw.local_port, end) : end \in raw.local_port_end}

\* The remote end, when it is not written, is implied by the length of the local
\* side, computed in u32 and rejected when it does not fit a u16.
RawRemoteEnd(raw, local) ==
  IF raw.remote_port_end # {} THEN raw.remote_port_end
  ELSE {raw.remote_port + SpanLen(local) - 1} \cap U16

RawRemote(raw, local) ==
  IF raw.local_port_end = {}
  THEN IF raw.remote_port_end = {} THEN {single(raw.remote_port)} ELSE {}
  ELSE UNION {range(raw.remote_port, end) : end \in RawRemoteEnd(raw, local)}

into_spec(raw) ==
  UNION {UNION {ForwarderSpec_new(raw.local_host, l, raw.remote_host, r, raw.protocol)
                : r \in RawRemote(raw, l)} : l \in RawLocal(raw)}

\* Specs of a list in which every entry must be one.
AllSpecs(results) ==
  IF \E i \in DOMAIN results : results[i] = {} THEN {}
  ELSE {[i \in DOMAIN results |-> CHOOSE spec \in results[i] : TRUE]}

deserialize_forwarders(raws) ==
  UNION {expand_specs(specs) : specs \in AllSpecs([i \in DOMAIN raws |-> into_spec(raws[i])])}

-----------------------------------------------------------------------------
\* The command line and the environment.

SuffixProtocol(suffix) ==
  CASE suffix \in {"none", "tcp"} -> {"tcp"} [] suffix = "udp" -> {"udp"} [] OTHER -> {}

parse_forwarder_spec(entry) ==
  IF entry.parts # 4 THEN {}
  ELSE UNION {ForwarderSpec_new(entry.local_host, l, entry.remote_host, r, protocol) :
                l \in parse(entry.local), r \in parse(entry.remote),
                protocol \in SuffixProtocol(entry.suffix)}

cli_forwarders(entries) ==
  UNION {expand_specs(specs) :
           specs \in AllSpecs([i \in DOMAIN entries |-> parse_forwarder_spec(entries[i])])}

\* The numbers of a finite set in ascending order.
Ascending(S) == CHOOSE s \in [1 .. Cardinality(S) -> S] :
                  \A i, j \in 1 .. Cardinality(S) : i < j => s[i] < s[j]

\* RFW_FORWARDER_N by ascending N (a function from numbers to texts); an entry
\* that does not parse is skipped.
load_env_forwarders(env) ==
  LET order == Ascending({n \in DOMAIN env : parse_forwarder_spec(env[n]) # {}})
  IN  expand_specs([i \in DOMAIN order |-> CHOOSE spec \in parse_forwarder_spec(env[order[i]]) : TRUE])
=============================================================================
