----------------------------- MODULE UdpOffload -----------------------------
(***************************************************************************)
(* The Linux fast path of a UDP forwarder (src/src/udp.rs).  A socket with *)
(* UDP_GRO hands over a burst: several datagrams of one client in one      *)
(* buffer, all `segment' bytes long but perhaps the last.  A burst is sent *)
(* on in as few UDP_SEGMENT (GSO) sends as the limits allow, or, once the  *)
(* kernel has refused one, a datagram at a time.                           *)
(*                                                                         *)
(* A byte is the number of the datagram it arrived in, so that what leaves *)
(* can be compared with what came.  Two flows per session: "forward" is    *)
(* the engine's (client to target, one flow at a time, never waiting),     *)
(* "reply" the session task's (target to client, through the listener all  *)
(* sessions share).  Every send is a step: the tasks run in parallel and   *)
(* share the listener's gso_ok.  Receive errors are UdpForwarder's subject.*)
(***************************************************************************)
EXTENDS Naturals, Sequences, FiniteSets

CONSTANTS
  Session,            \* sessions, one per client
  Bursts,             \* datagram lengths the kernel may hand over in one read
  MAX_GSO_SEGMENTS,
  GSO_MAX_PAYLOAD,
  GRO_BUF_BYTES,
  MaxBusy             \* flows that have a buffer in hand at a time

\* The kernel coalesces datagrams of one length, of which only the last may be shorter.
ASSUME OffloadAssumption ==
  /\ {MAX_GSO_SEGMENTS, GSO_MAX_PAYLOAD, GRO_BUF_BYTES, MaxBusy} \subseteq Nat \ {0}
  /\ \A b \in Bursts : /\ b \in Seq(Nat) /\ b # <<>>
                       /\ \A k \in 1 .. Len(b) - 1 : b[k] = b[1]
                       /\ Len(b) > 1 => b[Len(b)] \in 1 .. b[1]

VARIABLES
  knob,  \* RuntimeKnobs.udp_gro_gso
  off,   \* ListenerOffload
  ses,   \* sessions: whether open, SessionShared.gro, SessionEntry.gso_ok
  job    \* the buffer a flow has in hand and its Batch

offloadVars == <<knob, off, ses, job>>

Flow     == Session \X {"forward", "reply"}
Outcomes == {"ok", "full", "fallback", "error"}  \* of a send: WouldBlock, is_fallback_error, others

\* A job: the buffer and how far it is sent; the lengths of the datagrams that
\* came and the datagrams that left; and the counts of the batch, with `cut' for
\* the datagrams the kernel cut off a burst larger than the buffer.
Idle == [pc |-> "idle", data |-> <<>>, segment |-> 0, from |-> 0, came |-> <<>>, wire |-> <<>>,
         datagrams |-> 0, dropped |-> 0, cut |-> 0]

NoSession == [open |-> FALSE, gro |-> FALSE, gso_ok |-> TRUE]

OffloadInit ==
  /\ knob \in BOOLEAN
  /\ off = [gro_set |-> FALSE, enabled |-> FALSE, gro_aware |-> FALSE, unsupported |-> FALSE, gso_ok |-> TRUE]
  /\ ses = [s \in Session |-> NoSession]
  /\ job = [f \in Flow |-> Idle]

-----------------------------------------------------------------------------
\* The arithmetic of bursts.

Smaller(a, b) == IF a < b THEN a ELSE b

is_coalesced(len, segment) == segment > 0 /\ segment < len

\* Slip: the short last datagram is not counted.
segmentsFloor(len, segment) == IF is_coalesced(len, segment) THEN len \div segment ELSE 1

segments(len, segment) ==
  IF is_coalesced(len, segment) THEN (len + segment - 1) \div segment ELSE 1

chunk_bytes(segment) ==
  LET fit == GSO_MAX_PAYLOAD \div segment
  IN  segment * (IF fit < 1 THEN 1 ELSE Smaller(fit, MAX_GSO_SEGMENTS))

\* The next n bytes of a buffer from offset `from'.
Slice(data, from, n) == SubSeq(data, from + 1, Smaller(from + n, Len(data)))

\* slice::chunks(n): what sendmsg makes of a payload with UDP_SEGMENT n, too.
Chunks(data, n) ==
  IF n = 0 THEN <<data>>
  ELSE [k \in 1 .. (Len(data) + n - 1) \div n |-> Slice(data, (k - 1) * n, n)]

\* The buffer the kernel fills for a burst: the datagrams lie burst[1] bytes apart.
Bytes(burst) ==
  [i \in 1 .. (Len(burst) - 1) * burst[1] + burst[Len(burst)] |-> (i - 1) \div burst[1] + 1]

-----------------------------------------------------------------------------
\* The listener's state.

\* apply_gro_knob; `set': setsockopt(UDP_GRO) succeeds.  UDP_GRO is never cleared.
apply_gro_knob(set) ==
  LET want == knob /\ ~off.unsupported
  IN  IF want = off.enabled THEN off
      ELSE IF ~want THEN [off EXCEPT !.enabled = FALSE]
      ELSE IF off.gro_set THEN [off EXCEPT !.enabled = TRUE]
      ELSE IF set THEN [off EXCEPT !.enabled = TRUE, !.gro_set = TRUE, !.gro_aware = TRUE]
      ELSE [off EXCEPT !.gro_aware = TRUE, !.unsupported = TRUE]

EngineIdle == \A s \in Session : job[<<s, "forward">>].pc = "idle"

Sweep ==
  /\ EngineIdle
  /\ \E set \in BOOLEAN : off' = apply_gro_knob(set)
  /\ off' # off
  /\ UNCHANGED <<knob, ses, job>>

Reload == knob' = ~knob /\ UNCHANGED <<off, ses, job>>

-----------------------------------------------------------------------------
\* Reading.

\* One receive of burst b, by offload::recv (`parse', which reports the segment
\* size and a cut) or by a plain one.  What was read starts to be sent: as a burst
\* with GSO while that is thought to work, else by pieces; a buffer that is no
\* burst is one piece.  `lost': there is no session for it.
recv(b, parse, gso_ok, lost) ==
  LET trunc   == parse /\ Len(Bytes(b)) > GRO_BUF_BYTES
      data    == IF trunc THEN Slice(Bytes(b), 0, GRO_BUF_BYTES) ELSE Bytes(b)
      segment == IF parse /\ Len(b) > 1 THEN b[1] ELSE 0
      count   == segments(Len(data), segment)
      read    == [Idle EXCEPT !.data = data, !.segment = segment, !.came = b]
  IN  IF trunc \/ lost
      THEN [read EXCEPT !.pc = "done", !.dropped = count, !.cut = IF trunc THEN Len(b) - count ELSE 0]
      ELSE [read EXCEPT !.pc = IF is_coalesced(Len(data), segment) /\ gso_ok THEN "gso" ELSE "plain"]

MayRead(f) == /\ job[f].pc = "idle"
              /\ Cardinality({g \in Flow : job[g].pc # "idle"}) < MaxBusy

\* drain_listener or drain_listener_gro, and on_client_buffer: a client without a
\* session gets one, with UDP_GRO if the knob was applied and the kernel agrees.
\* A burst that was cut is dropped before the sessions are looked at.
ClientBurst(s) ==
  /\ EngineIdle /\ MayRead(<<s, "forward">>)
  /\ \E b \in Bursts, opens, gro \in BOOLEAN :
       LET read == recv(b, off.gro_aware, ses[s].gso_ok, ~opens)
           new  == ~ses[s].open /\ read.pc # "done"
       IN  /\ Len(b) > 1 => off.gro_set
           /\ ses[s].open => opens
           /\ gro => off.enabled /\ new
           /\ job' = [job EXCEPT ![<<s, "forward">>] = read]
           /\ ses' = IF new THEN [ses EXCEPT ![s] = [open |-> TRUE, gro |-> gro, gso_ok |-> TRUE]] ELSE ses
           /\ off' \in IF new /\ off.enabled /\ ~gro THEN {off, [off EXCEPT !.unsupported = TRUE]} ELSE {off}
  /\ UNCHANGED knob

\* The session task's receive, drain_upstream or drain_upstream_gro.
TargetBurst(s) ==
  /\ ses[s].open /\ MayRead(<<s, "reply">>)
  /\ \E b \in Bursts : /\ Len(b) > 1 => ses[s].gro
                       /\ job' = [job EXCEPT ![<<s, "reply">>] = recv(b, ses[s].gro, off.gso_ok, FALSE)]
  /\ UNCHANGED <<knob, off, ses>>

-----------------------------------------------------------------------------
\* Sending.

\* The job once its buffer is sent up to offset `from'.
Advance(j, from) == IF from >= Len(j.data) THEN [j EXCEPT !.pc = "done", !.from = from]
                                           ELSE [j EXCEPT !.from = from]

\* What a send that is not retried leaves is dropped: forward_upstream_coalesced
\* counts total - sent, reply_coalesced the segments of the tail.
DropRest(f, j) ==
  [j EXCEPT !.pc = "done",
            !.dropped = @ + IF f[2] = "forward"
                            THEN segments(Len(j.data), j.segment) - j.from \div j.segment
                            ELSE segments(Len(j.data) - j.from, j.segment)]

\* Slip: the fallback starts over instead of where the sends stopped.
FallsBackOver(j) == [j EXCEPT !.pc = "plain", !.from = 0]

FallsBack(j) == [j EXCEPT !.pc = "plain"]

\* GSO was rejected: for the session (forward), for the listener (reply).
Reject(f) ==
  IF f[2] = "forward" THEN ses' = [ses EXCEPT ![f[1]].gso_ok = FALSE] /\ UNCHANGED off
                      ELSE off' = [off EXCEPT !.gso_ok = FALSE] /\ UNCHANGED ses

\* One chunk of send_chunks went out; at the end all segments are counted, before
\* it the whole ones.
ChunkSent(j, part) ==
  LET seg == IF Len(part) > j.segment THEN j.segment ELSE 0
      to  == j.from + Len(part)
  IN  [Advance(j, to) EXCEPT
         !.wire      = @ \o Chunks(part, seg),
         !.datagrams = IF to >= Len(j.data) THEN segments(Len(j.data), j.segment) ELSE to \div j.segment]

\* One round of send_chunks.  A segment size that is no u16 ends it as EINVAL does.
GsoSend(f) ==
  /\ job[f].pc = "gso"
  /\ LET j == job[f]
     IN  \E r \in Outcomes :
           \/ /\ r = "ok" /\ UNCHANGED <<off, ses>>
              /\ job' = [job EXCEPT ![f] = ChunkSent(j, Slice(j.data, j.from, chunk_bytes(j.segment)))]
           \/ r = "fallback" /\ Reject(f) /\ job' = [job EXCEPT ![f] = FallsBack(j)]
           \/ /\ r = "full" /\ f[2] = "reply" /\ UNCHANGED <<off, ses>>
              /\ job' = [job EXCEPT ![f].pc = "blocked"]
           \/ /\ r = "error" \/ (r = "full" /\ f[2] = "forward")
              /\ job' = [job EXCEPT ![f] = DropRest(f, j)] /\ UNCHANGED <<off, ses>>
  /\ UNCHANGED knob

\* The next datagram of a buffer that is sent by pieces.
Piece(j) == IF j.segment = 0 THEN j.data ELSE Slice(j.data, j.from, j.segment)

\* One piece by itself: forward_upstream, try_send_to, or, once blocked, the
\* send_to of run_session, which waits and so has no WouldBlock.
PlainSend(f) ==
  /\ job[f].pc \in {"plain", "blocked"}
  /\ LET j    == job[f]
         next == Advance(j, j.from + Len(Piece(j)))
     IN  \/ job' = [job EXCEPT ![f] = [next EXCEPT !.wire = Append(@, Piece(j)), !.datagrams = @ + 1]]
         \/ job' = [job EXCEPT ![f] = [next EXCEPT !.dropped = @ + 1]]
         \/ f[2] = "reply" /\ j.pc = "plain" /\ job' = [job EXCEPT ![f].pc = "blocked"]
  /\ UNCHANGED <<knob, off, ses>>

\* The batch is added to the forwarder's statistics and the next read may follow.
Flush(f) ==
  /\ job[f].pc = "done"
  /\ job' = [job EXCEPT ![f] = Idle]
  /\ UNCHANGED <<knob, off, ses>>

\* The session is evicted: its task notices where it waits, and a tail it had not
\* sent goes with it, uncounted.
Evict(s) ==
  /\ EngineIdle /\ ses[s].open
  /\ job[<<s, "reply">>].pc \in {"idle", "blocked"}
  /\ ses' = [ses EXCEPT ![s] = NoSession]
  /\ job' = [job EXCEPT ![<<s, "reply">>] = Idle]
  /\ UNCHANGED <<knob, off>>

OffloadNext ==
  \/ Sweep \/ Reload
  \/ \E s \in Session : ClientBurst(s) \/ TargetBurst(s) \/ Evict(s)
  \/ \E f \in Flow : GsoSend(f) \/ PlainSend(f) \/ Flush(f)

OffloadSpec == OffloadInit /\ [][OffloadNext]_offloadVars

-----------------------------------------------------------------------------
\* Properties.

\* Coalescing is invisible: whatever leaves is a datagram that arrived, whole and
\* not joined with another, none twice and in order, through short last segments,
\* chunked sends, a fallback in mid-burst, a full listener and a knob toggled while
\* bursts are in flight (send_chunks, reply_coalesced, apply_gro_knob).
WholeInOrder ==
  \A f \in Flow :
    LET j == job[f]
    IN  /\ \A i \in DOMAIN j.wire :
             \/ j.wire[i] = <<>> /\ j.came = <<0>> /\ Len(j.wire) = 1
             \/ \E k \in DOMAIN j.came : j.came[k] > 0 /\ j.wire[i] = [b \in 1 .. j.came[k] |-> k]
        /\ \A i, k \in DOMAIN j.wire : i < k => j.wire[i][1] < j.wire[k][1]

\* When a batch is added to the statistics the counters account for every datagram:
\* those counted as forwarded are those sent, and with the dropped ones they are all
\* that came (but for what the kernel cut off a burst that did not fit the buffer).
EveryDatagramCounted ==
  \A f \in Flow :
    LET j == job[f]
    IN  j.pc = "done" => /\ j.datagrams = Len(j.wire)
                         /\ j.datagrams + j.dropped + j.cut = Len(j.came)
=============================================================================
