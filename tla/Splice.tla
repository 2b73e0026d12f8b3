-------------------------------- MODULE Splice --------------------------------
(***************************************************************************)
(* The zero-copy relay of one TCP connection (module splice of             *)
(* forwarder.rs): two directions, each with a kernel pipe, joined so that  *)
(* the first error ends both.                                              *)
(*                                                                         *)
(* Bytes are counted, not named: sockets and pipes are queues.  readable   *)
(* and writable are tokio's readiness flags, which the reactor sets on an  *)
(* edge (new data, new room, a close) and try_io clears when the call      *)
(* returns EAGAIN; a cleared flag comes back only with the next edge.      *)
(***************************************************************************)
EXTENDS Naturals

CONSTANTS Want,        \* buffer_bytes, at least one page
          MinUseful,   \* MIN_USEFUL_CAPACITY
          Granted,     \* pipe capacities the kernel may grant
          BufCap,      \* room in a socket buffer
          MaxBytes     \* bound: bytes a peer writes

ASSUME SpliceAssumption ==
  /\ Want \in Nat \ {0} /\ MinUseful \in Nat \ {0}
  /\ Granted \subseteq Nat /\ BufCap \in Nat \ {0} /\ MaxBytes \in Nat

VARIABLES phase,       \* Pipes::new, the relay, its end or the copy path
          chunk, cap,  \* Pipes
          pc, left,    \* splice_dir of each direction
          pipe,        \* bytes in its pipe
          counted,     \* bytes_sent and bytes_received
          rbuf, sbuf,  \* socket buffers of each side
          readable, writable,
          shut,        \* our write half towards a side is shut down
          written, fin, reset   \* what the peer of a side has done

pipes == <<chunk, cap>>
peers == <<written, fin, reset>>
vars == <<phase, pipes, pc, left, pipe, counted, rbuf, sbuf, readable,
          writable, shut, peers>>

Side == {"client", "remote"}
Dir == {"c2r", "r2c"}
Src(d) == IF d = "c2r" THEN "client" ELSE "remote"
Dst(d) == IF d = "c2r" THEN "remote" ELSE "client"

Least(a, b) == IF a <= b THEN a ELSE b
Room(d) == cap[d] - pipe[d]
Space(s) == BufCap - sbuf[s]

Init ==
  /\ phase = "pipes" /\ chunk = 0 /\ cap = [d \in Dir |-> 0]
  /\ pc = [d \in Dir |-> "read"] /\ left = [d \in Dir |-> 0]
  /\ pipe = [d \in Dir |-> 0] /\ counted = [d \in Dir |-> 0]
  /\ rbuf = [s \in Side |-> 0] /\ sbuf = [s \in Side |-> 0]
  /\ readable = [s \in Side |-> FALSE] /\ writable = [s \in Side |-> TRUE]
  /\ shut = [s \in Side |-> FALSE]
  /\ written = [s \in Side |-> 0] /\ fin = [s \in Side |-> FALSE]
  /\ reset = [s \in Side |-> FALSE]

-----------------------------------------------------------------------------
(* Pipes::new.                                                             *)

capacity_ok(got) == got >= Least(Want, MinUseful)

\* Both pipes are good enough: chunk never exceeds the smaller one.
PipesMade(a, b) ==
  /\ phase = "pipes" /\ capacity_ok(Least(a, b))
  /\ phase' = "relay"
  /\ cap' = [d \in Dir |-> IF d = "c2r" THEN a ELSE b]
  /\ chunk' = Least(Least(a, b), Want)
  /\ UNCHANGED <<pc, left, pipe, counted, rbuf, sbuf, readable, writable,
                 shut, peers>>

\* pipe2 fails or the kernel grants too little: the portable copy path.
FallBack ==
  /\ phase = "pipes"
  /\ phase' = "copy"
  /\ UNCHANGED <<pipes, pc, left, pipe, counted, rbuf, sbuf, readable,
                 writable, shut, peers>>

Pipes_new == (\E a, b \in Granted : PipesMade(a, b)) \/ FallBack

-----------------------------------------------------------------------------
(* splice_dir.                                                             *)

Reading(d) == phase = "relay" /\ pc[d] = "read" /\ readable[Src(d)]
Writing(d) == phase = "relay" /\ pc[d] = "write" /\ writable[Dst(d)]

ReadShortClears(d, n) ==
  /\ Reading(d)
  /\ n <= chunk /\ n <= rbuf[Src(d)] /\ n <= Room(d)
  /\ rbuf' = [rbuf EXCEPT ![Src(d)] = @ - n]
  /\ pipe' = [pipe EXCEPT ![d] = @ + n]
  /\ left' = [left EXCEPT ![d] = n]
  /\ pc' = [pc EXCEPT ![d] = "write"]
  /\ readable' = [readable EXCEPT ![Src(d)] = n = chunk]
  /\ UNCHANGED <<phase, pipes, counted, sbuf, writable, shut, peers>>

\* splice(src -> pipe) moves n bytes, those a reset left behind included.
Read(d, n) ==
  /\ Reading(d)
  /\ n <= chunk /\ n <= rbuf[Src(d)] /\ n <= Room(d)
  /\ rbuf' = [rbuf EXCEPT ![Src(d)] = @ - n]
  /\ pipe' = [pipe EXCEPT ![d] = @ + n]
  /\ left' = [left EXCEPT ![d] = n]
  /\ pc' = [pc EXCEPT ![d] = "write"]
  /\ UNCHANGED <<phase, pipes, counted, sbuf, readable, writable, shut, peers>>

\* EAGAIN: the socket is empty, or the pipe has no room.  The readiness of a
\* closed read half is never cleared.
ReadBlocks(d) ==
  /\ Reading(d)
  /\ Room(d) = 0 \/ (rbuf[Src(d)] = 0 /\ ~fin[Src(d)] /\ ~reset[Src(d)])
  /\ readable' = [readable EXCEPT ![Src(d)] = fin[Src(d)] \/ reset[Src(d)]]
  /\ UNCHANGED <<phase, pipes, pc, left, pipe, counted, rbuf, sbuf, writable,
                 shut, peers>>

\* 0 bytes: end of stream, passed on by shutting down the destination.
ReadEof(d) ==
  /\ Reading(d) /\ ~reset[Src(d)]
  /\ Room(d) > 0 /\ rbuf[Src(d)] = 0 /\ fin[Src(d)]
  /\ pc' = [pc EXCEPT ![d] = "ok"]
  /\ shut' = [shut EXCEPT ![Dst(d)] = TRUE]
  /\ UNCHANGED <<phase, pipes, left, pipe, counted, rbuf, sbuf, readable,
                 writable, peers>>

ReadFails(d) ==
  /\ Reading(d) /\ reset[Src(d)]
  /\ pc' = [pc EXCEPT ![d] = "err"]
  /\ UNCHANGED <<phase, pipes, left, pipe, counted, rbuf, sbuf, readable,
                 writable, shut, peers>>

WriteUncounted(d, n) ==
  /\ Writing(d) /\ ~reset[Dst(d)]
  /\ n <= left[d] /\ n <= Space(Dst(d))
  /\ pipe' = [pipe EXCEPT ![d] = @ - n]
  /\ sbuf' = [sbuf EXCEPT ![Dst(d)] = @ + n]
  /\ left' = [left EXCEPT ![d] = @ - n]
  /\ counted' = [counted EXCEPT ![d] = IF n = left[d] THEN @ + n ELSE @]
  /\ pc' = [pc EXCEPT ![d] = IF n = left[d] THEN "read" ELSE @]
  /\ UNCHANGED <<phase, pipes, rbuf, readable, writable, shut, peers>>

\* splice(pipe -> dst) moves n bytes; the loop goes on until none is left.
Write(d, n) ==
  /\ Writing(d) /\ ~reset[Dst(d)]
  /\ n <= left[d] /\ n <= Space(Dst(d))
  /\ pipe' = [pipe EXCEPT ![d] = @ - n]
  /\ sbuf' = [sbuf EXCEPT ![Dst(d)] = @ + n]
  /\ left' = [left EXCEPT ![d] = @ - n]
  /\ counted' = [counted EXCEPT ![d] = @ + n]
  /\ pc' = [pc EXCEPT ![d] = IF n = left[d] THEN "read" ELSE @]
  /\ UNCHANGED <<phase, pipes, rbuf, readable, writable, shut, peers>>

\* EAGAIN: the destination has no room.
WriteBlocks(d) ==
  /\ Writing(d) /\ ~reset[Dst(d)] /\ Space(Dst(d)) = 0
  /\ writable' = [writable EXCEPT ![Dst(d)] = FALSE]
  /\ UNCHANGED <<phase, pipes, pc, left, pipe, counted, rbuf, sbuf, readable,
                 shut, peers>>

\* The destination is gone, or accepts nothing without an error.
WriteFails(d) ==
  /\ Writing(d)
  /\ reset[Dst(d)] \/ Space(Dst(d)) > 0
  /\ pc' = [pc EXCEPT ![d] = "err"]
  /\ UNCHANGED <<phase, pipes, left, pipe, counted, rbuf, sbuf, readable,
                 writable, shut, peers>>

splice_dir(d) ==
  \/ \E n \in 1..Want : Read(d, n) \/ Write(d, n)
  \/ ReadBlocks(d) \/ ReadEof(d) \/ ReadFails(d)
  \/ WriteBlocks(d) \/ WriteFails(d)

-----------------------------------------------------------------------------
(* copy_bidirectional_splice.                                              *)

JoinBoth ==
  /\ phase = "relay"
  /\ \A d \in Dir : pc[d] \in {"ok", "err"}
  /\ phase' = "closed"
  /\ UNCHANGED <<pipes, pc, left, pipe, counted, rbuf, sbuf, readable,
                 writable, shut, peers>>

\* try_join!: both directions are done, or one has failed; then the sockets
\* are dropped.
Join ==
  /\ phase = "relay"
  /\ \/ \A d \in Dir : pc[d] = "ok"
     \/ \E d \in Dir : pc[d] = "err"
  /\ phase' = "closed"
  /\ UNCHANGED <<pipes, pc, left, pipe, counted, rbuf, sbuf, readable,
                 writable, shut, peers>>

-----------------------------------------------------------------------------
(* The peers and the kernel.                                               *)

Open == phase \in {"pipes", "relay"}

PeerWrites(s) ==
  /\ Open /\ ~fin[s] /\ ~reset[s]
  /\ written[s] < MaxBytes /\ rbuf[s] < BufCap
  /\ written' = [written EXCEPT ![s] = @ + 1]
  /\ rbuf' = [rbuf EXCEPT ![s] = @ + 1]
  /\ readable' = [readable EXCEPT ![s] = TRUE]
  /\ UNCHANGED <<phase, pipes, pc, left, pipe, counted, sbuf, writable, shut,
                 fin, reset>>

PeerCloses(s) ==
  /\ Open /\ ~fin[s] /\ ~reset[s]
  /\ fin' = [fin EXCEPT ![s] = TRUE]
  /\ readable' = [readable EXCEPT ![s] = TRUE]
  /\ UNCHANGED <<phase, pipes, pc, left, pipe, counted, rbuf, sbuf, writable,
                 shut, written, reset>>

PeerResets(s) ==
  /\ Open /\ ~reset[s]
  /\ reset' = [reset EXCEPT ![s] = TRUE]
  /\ readable' = [readable EXCEPT ![s] = TRUE]
  /\ writable' = [writable EXCEPT ![s] = TRUE]
  /\ UNCHANGED <<phase, pipes, pc, left, pipe, counted, rbuf, sbuf, shut,
                 written, fin>>

\* The peer reads a byte, which makes room.
PeerReads(s) ==
  /\ Open /\ sbuf[s] > 0 /\ ~reset[s]
  /\ sbuf' = [sbuf EXCEPT ![s] = @ - 1]
  /\ writable' = [writable EXCEPT ![s] = TRUE]
  /\ UNCHANGED <<phase, pipes, pc, left, pipe, counted, rbuf, readable, shut,
                 peers>>

Peer(s) == PeerWrites(s) \/ PeerCloses(s) \/ PeerResets(s) \/ PeerReads(s)

-----------------------------------------------------------------------------
(* What the relay promises.                                                *)

\* The types; no chunk exceeds the requested size and no buffer its capacity.
TypeOK ==
  /\ phase \in {"pipes", "relay", "copy", "closed"}
  /\ chunk \in 0..Want /\ cap \in [Dir -> Nat]
  /\ pc \in [Dir -> {"read", "write", "ok", "err"}]
  /\ left \in [Dir -> 0..Want] /\ pipe \in [Dir -> Nat]
  /\ counted \in [Dir -> Nat]
  /\ rbuf \in [Side -> 0..BufCap] /\ sbuf \in [Side -> 0..BufCap]
  /\ readable \in [Side -> BOOLEAN] /\ writable \in [Side -> BOOLEAN]
  /\ shut \in [Side -> BOOLEAN]
  /\ written \in [Side -> 0..MaxBytes] /\ fin \in [Side -> BOOLEAN]
  /\ reset \in [Side -> BOOLEAN]

\* Bytes are neither lost nor repeated, and the counters credit exactly what
\* the destination socket has accepted (on_bytes).
BytesConserved ==
  \A d \in Dir : written[Src(d)] = rbuf[Src(d)] + pipe[d] + counted[d]

\* The end of a stream overtakes none of its bytes: splice_dir shuts a
\* destination down only when all its source wrote has been delivered.
EofComesLast ==
  \A d \in Dir :
    shut[Dst(d)] => fin[Src(d)] /\ counted[d] = written[Src(d)]

\* What reaches a destination is a prefix of its stream, all of it at its end: see
\* the two above.
StreamIntact == BytesConserved /\ EofComesLast

Over == phase \in {"closed", "copy"}

\* Data in flight keeps moving while its reader reads: splice_dir never waits
\* for an edge that will not come.
DataFlows ==
  \A d \in Dir :
    (rbuf[Src(d)] + pipe[d] > 0) ~> (Over \/ rbuf[Src(d)] + pipe[d] = 0)

\* A half-close reaches the other side.
EofPropagates == \A d \in Dir : fin[Src(d)] ~> (Over \/ shut[Dst(d)])

\* An error in one direction ends the connection, whatever the other waits for
\* (the comment on try_join!).
ErrorEndsRelay == (\E d \in Dir : pc[d] = "err") ~> Over

\* What ends one side of a connection reaches the other: see the two above.
EndsPropagate == EofPropagates /\ ErrorEndsRelay
=============================================================================
