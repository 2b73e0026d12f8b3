------------------------------ MODULE Connection ------------------------------
(***************************************************************************)
(* One TCP connection from its acceptance to its end: proxy_connection of  *)
(* src/src/forwarder.rs.  The target is reached by ConnectRacing, then the *)
(* relay of Splice runs.  The client may write, close or reset while the   *)
(* race is on; nobody looks at it before the relay does.                   *)
(***************************************************************************)
EXTENDS Splice, ConnectRacing

connVars == <<vars, raceVars>>

ConnInit == Init /\ RaceInit

\* proxy_connection up to connect_racing's return; an error drops the client.
Connecting ==
  /\ RaceNext
  /\ phase' = IF race' = "failed" THEN "closed" ELSE phase
  /\ UNCHANGED <<pipes, pc, left, pipe, counted, rbuf, sbuf, readable, writable, shut, peers>>

\* The client has a socket all along; the target's comes with the stream.
PeerActs(s) == Peer(s) /\ (s = "remote" => race = "won") /\ UNCHANGED raceVars

Relaying(A) == race = "won" /\ A /\ UNCHANGED raceVars

ConnNext ==
  \/ Connecting
  \/ \E s \in Side : PeerActs(s)
  \/ Relaying(Pipes_new) \/ Relaying(Join)
  \/ \E d \in Dir : Relaying(splice_dir(d))

\* Lookups and attempts have timeouts, and the task is polled whenever a flag it waits
\* for is set.  A peer need not write, close or reset; it reads what was sent to it,
\* which DataFlows and EndsPropagate depend on.
ConnFairness ==
  /\ WF_connVars(Connecting)
  /\ WF_connVars(Relaying(Pipes_new)) /\ WF_connVars(Relaying(Join))
  /\ \A d \in Dir : WF_connVars(Relaying(splice_dir(d)))
  /\ \A s \in Side : WF_connVars(PeerReads(s) /\ UNCHANGED raceVars)

ConnSpec == ConnInit /\ [][ConnNext]_connVars /\ ConnFairness
=============================================================================
