----------------------------- MODULE UdpForwarder -----------------------------
(***************************************************************************)
(* One UDP forwarder (src/src/udp.rs): the bind loop and stop sequence of  *)
(* run_udp_forwarder, the Engine that owns the listener and the session    *)
(* map, one run_session task per session, and the DNS refresher that feeds *)
(* the engine through a watch channel.  The engine, the tasks and the      *)
(* refresher run on different threads: every action below is one of their  *)
(* uninterrupted steps.                                                    *)
(*                                                                         *)
(* A session's SessionShared lives in an Arc with two owners, the map      *)
(* entry and the task.  Its udp_max_sessions permit and its unit of the    *)
(* active_connections gauge are released when the last Arc goes.           *)
(*                                                                         *)
(* Time is kept as ages (milliseconds in the code, ticks here) that stop   *)
(* growing at MaxAge, the largest idle timeout the operator may set.       *)
(***************************************************************************)
EXTENDS Naturals, FiniteSets

CONSTANTS
  Client,       \* client socket addresses
  Addr,         \* addresses the target's name may resolve to
  Sess,         \* identities of SessionShared allocations
  MaxSessions,  \* udp_max_sessions, the permits of the process-wide semaphore
  Timeouts,     \* values udp_session_timeout_secs takes across reloads
  MaxAge,       \* ages are not told apart beyond this
  NoClient, NoAddr, NoSession

ASSUME UdpAssumption ==
  /\ IsFiniteSet(Sess) /\ Cardinality(Sess) >= MaxSessions
  /\ MaxSessions \in Nat \ {0}
  /\ MaxAge \in Nat \ {0}
  /\ Timeouts \subseteq 1..MaxAge
  /\ NoClient \notin Client /\ NoAddr \notin Addr /\ NoSession \notin Sess

VARIABLES
  phase,      \* where run_udp_forwarder stands
  cancelled,  \* the forwarder's CancellationToken
  foreign,    \* another process holds the local port
  listening,  \* ForwarderStats.listening, kept by ListeningGuard
  timeout,    \* RuntimeKnobs.udp_session_timeout
  refresher,  \* where run_dns_refresher stands
  published,  \* the watch channel's value
  unseen,     \* the engine's receiver has not consumed the latest value
  entry,      \* Engine.sessions
  opening,    \* what open_session has read so far
  sess,       \* the SessionShared values, their Arc counts and their tasks
  permits,    \* permits left in the udp_limit semaphore
  others,     \* permits held by the other UDP forwarders of the process
  active,     \* ForwarderStats.active_connections
  expired     \* SESSION_STOP_GRACE ran out before the tasks stopped

vars == <<phase, cancelled, foreign, listening, timeout, refresher, published,
          unseen, entry, opening, sess, permits, others, active, expired>>

dnsVars  == <<refresher, published, unseen>>
slotVars == <<permits, others, active>>
envVars  == <<cancelled, foreign, timeout>>
runVars  == <<phase, listening, expired>>

-----------------------------------------------------------------------------
Phases     == {"bind", "backoff", "run", "pause", "wait", "done"}
TaskStates == {"wait", "drain", "blocked", "dying", "gone"}
Refresher  == {"literal", "unborn", "resolve", "sleep", "gone"}

\* A resolved answer: new sessions use the first address; two answers are the
\* same when their sets are (same_addr_set).
NoAnswer == [first |-> NoAddr, set |-> {}]
Answers  == {a \in [first : Addr, set : SUBSET Addr] : a.first \in a.set}

NoOpening == [client |-> NoClient, remote |-> NoAddr]

Session == [refs : 0..2, client : Client \cup {NoClient}, remote : Addr \cup {NoAddr},
            task : TaskStates, dead : BOOLEAN, closed : BOOLEAN,
            idle : 0..MaxAge, began : 0..MaxAge, replied : BOOLEAN]

\* The state of an identity no Arc refers to.
Freed == [refs |-> 0, client |-> NoClient, remote |-> NoAddr, task |-> "gone",
          dead |-> FALSE, closed |-> FALSE, idle |-> 0, began |-> 0, replied |-> FALSE]

\* open_session's SessionShared: one Arc for the map, one for the task.
Fresh(c, a) == [refs |-> 2, client |-> c, remote |-> a, task |-> "wait",
                dead |-> FALSE, closed |-> FALSE, idle |-> 0, began |-> 0, replied |-> FALSE]

Init ==
  /\ phase = "bind" /\ listening = FALSE /\ expired = FALSE
  /\ cancelled = FALSE /\ foreign \in BOOLEAN /\ timeout \in Timeouts
  /\ \/ refresher = "unborn"  /\ published = NoAnswer
     \/ refresher = "literal" /\ \E a \in Addr : published = [first |-> a, set |-> {a}]
  /\ unseen = FALSE
  /\ entry = [c \in Client |-> NoSession]
  /\ opening = NoOpening
  /\ sess = [s \in Sess |-> Freed]
  /\ permits = MaxSessions /\ others = 0 /\ active = 0

-----------------------------------------------------------------------------
Mapped     == {s \in Sess : \E c \in Client : entry[c] = s}
Live       == {s \in Sess : sess[s].refs > 0}
Running    == {s \in Sess : sess[s].task # "gone"}
EngineIdle == phase = "run" /\ opening = NoOpening

\* The session's token is a child of the forwarder's.
TokenCancelled(s) == cancelled \/ sess[s].closed

Older(n) == IF n < MaxAge THEN n + 1 ELSE MaxAge

DropArc(r) == IF r.refs = 1 THEN Freed ELSE [r EXCEPT !.refs = @ - 1]

\* ConnGuard and OwnedSemaphorePermit are dropped with the last Arc.
ReleaseSlots(S) ==
  /\ permits' = permits + Cardinality(S)
  /\ active' = active - Cardinality(S)
  /\ UNCHANGED others

\* Mutant: the entry goes without a cancel (dropping a token cancels nothing).
CloseEntriesSilently(S) ==
  /\ entry' = [c \in Client |-> IF entry[c] \in S THEN NoSession ELSE entry[c]]
  /\ sess' = [s \in Sess |-> IF s \in S THEN DropArc(sess[s]) ELSE sess[s]]
  /\ ReleaseSlots({s \in S : sess[s].refs = 1})

\* close_entry on every entry of S, and the entries leave the map.
CloseEntries(S) ==
  /\ entry' = [c \in Client |-> IF entry[c] \in S THEN NoSession ELSE entry[c]]
  /\ sess' = [s \in Sess |-> IF s \in S THEN DropArc([sess[s] EXCEPT !.closed = TRUE])
                                        ELSE sess[s]]
  /\ ReleaseSlots({s \in S : sess[s].refs = 1})

-----------------------------------------------------------------------------
(* The bind loop of run_udp_forwarder. *)

Bound ==
  /\ phase = "bind" /\ ~cancelled /\ ~foreign
  /\ phase' = "run" /\ listening' = TRUE
  /\ refresher' = IF refresher = "unborn" THEN "resolve" ELSE refresher
  /\ UNCHANGED <<envVars, expired, published, unseen, entry, opening, sess, slotVars>>

BindFailed ==
  /\ phase = "bind" /\ ~cancelled /\ foreign
  /\ phase' = "backoff"
  /\ UNCHANGED <<envVars, listening, expired, dnsVars, entry, opening, sess, slotVars>>

BindRetry ==
  /\ phase = "backoff" /\ ~cancelled
  /\ phase' = "bind"
  /\ UNCHANGED <<envVars, listening, expired, dnsVars, entry, opening, sess, slotVars>>

StopUnbound ==
  /\ phase \in {"bind", "backoff"} /\ cancelled
  /\ phase' = "done"
  /\ UNCHANGED <<envVars, listening, expired, dnsVars, entry, opening, sess, slotVars>>

-----------------------------------------------------------------------------
(* Engine::run. *)

\* forward_upstream on an open session.  A failed send leaves the session as
\* it is; a successful one touches it.
ForwardDatagram(c) ==
  LET s == entry[c] IN
  /\ EngineIdle /\ s # NoSession /\ ~sess[s].dead
  /\ sess' = [sess EXCEPT ![s].idle = 0]
  /\ UNCHANGED <<runVars, envVars, dnsVars, entry, opening, slotVars>>

\* on_client_datagram for a client without a usable session: a dead entry is
\* closed, then open_session reads the target to use.  Without one the
\* datagram is dropped.
BeginOpen(c) ==
  LET s == entry[c] IN
  /\ EngineIdle
  /\ s # NoSession => sess[s].dead
  /\ CloseEntries({s} \cap Sess)
  /\ opening' = IF published = NoAnswer THEN NoOpening
                ELSE [client |-> c, remote |-> published.first]
  /\ UNCHANGED <<runVars, envVars, dnsVars>>

\* udp_max_sessions is reached: the datagram is dropped.
OpenRejected ==
  /\ phase = "run" /\ opening # NoOpening /\ permits = 0
  /\ opening' = NoOpening
  /\ UNCHANGED <<runVars, envVars, dnsVars, entry, sess, slotVars>>

\* Mutant: the permit is forgotten on the error path.
ConnectFailsLeaking ==
  /\ phase = "run" /\ opening # NoOpening /\ permits > 0
  /\ opening' = NoOpening /\ permits' = permits - 1
  /\ UNCHANGED <<runVars, envVars, dnsVars, entry, sess, others, active>>

\* connect_upstream fails: the datagram is dropped and the permit returned.
ConnectFails ==
  /\ phase = "run" /\ opening # NoOpening /\ permits > 0
  /\ opening' = NoOpening
  /\ UNCHANGED <<runVars, envVars, dnsVars, entry, sess, slotVars>>

OpenSession ==
  /\ phase = "run" /\ opening # NoOpening /\ permits > 0
  /\ \E s \in Sess \ Live :
       /\ sess' = [sess EXCEPT ![s] = Fresh(opening.client, opening.remote)]
       /\ entry' = [entry EXCEPT ![opening.client] = s]
  /\ permits' = permits - 1 /\ active' = active + 1
  /\ opening' = NoOpening
  /\ UNCHANGED <<runVars, envVars, dnsVars, others>>

Sweep ==
  /\ EngineIdle
  /\ CloseEntries({s \in Mapped : sess[s].dead \/ sess[s].idle >= timeout})
  /\ UNCHANGED <<runVars, envVars, dnsVars, opening>>

\* Mutant: the change is handled while open_session is under way.
OnTargetsChangedDuring ==
  /\ phase = "run" /\ unseen
  /\ unseen' = FALSE
  /\ CloseEntries({s \in Mapped : sess[s].remote \notin published.set})
  /\ UNCHANGED <<runVars, envVars, refresher, published, opening>>

\* The sessions on addresses that are gone are closed.
OnTargetsChanged ==
  /\ EngineIdle /\ unseen
  /\ unseen' = FALSE
  /\ CloseEntries({s \in Mapped : sess[s].remote \notin published.set})
  /\ UNCHANGED <<runVars, envVars, refresher, published, opening>>

\* A listener error that is not about one datagram: RECV_ERROR_BACKOFF.
RecvFailed ==
  /\ EngineIdle
  /\ phase' = "pause"
  /\ UNCHANGED <<listening, expired, envVars, dnsVars, entry, opening, sess, slotVars>>

Resume ==
  /\ phase = "pause" /\ ~cancelled
  /\ phase' = "run"
  /\ UNCHANGED <<listening, expired, envVars, dnsVars, entry, opening, sess, slotVars>>

\* run returns, close_all, drop(engine), tasks.close().
EngineStop ==
  /\ EngineIdle \/ phase = "pause"
  /\ cancelled
  /\ phase' = "wait"
  /\ CloseEntries(Mapped)
  /\ UNCHANGED <<listening, expired, envVars, dnsVars, opening>>

TasksRunning == Running # {} \/ refresher \in {"resolve", "sleep"}

\* Mutant: the tasks are not waited for.
TasksNotAwaited ==
  /\ phase = "wait"
  /\ phase' = "done" /\ listening' = FALSE
  /\ UNCHANGED <<expired, envVars, dnsVars, entry, opening, sess, slotVars>>

\* tasks.wait() resolves; returning drops the ListeningGuard.
TasksStopped ==
  /\ phase = "wait" /\ ~TasksRunning
  /\ phase' = "done" /\ listening' = FALSE
  /\ UNCHANGED <<expired, envVars, dnsVars, entry, opening, sess, slotVars>>

StopGraceExpires ==
  /\ phase = "wait" /\ TasksRunning
  /\ phase' = "done" /\ listening' = FALSE /\ expired' = TRUE
  /\ UNCHANGED <<envVars, dnsVars, entry, opening, sess, slotVars>>

-----------------------------------------------------------------------------
(* run_session. *)

\* The task of s returns and drops its Arc.
TaskReturns(s) ==
  /\ sess' = [sess EXCEPT ![s] = DropArc([sess[s] EXCEPT !.task = "gone"])]
  /\ ReleaseSlots({t \in {s} : sess[t].refs = 1})
  /\ UNCHANGED <<runVars, envVars, dnsVars, entry, opening>>

SetSession(s, r) ==
  /\ sess' = [sess EXCEPT ![s] = r]
  /\ UNCHANGED <<runVars, envVars, dnsVars, entry, opening, slotVars>>

\* What drain_upstream leaves behind after its loop: touch(now_ms) with the
\* clock read when the drain began, if any reply was received.
Drained(r, task) ==
  [r EXCEPT !.task = task, !.began = 0, !.replied = FALSE,
            !.idle = IF r.replied /\ r.began < @ THEN r.began ELSE @]

\* Mutant: a pending send is awaited without watching the token.
SessionCancelledIdle(s) ==
  /\ sess[s].task = "wait" /\ TokenCancelled(s)
  /\ TaskReturns(s)

SessionCancelled(s) ==
  /\ sess[s].task \in {"wait", "blocked"} /\ TokenCancelled(s)
  /\ TaskReturns(s)

SessionReady(s) ==
  /\ sess[s].task = "wait" /\ ~TokenCancelled(s)
  /\ SetSession(s, [sess[s] EXCEPT !.task = "drain"])

ReadinessFails(s) ==
  /\ sess[s].task = "wait" /\ ~TokenCancelled(s)
  /\ SetSession(s, [sess[s] EXCEPT !.task = "dying", !.dead = TRUE])

\* A reply is received and sent on, or dropped because the send failed.
RelayReply(s) ==
  /\ sess[s].task = "drain"
  /\ SetSession(s, [sess[s] EXCEPT !.replied = TRUE])

\* Nothing more to read, or SESSION_BATCH datagrams were.
DrainEnds(s) ==
  /\ sess[s].task = "drain"
  /\ SetSession(s, Drained(sess[s], "wait"))

\* The listener's send buffer is full: the reply is kept in Pending.
ReplyBlocks(s) ==
  /\ sess[s].task = "drain"
  /\ SetSession(s, Drained([sess[s] EXCEPT !.replied = TRUE], "blocked"))

ReceiveFatal(s) ==
  /\ sess[s].task = "drain"
  /\ SetSession(s, Drained([sess[s] EXCEPT !.dead = TRUE], "dying"))

PendingSent(s) ==
  /\ sess[s].task = "blocked" /\ ~TokenCancelled(s)
  /\ SetSession(s, [sess[s] EXCEPT !.task = "wait"])

SessionDies(s) ==
  /\ sess[s].task = "dying"
  /\ TaskReturns(s)

-----------------------------------------------------------------------------
(* run_dns_refresher. *)

Resolved(a) ==
  /\ refresher = "resolve" /\ ~cancelled
  /\ refresher' = "sleep"
  /\ IF a.set = published.set THEN UNCHANGED <<published, unseen>>
                              ELSE published' = a /\ unseen' = TRUE
  /\ UNCHANGED <<runVars, envVars, entry, opening, sess, slotVars>>

ResolveFails ==
  /\ refresher = "resolve" /\ ~cancelled
  /\ refresher' = "sleep"
  /\ UNCHANGED <<runVars, envVars, published, unseen, entry, opening, sess, slotVars>>

RefresherWakes ==
  /\ refresher = "sleep" /\ ~cancelled
  /\ refresher' = "resolve"
  /\ UNCHANGED <<runVars, envVars, published, unseen, entry, opening, sess, slotVars>>

\* Mutant: a resolution under way is awaited without watching the token.
RefresherStopsAsleep ==
  /\ refresher = "sleep" /\ cancelled
  /\ refresher' = "gone"
  /\ UNCHANGED <<runVars, envVars, published, unseen, entry, opening, sess, slotVars>>

RefresherStops ==
  /\ refresher \in {"resolve", "sleep"} /\ cancelled
  /\ refresher' = "gone"
  /\ UNCHANGED <<runVars, envVars, published, unseen, entry, opening, sess, slotVars>>

-----------------------------------------------------------------------------
(* What happens around the forwarder: time, the manager's cancel, a reload *)
(* of the timeout, the port, and the other UDP forwarders' sessions.       *)

Tick ==
  /\ sess' = [s \in Sess |->
       IF s \in Live
       THEN [sess[s] EXCEPT !.idle = Older(@),
                            !.began = IF sess[s].task = "drain" THEN Older(@) ELSE @]
       ELSE sess[s]]
  /\ UNCHANGED <<runVars, envVars, dnsVars, entry, opening, slotVars>>

Cancel ==
  /\ ~cancelled /\ cancelled' = TRUE
  /\ UNCHANGED <<runVars, foreign, timeout, dnsVars, entry, opening, sess, slotVars>>

ReloadTimeout(t) ==
  /\ timeout' = t
  /\ UNCHANGED <<runVars, cancelled, foreign, dnsVars, entry, opening, sess, slotVars>>

PortChangesHands ==
  /\ phase \in {"bind", "backoff"} /\ foreign' = ~foreign
  /\ UNCHANGED <<runVars, cancelled, timeout, dnsVars, entry, opening, sess, slotVars>>

OthersOpen ==
  /\ permits > 0 /\ permits' = permits - 1 /\ others' = others + 1
  /\ UNCHANGED <<runVars, envVars, dnsVars, entry, opening, sess, active>>

OthersClose ==
  /\ others > 0 /\ permits' = permits + 1 /\ others' = others - 1
  /\ UNCHANGED <<runVars, envVars, dnsVars, entry, opening, sess, active>>

-----------------------------------------------------------------------------
BindLoop == Bound \/ BindFailed \/ BindRetry \/ StopUnbound

Engine ==
  \/ \E c \in Client : ForwardDatagram(c) \/ BeginOpen(c)
  \/ OpenRejected \/ ConnectFails \/ OpenSession \/ Sweep \/ OnTargetsChanged
  \/ RecvFailed \/ Resume \/ EngineStop \/ TasksStopped \/ StopGraceExpires

SessionTask(s) ==
  \/ SessionCancelled(s) \/ SessionReady(s) \/ ReadinessFails(s) \/ RelayReply(s)
  \/ DrainEnds(s) \/ ReplyBlocks(s) \/ ReceiveFatal(s) \/ PendingSent(s) \/ SessionDies(s)

DnsRefresher ==
  \/ \E a \in Answers : Resolved(a)
  \/ ResolveFails \/ RefresherWakes \/ RefresherStops

Environment ==
  \/ Tick \/ Cancel \/ PortChangesHands \/ OthersOpen \/ OthersClose
  \/ \E t \in Timeouts : ReloadTimeout(t)

Next == BindLoop \/ Engine \/ (\E s \in Sess : SessionTask(s)) \/ DnsRefresher \/ Environment

Spec == Init /\ [][Next]_vars

-----------------------------------------------------------------------------
(* Fairness.  Every task is scheduled, so its enabled steps are taken: the  *)
(* engine's open_session and drain_upstream are synchronous, a cancelled    *)
(* task is woken by its token.  Engine::run's select! is biased: at every   *)
(* turn of its loop it polls the token, then the sweep interval, then the   *)
(* watch channel, and only then the socket, so datagrams that keep coming   *)
(* cannot keep it from those three (strong fairness).  Nothing is assumed   *)
(* of clients, targets, the resolver or a full send buffer.                 *)

OpenEnds == OpenRejected \/ ConnectFails \/ OpenSession

DrainReturns(s) == DrainEnds(s) \/ ReplyBlocks(s) \/ ReceiveFatal(s)

Fairness ==
  /\ WF_vars(StopUnbound) /\ WF_vars(OpenEnds) /\ WF_vars(Resume)
  /\ SF_vars(EngineStop) /\ SF_vars(Sweep) /\ SF_vars(OnTargetsChanged)
  /\ WF_vars(TasksStopped) /\ WF_vars(RefresherStops)
  /\ \A s \in Sess : /\ WF_vars(SessionCancelled(s))
                     /\ WF_vars(DrainReturns(s))
                     /\ WF_vars(SessionDies(s))

FairSpec == Spec /\ Fairness

-----------------------------------------------------------------------------
(* Properties. *)

\* The type of every variable.
TypeOK ==
  /\ phase \in Phases /\ refresher \in Refresher
  /\ cancelled \in BOOLEAN /\ foreign \in BOOLEAN /\ listening \in BOOLEAN
  /\ unseen \in BOOLEAN /\ expired \in BOOLEAN
  /\ timeout \in Timeouts
  /\ published \in Answers \cup {NoAnswer}
  /\ opening \in [client : Client, remote : Addr] \cup {NoOpening}
  /\ entry \in [Client -> Sess \cup {NoSession}]
  /\ sess \in [Sess -> Session]
  /\ permits \in Nat /\ others \in Nat /\ active \in Nat

\* The udp_max_sessions permits are either free, held by another forwarder or
\* held by exactly one existing SessionShared of this one, whatever way it was
\* opened and closed, and the active_connections gauge counts the latter: no
\* path of open_session, close_entry or run_session leaks or doubles a slot.
SlotsConserved ==
  /\ permits + others + Cardinality(Live) = MaxSessions
  /\ active = Cardinality(Live)

\* While the forwarder is not being stopped, a client's map entry leads to a
\* session opened for that very client, whose reply task runs uncancelled or
\* which is marked dead and will be replaced: on_client_datagram never feeds a
\* session that nobody reads replies from, or whose replies go elsewhere.
MappedIsServed ==
  \A c \in Client : entry[c] # NoSession =>
    LET r == sess[entry[c]] IN
    /\ r.client = c
    /\ cancelled \/ r.dead \/ (r.task # "gone" /\ ~r.closed)

\* A reply task that is no longer reachable from the session map has been told
\* to stop: every path that drops an entry goes through close_entry.
UnmappedIsCancelled == \A s \in Running \ Mapped : TokenCancelled(s)

\* The session map and the reply tasks agree, see the two above.
MapMatchesTasks == MappedIsServed /\ UnmappedIsCancelled

\* Once the engine has consumed the latest DNS answer no session, nor one
\* being opened, is bound to an address that is not published: open_session
\* may read the channel before on_targets_changed does, and the refresher may
\* publish between the two.
RetiredAddressClosed ==
  phase = "run" /\ ~unseen =>
    /\ \A s \in Mapped : sess[s].remote \in published.set
    /\ opening # NoOpening => opening.remote \in published.set

\* The sessions of this forwarder and of the others are the holders of an
\* abstract pool of udp_max_sessions slots: open_session takes a slot only while
\* one is left, and a slot is never handed to two sessions.
Pool == INSTANCE SlotPool WITH Holder <- Sess, Max <- MaxSessions, live <- Live

ImplementsPool == Pool!Spec

\* When run_udp_forwarder returns with its tasks stopped, nothing of it is
\* left: no task holds the listener socket, and every slot has been returned.
ReturnReleasesAll ==
  phase = "done" /\ ~expired => Live = {} /\ ~TasksRunning /\ active = 0

\* A session that is dead, or has been idle for the timeout in force, leaves
\* the map, unless traffic or a longer timeout revives it first; so does one
\* bound to an address that left the DNS answer, unless it comes back first.
UnusableReaped ==
  \A s \in Sess :
    /\ (s \in Mapped /\ (sess[s].dead \/ sess[s].idle >= timeout))
         ~> (s \notin Mapped \/ (~sess[s].dead /\ sess[s].idle < timeout))
    /\ (s \in Mapped /\ sess[s].remote \notin published.set)
         ~> (s \notin Mapped \/ sess[s].remote \in published.set)

\* The slot of a closed session comes back, even if its task was blocked on a
\* full send buffer when it was closed.
ClosedIsFreed == \A s \in Sess : sess[s].closed ~> ~sess[s].closed

\* A session that is of no more use leaves the map and then gives its slot back, see
\* the two above.
SessionsEnd == UnusableReaped /\ ClosedIsFreed

\* A cancelled forwarder returns and ends with every slot returned and no task
\* left, also when the stop grace ran out first.
StopCompletes == cancelled ~> (phase = "done" /\ Live = {} /\ ~TasksRunning)

=============================================================================
