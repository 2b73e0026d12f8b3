----------------------------- MODULE TcpForwarder -----------------------------
(***************************************************************************)
(* The life of TCP connections (run_forwarder and its connection tasks in  *)
(* forwarder.rs) under the manager that replaces the forwarder on a reload *)
(* and drains the process at shutdown.                                     *)
(*                                                                         *)
(* A generation is one run_forwarder task; a reload cancels one and starts *)
(* the next on the same port.  Connections outlive the accept loop that    *)
(* took them and share max_connections with every other forwarder.  What   *)
(* a connection relays is the business of Splice, what the monitor learns  *)
(* from it that of Monitor, and alerts that of Notifier.                   *)
(***************************************************************************)
EXTENDS Naturals, FiniteSets

CONSTANTS Conn,         \* clients' connections
          Generations,  \* bound: times the forwarder is started
          Limit,        \* max_connections; unlimited when large enough
          MaxOthers     \* bound: slots held by other forwarders

ASSUME TcpAssumption ==
  /\ IsFiniteSet(Conn) /\ Generations \in Nat \ {0}
  /\ Limit \in Nat \ {0} /\ MaxOthers \in Nat

Gen == 1..Generations

VARIABLES
  loop, cancelled, listening,  \* each generation's run_forwarder
  st, gen,                     \* each connection and the loop that took it
  permits, others,             \* conn_limit, slots held by other forwarders
  gauge,                       \* active_connections of each generation
  handle, registered,          \* the manager's map and stats registry
  reload, reloading,           \* the watcher's sync and what it replaces
  main, reaping,               \* main's shutdown, the tasks it waits for
  late,                        \* a grace window has run out
  raced,                       \* shutdown began in the middle of a sync
  foreign                      \* another process holds the port

loops == <<loop, cancelled, listening>>
conns == <<st, gen, permits, gauge>>
manager == <<handle, registered, reload, reloading>>
shutdown == <<main, reaping, late, raced>>
vars == <<loops, conns, manager, shutdown, others, foreign>>

Holding == {"spawned", "resolve", "connect", "relay"}
Counted == {"resolve", "connect", "relay", "closing"}
Held == {c \in Conn : st[c] \in Holding}
Tracked == {c \in Conn : st[c] \in Holding \cup Counted}
CountedBy(g) == {c \in Conn : st[c] \in Counted /\ gen[c] = g}

Bound(g) == loop[g] \in {"poll", "checked", "backoff"}
Alive == main # "exit"

Init ==
  /\ loop = [g \in Gen |-> IF g = 1 THEN "bind" ELSE "none"]
  /\ cancelled = {} /\ listening = {}
  /\ st = [c \in Conn |-> "out"] /\ gen = [c \in Conn |-> 1]
  /\ permits = Limit /\ others = 0 /\ gauge = [g \in Gen |-> 0]
  /\ handle = {1} /\ registered = {1} /\ reload = "idle" /\ reloading = 1
  /\ main = "run" /\ reaping = {}
  /\ late = FALSE /\ raced = FALSE /\ foreign = FALSE

-----------------------------------------------------------------------------
(* run_forwarder: the bind loop.                                           *)

SetLoop(g, s) == loop' = [loop EXCEPT ![g] = s]

PortTaken(g) == foreign \/ \E h \in Gen \ {g} : Bound(h)

\* The listener and its guard are dropped; the kernel resets the connections
\* that were waiting to be accepted.
Returned(g) ==
  /\ SetLoop(g, "done")
  /\ listening' = listening \ {g}
  /\ st' = [c \in Conn |->
              IF st[c] = "queue" /\ gen[c] = g THEN "out" ELSE st[c]]
  /\ UNCHANGED <<cancelled, gen, permits, gauge, manager, shutdown, others,
                 foreign>>

Bind(g) ==
  /\ loop[g] = "bind" /\ g \notin cancelled /\ ~PortTaken(g)
  /\ SetLoop(g, "poll") /\ listening' = listening \cup {g}
  /\ UNCHANGED <<cancelled, conns, manager, shutdown, others, foreign>>

BindFailsForGood(g) ==
  /\ loop[g] = "bind" /\ g \notin cancelled /\ PortTaken(g)
  /\ SetLoop(g, "done")
  /\ UNCHANGED <<cancelled, listening, conns, manager, shutdown, others,
                 foreign>>

BindFails(g) ==
  /\ loop[g] = "bind" /\ g \notin cancelled /\ PortTaken(g)
  /\ SetLoop(g, "wait")
  /\ UNCHANGED <<cancelled, listening, conns, manager, shutdown, others,
                 foreign>>

\* BIND_RETRY_DELAY is over.
BindAgain(g) ==
  /\ loop[g] = "wait" /\ g \notin cancelled
  /\ SetLoop(g, "bind")
  /\ UNCHANGED <<cancelled, listening, conns, manager, shutdown, others,
                 foreign>>

-----------------------------------------------------------------------------
(* run_forwarder: the accept loop.  The select polls the token first and   *)
(* the listener second; a cancellation may fall in between.                *)

LoopStops(g) ==
  /\ loop[g] \in {"bind", "wait", "poll", "backoff"} /\ g \in cancelled
  /\ Returned(g)

TokenPending(g) ==
  /\ loop[g] = "poll" /\ g \notin cancelled
  /\ SetLoop(g, "checked")
  /\ UNCHANGED <<cancelled, listening, conns, manager, shutdown, others,
                 foreign>>

NothingToAccept(g) ==
  /\ loop[g] = "checked"
  /\ \A c \in Conn : ~(st[c] = "queue" /\ gen[c] = g)
  /\ SetLoop(g, "poll")
  /\ UNCHANGED <<cancelled, listening, conns, manager, shutdown, others,
                 foreign>>

\* acquire_permit succeeds and the task is spawned with the permit.
Admitted(c) ==
  /\ permits > 0
  /\ permits' = permits - 1
  /\ st' = [st EXCEPT ![c] = "spawned"]

Rejected(c) ==
  /\ permits = 0
  /\ st' = [st EXCEPT ![c] = "out"]
  /\ UNCHANGED permits

AdmittedUnlimited(c) ==
  /\ permits' = permits - 1
  /\ st' = [st EXCEPT ![c] = "spawned"]

AcceptWaiting(g, c) ==
  /\ loop[g] = "checked" /\ st[c] = "queue" /\ gen[c] = g
  /\ Admitted(c)
  /\ SetLoop(g, "poll")
  /\ UNCHANGED <<cancelled, listening, gen, gauge, manager, shutdown, others,
                 foreign>>

AcceptUnlimited(g, c) ==
  /\ loop[g] = "checked" /\ st[c] = "queue" /\ gen[c] = g
  /\ AdmittedUnlimited(c)
  /\ SetLoop(g, "poll")
  /\ UNCHANGED <<cancelled, listening, gen, gauge, manager, shutdown, others,
                 foreign>>

Accept(g, c) ==
  /\ loop[g] = "checked" /\ st[c] = "queue" /\ gen[c] = g
  /\ Admitted(c) \/ Rejected(c)
  /\ SetLoop(g, "poll")
  /\ UNCHANGED <<cancelled, listening, gen, gauge, manager, shutdown, others,
                 foreign>>

\* The peer gave up between SYN and accept: is_transient_accept_error.
AcceptAborted(g, c) ==
  /\ loop[g] = "checked" /\ st[c] = "queue" /\ gen[c] = g
  /\ st' = [st EXCEPT ![c] = "out"] /\ SetLoop(g, "poll")
  /\ UNCHANGED <<cancelled, listening, gen, permits, gauge, manager, shutdown,
                 others, foreign>>

\* EMFILE and the like: the connection stays in the queue, the loop backs off.
AcceptExhausted(g) ==
  /\ loop[g] = "checked"
  /\ \E c \in Conn : st[c] = "queue" /\ gen[c] = g
  /\ SetLoop(g, "backoff")
  /\ UNCHANGED <<cancelled, listening, conns, manager, shutdown, others,
                 foreign>>

BackoffEnds(g) ==
  /\ loop[g] = "backoff" /\ g \notin cancelled
  /\ SetLoop(g, "poll")
  /\ UNCHANGED <<cancelled, listening, conns, manager, shutdown, others,
                 foreign>>

run_forwarder(g) ==
  \/ Bind(g) \/ BindFails(g) \/ BindAgain(g) \/ LoopStops(g)
  \/ TokenPending(g) \/ NothingToAccept(g) \/ AcceptExhausted(g)
  \/ BackoffEnds(g)
  \/ \E c \in Conn : Accept(g, c) \/ AcceptAborted(g, c)

-----------------------------------------------------------------------------
(* The connection task.  Its permit was taken before it was spawned, its   *)
(* ConnGuard is made when it first runs; at the end, or on a panic, the    *)
(* permit is dropped first and the guard second.                           *)

TaskStarts(c) ==
  /\ st[c] = "spawned"
  /\ st' = [st EXCEPT ![c] = "resolve"]
  /\ gauge' = [gauge EXCEPT ![gen[c]] = @ + 1]
  /\ UNCHANGED <<loops, gen, permits, manager, shutdown, others, foreign>>

Resolved(c) ==
  /\ st[c] = "resolve"
  /\ st' = [st EXCEPT ![c] = "connect"]
  /\ UNCHANGED <<loops, gen, permits, gauge, manager, shutdown, others,
                 foreign>>

Connected(c) ==
  /\ st[c] = "connect"
  /\ st' = [st EXCEPT ![c] = "relay"]
  /\ UNCHANGED <<loops, gen, permits, gauge, manager, shutdown, others,
                 foreign>>

TaskFailsHolding(c) ==
  /\ st[c] \in {"resolve", "connect"}
  /\ st' = [st EXCEPT ![c] = "closing"]
  /\ UNCHANGED <<loops, gen, permits, gauge, manager, shutdown, others,
                 foreign>>

\* The lookup or the connect fails or times out, or the task panics.
TaskFails(c) ==
  /\ st[c] \in {"resolve", "connect"}
  /\ st' = [st EXCEPT ![c] = "closing"]
  /\ permits' = permits + 1
  /\ UNCHANGED <<loops, gen, gauge, manager, shutdown, others, foreign>>

RelayEnds(c) ==
  /\ st[c] = "relay"
  /\ st' = [st EXCEPT ![c] = "closing"]
  /\ permits' = permits + 1
  /\ UNCHANGED <<loops, gen, gauge, manager, shutdown, others, foreign>>

GuardDropped(c) ==
  /\ st[c] = "closing"
  /\ st' = [st EXCEPT ![c] = "out"]
  /\ gauge' = [gauge EXCEPT ![gen[c]] = @ - 1]
  /\ UNCHANGED <<loops, gen, permits, manager, shutdown, others, foreign>>

Proceeds(c) ==
  TaskStarts(c) \/ Resolved(c) \/ Connected(c) \/ TaskFails(c) \/ GuardDropped(c)

-----------------------------------------------------------------------------
(* ForwarderManager::sync replacing the forwarder by its next generation.  *)

StopBegins ==
  /\ reload = "idle" /\ main \in {"run", "counted"}
  /\ \E g \in handle :
       /\ g < Generations
       /\ handle' = handle \ {g} /\ cancelled' = cancelled \cup {g}
       /\ reload' = "stop" /\ reloading' = g
  /\ UNCHANGED <<loop, listening, conns, registered, shutdown, others, foreign>>

\* The loop has returned, or STOP_LISTENER_GRACE has run out.
StopEnds ==
  /\ reload = "stop"
  /\ late' = (late \/ loop[reloading] # "done")
  /\ reload' = "start" /\ registered' = registered \ {reloading}
  /\ UNCHANGED <<loops, conns, handle, reloading, main, reaping,
                 raced, others, foreign>>

StartNext ==
  /\ reload = "start"
  /\ reload' = "idle"
  /\ handle' = handle \cup {reloading + 1}
  /\ registered' = registered \cup {reloading + 1}
  /\ SetLoop(reloading + 1, "bind")
  /\ UNCHANGED <<cancelled, listening, conns, reloading, shutdown, others,
                 foreign>>

-----------------------------------------------------------------------------
(* main after the signal, and shutdown_all.                                *)

\* The signal: main reads the gauges and raises the Stopping event.
ReportStopping ==
  /\ main = "run"
  /\ main' = "counted"
  /\ UNCHANGED <<loops, conns, manager, reaping, late, raced, others, foreign>>

CancelAll ==
  /\ main = "counted"
  /\ main' = "reap" /\ reaping' = handle /\ handle' = {}
  /\ cancelled' = cancelled \cup handle
  /\ raced' = (reload # "idle")
  /\ UNCHANGED <<loop, listening, conns, registered, reload, reloading,
                 late, others, foreign>>

ReapedAtOnce ==
  /\ main = "reap"
  /\ main' = "drain" /\ registered' = registered \ reaping
  /\ UNCHANGED <<loops, conns, handle, reload, reloading, reaping,
                 late, raced, others, foreign>>

Reaped ==
  /\ main = "reap"
  /\ late' = (late \/ \E g \in reaping : loop[g] # "done")
  /\ main' = "drain" /\ registered' = registered \ reaping
  /\ UNCHANGED <<loops, conns, handle, reload, reloading, reaping,
                 raced, others, foreign>>

DrainedUnbounded ==
  /\ main = "drain"
  /\ Tracked = {}
  /\ main' = "flush"
  /\ UNCHANGED <<loops, conns, manager, reaping, late, raced,
                 others, foreign>>

\* conn_tracker is empty, or SHUTDOWN_DRAIN_GRACE has run out.
Drained ==
  /\ main = "drain"
  /\ late' = (late \/ Tracked # {})
  /\ main' = "flush"
  /\ UNCHANGED <<loops, conns, manager, reaping, raced, others,
                 foreign>>

\* The notifier has been flushed and main returns; every task dies with it.
Exit ==
  /\ main = "flush"
  /\ main' = "exit"
  /\ UNCHANGED <<loops, conns, manager, reaping, late, raced,
                 others, foreign>>

-----------------------------------------------------------------------------
(* Clients, the port and the other forwarders.                             *)

Arrives(c) ==
  /\ st[c] = "out"
  /\ \E g \in Gen :
       /\ Bound(g)
       /\ st' = [st EXCEPT ![c] = "queue"] /\ gen' = [gen EXCEPT ![c] = g]
  /\ UNCHANGED <<loops, permits, gauge, manager, shutdown, others, foreign>>

PortChangesHands ==
  /\ foreign \/ \A g \in Gen : ~Bound(g)
  /\ foreign' = ~foreign
  /\ UNCHANGED <<loops, conns, manager, shutdown, others>>

OthersOpen ==
  /\ permits > 0 /\ others < MaxOthers
  /\ permits' = permits - 1 /\ others' = others + 1
  /\ UNCHANGED <<loops, st, gen, gauge, manager, shutdown, foreign>>

OthersClose ==
  /\ others > 0
  /\ permits' = permits + 1 /\ others' = others - 1
  /\ UNCHANGED <<loops, st, gen, gauge, manager, shutdown, foreign>>

Next ==
  /\ Alive
  /\ \/ \E g \in Gen : run_forwarder(g)
     \/ \E c \in Conn : Proceeds(c) \/ RelayEnds(c) \/ Arrives(c)
     \/ StopBegins \/ StopEnds \/ StartNext
     \/ ReportStopping \/ CancelAll \/ Reaped \/ Drained \/ Exit
     \/ PortChangesHands \/ OthersOpen \/ OthersClose

Spec == Init /\ [][Next]_vars

Step(A) == Alive /\ A

\* Tasks run when they can and timers fire: lookups and connects end by their
\* timeouts, graces run out.  Descriptors that ran out come back, so an accept
\* that keeps being tried succeeds.  Nothing makes a relay end or a signal come.
Fairness ==
  /\ \A g \in Gen :
       /\ WF_vars(Step(run_forwarder(g)))
       /\ \A c \in Conn : SF_vars(Step(Accept(g, c)))
  /\ \A c \in Conn : WF_vars(Step(Proceeds(c)))
  /\ WF_vars(Step(StopEnds)) /\ WF_vars(Step(StartNext))
  /\ WF_vars(Step(CancelAll)) /\ WF_vars(Step(Reaped))
  /\ WF_vars(Step(Drained)) /\ WF_vars(Step(Exit))

FairSpec == Spec /\ Fairness

-----------------------------------------------------------------------------
(* What the forwarder promises.                                            *)

\* The types; conn_limit never holds more permits than it was made with.
TypeOK ==
  /\ loop \in [Gen -> {"none", "bind", "wait", "poll", "checked", "backoff",
                       "done"}]
  /\ cancelled \subseteq Gen /\ listening \subseteq Gen
  /\ st \in [Conn -> {"out", "queue"} \cup Holding \cup Counted]
  /\ gen \in [Conn -> Gen]
  /\ permits \in 0..Limit /\ others \in 0..MaxOthers
  /\ gauge \in [Gen -> Nat]
  /\ handle \subseteq Gen /\ registered \subseteq Gen
  /\ reload \in {"idle", "stop", "start"} /\ reloading \in Gen
  /\ main \in {"run", "counted", "reap", "drain", "flush", "exit"}
  /\ reaping \subseteq Gen
  /\ late \in BOOLEAN /\ raced \in BOOLEAN /\ foreign \in BOOLEAN

\* Every permit of conn_limit is free or held by exactly one connection, and
\* each generation's gauge counts its running tasks, those whose forwarder a
\* reload has replaced included (ConnGuard, the permit moved into the task).
SlotsConserved ==
  /\ permits + Cardinality(Held) + others = Limit
  /\ \A g \in Gen : gauge[g] = Cardinality(CountedBy(g))

\* The drain misses no connection: unless a grace ran out or a reload was under
\* way, once conn_tracker was found empty it stays empty until the process
\* exits, although the accept loop may take one more connection after it was
\* cancelled (shutdown_all reaps the loops before it drains).
DrainMissesNone ==
  main \in {"flush", "exit"} /\ ~late /\ ~raced => Tracked = {}

\* max_connections is kept as the abstract pool of slots says, across
\* generations and forwarders.
Pool == INSTANCE SlotPool WITH Holder <- Conn, Max <- Limit, live <- Held,
                               others <- others
ImplementsPool == Pool!Spec

\* A waiting client is accepted or shed, however long the connections that
\* hold the slots last: acquire_permit does not wait.
QueueServed == \A c \in Conn : st[c] = "queue" ~> (st[c] # "queue" \/ ~Alive)

\* A forwarder that has to bind serves its port once the port is free for
\* good, unless it is stopped first.
PortReclaimed ==
  \A g \in Gen :
    <>[](~foreign) =>
      (loop[g] = "bind" ~> (g \in listening \/ g \in cancelled \/ ~Alive))

\* Shutdown ends although a relay may never end.
ShutdownCompletes == main = "counted" ~> ~Alive
=============================================================================
