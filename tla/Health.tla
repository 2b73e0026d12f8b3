-------------------------------- MODULE Health --------------------------------
(***************************************************************************)
(* The stats endpoint (serve and handle_conn of src/src/metrics.rs), the   *)
(* registry and listening flags it reads (src/src/stats.rs), and the       *)
(* health check that asks it (health_check, `rfw --health-check').         *)
(*                                                                         *)
(* Forwarders come, bind, stop and panic while requests are answered.  The *)
(* read deadline and the probe's timeout may run out at any moment: a late *)
(* answer races them.  Bodies are what they tell: the status.              *)
(*                                                                         *)
(* steady, served and dark are history of a health check: the forwarders   *)
(* that were registered and not told to stop all along, those that served  *)
(* at some moment, and whether a registered one did not at some moment.    *)
(***************************************************************************)
EXTENDS Naturals, FiniteSets

CONSTANTS
  Label,       \* forwarders
  Probe,       \* health checks
  Scraper,     \* other clients of the endpoint
  MaxInFlight  \* MAX_CONCURRENT_REQUESTS

ASSUME HealthAssumption ==
  /\ IsFiniteSet(Probe \cup Scraper) /\ Probe \cap Scraper = {}
  /\ MaxInFlight \in Nat \ {0}

VARIABLES
  fwd,        \* each forwarder's run_forwarder or run_udp_forwarder
  cancelled,  \* forwarders that were told to stop
  registry,   \* StatsRegistry
  listening,  \* ForwarderStats.listening
  server,     \* serve
  limiter,    \* free permits of serve
  req,        \* handle_conn of each client
  history     \* of each health check

fwdVars == <<fwd, cancelled, registry, listening>>
vars    == <<fwdVars, server, limiter, req, history>>

Request == Probe \cup Scraper
Quiet   == [pc |-> "idle", todo |-> {}, unbound |-> FALSE, status |-> "none"]

Init ==
  /\ fwd = [l \in Label |-> "binding"] /\ cancelled = {} /\ registry = Label
  /\ listening = {}
  /\ server = "bind" /\ limiter = MaxInFlight
  /\ req = [r \in Request |-> Quiet]
  /\ history = [p \in Probe |-> [steady |-> {}, served |-> {}, dark |-> FALSE]]

Served(f) == {l \in Label : f[l] = "serving"}

\* What a step of a forwarder adds to the history of the checks under way.
Witness ==
  history' = [p \in Probe |->
    IF req[p].pc = "idle" THEN history[p]
    ELSE [steady |-> (history[p].steady \cap registry') \ cancelled',
          served |-> history[p].served \cup Served(fwd'),
          dark   |-> history[p].dark \/ registry' \ Served(fwd') # {}]]

-----------------------------------------------------------------------------
(* Forwarders, as far as the registry sees them.                           *)

\* collect holds the registry's read lock.
Unlocked == \A r \in Request : req[r].pc # "collect"

\* start_one: registered with fresh stats, then spawned.
Register(l) ==
  /\ l \notin registry /\ fwd[l] = "gone" /\ Unlocked
  /\ registry' = registry \cup {l} /\ fwd' = [fwd EXCEPT ![l] = "binding"]
  /\ cancelled' = cancelled \ {l} /\ listening' = listening \ {l}
  /\ UNCHANGED <<server, limiter, req>>
  /\ Witness

\* The bind succeeds, at once or after retries: ListeningGuard::new.
Binds(l) ==
  /\ fwd[l] = "binding" /\ l \notin cancelled
  /\ fwd' = [fwd EXCEPT ![l] = "serving"] /\ listening' = listening \cup {l}
  /\ UNCHANGED <<cancelled, registry, server, limiter, req>>
  /\ Witness

\* stop_one or shutdown_all cancels the token.
Stops(l) ==
  /\ l \in registry \ cancelled
  /\ cancelled' = cancelled \cup {l}
  /\ UNCHANGED <<fwd, registry, listening, server, limiter, req>>
  /\ Witness

\* The loop ends; a UDP forwarder then waits for its sessions.
LoopEnds(l) ==
  /\ fwd[l] = "serving" /\ l \in cancelled
  /\ fwd' = [fwd EXCEPT ![l] = "ending"]
  /\ UNCHANGED <<cancelled, registry, listening, server, limiter, req>>
  /\ Witness

\* The task returns and drops its ListeningGuard.
Returns(l) ==
  /\ fwd[l] \in {"binding", "ending"} /\ l \in cancelled
  /\ fwd' = [fwd EXCEPT ![l] = "gone"] /\ listening' = listening \ {l}
  /\ UNCHANGED <<cancelled, registry, server, limiter, req>>
  /\ Witness

\* Slip: the flag is not cleared on the way out of a panic.
PanicsListed(l) ==
  /\ fwd[l] = "serving"
  /\ fwd' = [fwd EXCEPT ![l] = "gone"]
  /\ UNCHANGED <<cancelled, registry, listening, server, limiter, req>>
  /\ Witness

\* The loop panics: the guard is dropped by the unwinding.
Panics(l) ==
  /\ fwd[l] = "serving"
  /\ fwd' = [fwd EXCEPT ![l] = "gone"] /\ listening' = listening \ {l}
  /\ UNCHANGED <<cancelled, registry, server, limiter, req>>
  /\ Witness

\* stop_one, after the grace at most.  What a task does after that is seen by nobody.
Removes(l) ==
  /\ l \in registry \cap cancelled /\ Unlocked
  /\ registry' = registry \ {l} /\ fwd' = [fwd EXCEPT ![l] = "gone"]
  /\ listening' = listening \ {l}
  /\ UNCHANGED <<cancelled, server, limiter, req>>
  /\ Witness

Forwarder(l) ==
  Register(l) \/ Binds(l) \/ Stops(l) \/ LoopEnds(l) \/ Returns(l) \/ Panics(l) \/ Removes(l)

-----------------------------------------------------------------------------
(* serve.                                                                  *)

Ends(r, status) == req' = [req EXCEPT ![r] = [Quiet EXCEPT !.pc = "answered", !.status = status]]

ServeBinds ==
  /\ server = "bind" /\ server' \in {"accept", "stopped"}
  /\ UNCHANGED <<fwdVars, limiter, req, history>>

\* A request gets a permit and a task, or is shed.
Accept(r) ==
  /\ server = "accept" /\ req[r].pc = "queued"
  /\ IF limiter > 0 THEN limiter' = limiter - 1 /\ req' = [req EXCEPT ![r].pc = "read"]
                    ELSE Ends(r, "none") /\ UNCHANGED limiter
  /\ UNCHANGED <<fwdVars, server, history>>

\* No descriptor is left for the next connection.
AcceptFails ==
  /\ server = "accept" /\ server' = "backoff"
  /\ UNCHANGED <<fwdVars, limiter, req, history>>

BackoffEnds ==
  /\ server = "backoff" /\ server' = "accept"
  /\ UNCHANGED <<fwdVars, limiter, req, history>>

\* stats_cancel: what is queued is refused, what was accepted goes on.
ServeStops ==
  /\ server \in {"accept", "backoff"} /\ server' = "stopped"
  /\ req' = [r \in Request |-> IF req[r].pc = "queued" THEN [Quiet EXCEPT !.pc = "answered"] ELSE req[r]]
  /\ UNCHANGED <<fwdVars, limiter, history>>

Serve == ServeBinds \/ (\E r \in Request : Accept(r)) \/ AcceptFails \/ BackoffEnds \/ ServeStops

-----------------------------------------------------------------------------
(* handle_conn.                                                            *)

InFlight(r) == req[r].pc \in {"read", "collect", "respond"}

\* The head is complete, the cap is reached or the client has closed its side:
\* parse_request_target chooses the route.  A health check asks for "/".
HeadRead(r) ==
  /\ req[r].pc = "read"
  /\ \/ req' = [req EXCEPT ![r] = [@ EXCEPT !.pc = "collect", !.todo = registry]]
     \/ r \in Scraper /\ req' = [req EXCEPT ![r] = [@ EXCEPT !.pc = "respond", !.status = "404"]]
  /\ UNCHANGED <<fwdVars, server, limiter, history>>

\* Slip: the deadline starts the read over.
HeadExpiresAgain(r) ==
  /\ req[r].pc = "read"
  /\ UNCHANGED vars

\* The read deadline passes, or the read fails.
HeadExpires(r) ==
  /\ req[r].pc = "read"
  /\ limiter' = limiter + 1 /\ Ends(r, "none")
  /\ UNCHANGED <<fwdVars, server, history>>

\* StatsRegistry::collect and ForwarderStats::snapshot: one flag after the other.
Collects(r, l) ==
  /\ req[r].pc = "collect" /\ l \in req[r].todo
  /\ req' = [req EXCEPT ![r] = [req[r] EXCEPT !.todo = req[r].todo \ {l},
                                              !.unbound = req[r].unbound \/ l \notin listening]]
  /\ UNCHANGED <<fwdVars, server, limiter, history>>

\* render_health for a health check; the other routes always have a body.
render_health(r) == IF r \in Probe /\ req[r].unbound THEN "503" ELSE "200"

Collected(r) ==
  /\ req[r].pc = "collect" /\ req[r].todo = {}
  /\ req' = [req EXCEPT ![r] = [Quiet EXCEPT !.pc = "respond", !.status = render_health(r)]]
  /\ UNCHANGED <<fwdVars, server, limiter, history>>

\* write_all and shutdown, or an error; the task ends and its permit is free.
Responds(r) ==
  /\ req[r].pc = "respond"
  /\ \E status \in {req[r].status, "none"} : Ends(r, status)
  /\ limiter' = limiter + 1
  /\ UNCHANGED <<fwdVars, server, history>>

handle_conn(r) == HeadRead(r) \/ HeadExpires(r) \/ (\E l \in Label : Collects(r, l)) \/ Collected(r) \/ Responds(r)

-----------------------------------------------------------------------------
(* The clients.                                                            *)

Connects(r) ==
  /\ req[r].pc = "idle" /\ server \in {"accept", "backoff"}
  /\ req' = [req EXCEPT ![r].pc = "queued"]
  /\ history' = [p \in Probe |->
       IF p # r THEN history[p]
       ELSE [steady |-> registry \ cancelled, served |-> Served(fwd), dark |-> registry \ Served(fwd) # {}]]
  /\ UNCHANGED <<fwdVars, server, limiter>>

\* health_check has its verdict, or the scraper its answer.
Finishes(r) ==
  /\ req[r].pc = "answered"
  /\ req' = [req EXCEPT ![r] = Quiet]
  /\ history' = [p \in Probe |-> IF p = r THEN [steady |-> {}, served |-> {}, dark |-> FALSE] ELSE history[p]]
  /\ UNCHANGED <<fwdVars, server, limiter>>

\* health_check's timeout while its connection waits in the backlog; one that runs out
\* later ends the request with no answer (HeadExpires, Responds).
GivesUp(p) ==
  /\ p \in Probe /\ req[p].pc = "queued" /\ Ends(p, "none")
  /\ UNCHANGED <<fwdVars, server, limiter, history>>

Client(r) == Connects(r) \/ Finishes(r) \/ GivesUp(r)

Next ==
  \/ \E l \in Label : Forwarder(l)
  \/ Serve
  \/ \E r \in Request : handle_conn(r) \/ Client(r)

Spec == Init /\ [][Next]_vars

\* The runtime polls what is ready, and the read deadline comes.  A client need not send
\* a head, but it reads its answer: the code has no deadline for one that does not.
Fairness ==
  \A r \in Request :
    /\ WF_vars(HeadExpires(r))
    /\ WF_vars((\E l \in Label : Collects(r, l)) \/ Collected(r))
    /\ WF_vars(Responds(r))

FairSpec == Spec /\ Fairness

-----------------------------------------------------------------------------
(* What the endpoint promises.                                             *)

\* The types.
TypeOK ==
  /\ fwd \in [Label -> {"binding", "serving", "ending", "gone"}]
  /\ cancelled \subseteq Label /\ registry \subseteq Label /\ listening \subseteq Label
  /\ server \in {"bind", "accept", "backoff", "stopped"} /\ limiter \in 0 .. MaxInFlight
  /\ req \in [Request -> [pc : {"idle", "queued", "read", "collect", "respond", "answered"},
                          todo : SUBSET Label, unbound : BOOLEAN, status : {"none", "200", "404", "503"}]]
  /\ history \in [Probe -> [steady : SUBSET Label, served : SUBSET Label, dark : BOOLEAN]]

\* "`200' only while every registered forwarder has its listener bound", as far as a
\* check that reads the flags one by one can tell: a healthy verdict means that every
\* forwarder that was registered and not told to stop all along served at some moment
\* of the check, an unhealthy one that some registered forwarder did not at some moment,
\* through reloads, retried binds and panics (render_health, ListeningGuard).
HealthTellsTruth ==
  [][\A p \in Probe : req[p].pc = "respond" =>
       /\ req'[p].status = "200" => history[p].steady \subseteq history[p].served
       /\ req'[p].status = "503" => history[p].dark]_vars

\* The permits are free or held by one request each, and every request that holds one
\* gives it back although its client may never send a head (REQUEST_READ_TIMEOUT).
PermitsComeBack ==
  /\ [](limiter + Cardinality({r \in Request : InFlight(r)}) = MaxInFlight)
  /\ \A r \in Request : InFlight(r) ~> ~InFlight(r)
=============================================================================
