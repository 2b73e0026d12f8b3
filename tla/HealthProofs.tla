----------------------------- MODULE HealthProofs -----------------------------
(***************************************************************************)
(* The stats endpoint, for any number of forwarders, health checks,        *)
(* scrapers and permits: what a health check answers is true of the time   *)
(* it took, and no permit is lost or given twice.                          *)
(***************************************************************************)
EXTENDS Health, FiniteSetTheorems, TLAPS

ReqState == [pc : {"idle", "queued", "read", "collect", "respond", "answered"},
             todo : SUBSET Label, unbound : BOOLEAN, status : {"none", "200", "404", "503"}]

Record == [steady : SUBSET Label, served : SUBSET Label, dark : BOOLEAN]

\* The listening flags are those of the tasks that hold a ListeningGuard, and only
\* a cancelled forwarder has its flag up without serving.
FlagInv ==
  /\ listening = {l \in Label : fwd[l] \in {"serving", "ending"}}
  /\ \A l \in Label : fwd[l] = "ending" => l \in cancelled

\* The history of a check under way covers the present.
WitnessInv(p) ==
  req[p].pc # "idle" =>
    /\ history[p].steady \subseteq registry \ cancelled
    /\ Served(fwd) \subseteq history[p].served
    /\ registry \ Served(fwd) # {} => history[p].dark

\* What a check has seen so far is borne out by the history.
CheckInv(p) ==
  /\ req[p].pc \in {"idle", "queued", "read"} => ~req[p].unbound
  /\ req[p].pc = "collect" =>
       /\ req[p].todo \subseteq registry
       /\ req[p].unbound => history[p].dark
       /\ ~req[p].unbound => history[p].steady \ req[p].todo \subseteq history[p].served
  /\ req[p].pc = "respond" =>
       /\ req[p].status = "200" => history[p].steady \subseteq history[p].served
       /\ req[p].status = "503" => history[p].dark

TruthInv == FlagInv /\ \A p \in Probe : WitnessInv(p) /\ CheckInv(p)

Holders == {r \in Request : InFlight(r)}

\* Every permit is free or held by one request: the safety half of PermitsComeBack.
PermitsConserved == limiter + Cardinality(Holders) = MaxInFlight

HealthInv == TypeOK /\ TruthInv /\ PermitsConserved

-----------------------------------------------------------------------------
(* Types, in the parts that steps leave alone.                             *)

FwdType ==
  /\ fwd \in [Label -> {"binding", "serving", "ending", "gone"}]
  /\ cancelled \subseteq Label /\ registry \subseteq Label /\ listening \subseteq Label

ServeType ==
  /\ server \in {"bind", "accept", "backoff", "stopped"} /\ limiter \in 0 .. MaxInFlight
  /\ req \in [Request -> ReqState]

\* TypeOK is its parts.
LEMMA TypeParts == TypeOK <=> FwdType /\ ServeType /\ history \in [Probe -> Record]
<1>. QED
  BY Zenon DEF TypeOK, FwdType, ServeType, ReqState, Record

\* The same in the next state.
LEMMA TypePartsNext == FwdType' /\ ServeType' /\ history' \in [Probe -> Record] => TypeOK'
<1>. QED
  BY Zenon DEF TypeOK, FwdType, ServeType, ReqState, Record

\* What every step is shown to establish.
Kept == TypeOK' /\ TruthInv' /\ PermitsConserved'

\* The parts of the invariant.
LEMMA InvParts ==
  ASSUME HealthInv
  PROVE  /\ FwdType /\ ServeType /\ history \in [Probe -> Record]
         /\ FlagInv /\ \A p \in Probe : WitnessInv(p) /\ CheckInv(p)
         /\ PermitsConserved
<1>. QED
  BY TypeParts, Zenon DEF HealthInv, TruthInv

\* Health checks are clients, and no scraper is one.
LEMMA Clients == Probe \subseteq Request /\ \A r \in Request : r \in Scraper => r \notin Probe
<1>. QED
  BY HealthAssumption, Zenon DEF Request

-----------------------------------------------------------------------------
(* Forwarders.                                                             *)

\* Forwarders come and go under a check: its history records it.
LEMMA ForwarderMoves ==
  ASSUME HealthInv, UNCHANGED <<server, limiter, req>>, Witness, FwdType', FlagInv',
         registry' = registry \/ Unlocked
  PROVE  Kept
<1>0. /\ ServeType /\ history \in [Probe -> Record] /\ PermitsConserved
      /\ \A p \in Probe : WitnessInv(p) /\ CheckInv(p)
  BY InvParts, Zenon
<1>1. ASSUME NEW p \in Probe
      PROVE  /\ history'[p] \in Record
             /\ req[p].pc = "idle" => history'[p] = history[p]
             /\ req[p].pc # "idle" =>
                  /\ history'[p].steady = (history[p].steady \cap registry') \ cancelled'
                  /\ history'[p].served = history[p].served \cup Served(fwd')
                  /\ history'[p].dark = (history[p].dark \/ registry' \ Served(fwd') # {})
  <2>1. history[p] \in Record
    BY <1>0, Zenon
  <2>2. CASE req[p].pc = "idle"
    BY <2>1, <2>2, Zenon DEF Witness
  <2>3. CASE req[p].pc # "idle"
    <3>. DEFINE h == [steady |-> (history[p].steady \cap registry') \ cancelled',
                      served |-> history[p].served \cup Served(fwd'),
                      dark   |-> history[p].dark \/ registry' \ Served(fwd') # {}]
    <3>1. history'[p] = h
      BY <2>3, Zenon DEF Witness
    <3>2. h \in Record
      BY <2>1, Zenon DEF Record, Served
    <3>. QED
      BY <2>3, <3>1, <3>2
  <2>. QED
    BY <2>2, <2>3, Zenon
<1>2. TypeOK'
  <2>1. history' = [p \in Probe |-> history'[p]]
    BY Zenon DEF Witness
  <2>2. history' \in [Probe -> Record]
    BY <1>1, <2>1, Zenon
  <2>3. ServeType'
    BY <1>0, Zenon DEF ServeType
  <2>. QED
    BY <2>2, <2>3, TypePartsNext, Zenon
<1>3. ASSUME NEW p \in Probe PROVE WitnessInv(p)' /\ CheckInv(p)'
  <2>0. p \in Request /\ WitnessInv(p) /\ CheckInv(p)
    BY <1>0, Clients, Zenon
  <2>1. CASE req[p].pc = "idle"
    BY <2>0, <2>1, Zenon DEF WitnessInv, CheckInv
  <2>2. CASE req[p].pc # "idle"
    <3>1. WitnessInv(p)'
      BY <1>1, <2>2, Zenon DEF WitnessInv
    <3>2. req[p].pc = "collect" => registry' = registry
      BY <2>0, Zenon DEF Unlocked
    <3>3. /\ history'[p].steady \subseteq history[p].steady
          /\ history[p].served \subseteq history'[p].served
          /\ history[p].dark => history'[p].dark
      BY <1>1, <2>2, Zenon
    <3>4. CheckInv(p)'
      BY <2>0, <3>2, <3>3, Zenon DEF CheckInv
    <3>. QED
      BY <3>1, <3>4, Zenon
  <2>. QED
    BY <2>1, <2>2, Zenon
<1>4. PermitsConserved'
  <2>1. Holders' = Holders
    BY Zenon DEF Holders, InFlight
  <2>. QED
    BY <1>0, <2>1, Zenon DEF PermitsConserved
<1>. QED
  BY <1>2, <1>3, <1>4, Zenon DEF Kept, TruthInv

\* A forwarder is registered, binds, stops, returns, panics or is removed: its flag
\* follows.
LEMMA ForwarderStep ==
  ASSUME HealthInv, NEW l \in Label, Forwarder(l)
  PROVE  Kept
<1>0. FwdType /\ FlagInv
  BY InvParts, Zenon
<1>1. UNCHANGED <<server, limiter, req>> /\ Witness
  BY Zenon DEF Forwarder, Register, Binds, Stops, LoopEnds, Returns, Panics, Removes
<1>2. registry' = registry \/ Unlocked
  BY Zenon DEF Forwarder, Register, Binds, Stops, LoopEnds, Returns, Panics, Removes
<1>3. CASE Stops(l)
  <2>1. cancelled' = cancelled \cup {l} /\ UNCHANGED <<fwd, registry, listening>>
    BY <1>3, Zenon DEF Stops
  <2>. QED
    BY <1>0, <1>1, <1>2, <2>1, ForwarderMoves, Zenon DEF FwdType, FlagInv
<1>4. CASE Register(l) \/ Binds(l) \/ LoopEnds(l) \/ Returns(l) \/ Panics(l) \/ Removes(l)
  <2>1. PICK f \in {"binding", "serving", "ending", "gone"} :
          /\ fwd' = [fwd EXCEPT ![l] = f]
          /\ f = "ending" => l \in cancelled' /\ l \in listening'
          /\ f = "serving" => l \in listening'
          /\ f \in {"binding", "gone"} => l \notin listening'
    BY <1>0, <1>4, Zenon DEF Register, Binds, LoopEnds, Returns, Panics, Removes, FlagInv
  <2>2. /\ cancelled' \subseteq Label /\ registry' \subseteq Label /\ listening' \subseteq Label
        /\ \A k \in Label : k # l => (k \in listening' <=> k \in listening)
        /\ \A k \in Label : k # l => (k \in cancelled' <=> k \in cancelled)
    BY <1>0, <1>4, Zenon DEF Register, Binds, LoopEnds, Returns, Panics, Removes, FwdType
  <2>3. fwd'[l] = f /\ \A k \in Label : k # l => fwd'[k] = fwd[k]
    BY <1>0, <2>1, Zenon DEF FwdType
  <2>4. FwdType'
    BY <1>0, <2>1, <2>2, Zenon DEF FwdType
  <2>5. ASSUME NEW k \in Label
        PROVE  /\ k \in listening' <=> fwd'[k] \in {"serving", "ending"}
               /\ fwd'[k] = "ending" => k \in cancelled'
    <3>1. CASE k = l
      BY <2>1, <2>3, <3>1, Zenon
    <3>2. CASE k # l
      BY <1>0, <2>2, <2>3, <3>2, Zenon DEF FlagInv
    <3>. QED
      BY <3>1, <3>2, Zenon
  <2>6. FlagInv'
    BY <2>2, <2>5, Zenon DEF FlagInv
  <2>. QED
    BY <1>1, <1>2, <2>4, <2>6, ForwarderMoves, Zenon
<1>. QED
  BY <1>3, <1>4, Zenon DEF Forwarder

-----------------------------------------------------------------------------
(* Requests.                                                               *)

\* The limiter follows a request into a task and out of it.
LEMMA PermitMoves ==
  ASSUME HealthInv, NEW r \in Request, NEW q \in ReqState, req' = [req EXCEPT ![r] = q],
         \/ limiter' = limiter /\ (InFlight(r) <=> q.pc \in {"read", "collect", "respond"})
         \/ /\ limiter > 0 /\ limiter' = limiter - 1
            /\ ~InFlight(r) /\ q.pc \in {"read", "collect", "respond"}
         \/ limiter' = limiter + 1 /\ InFlight(r) /\ q.pc \notin {"read", "collect", "respond"}
  PROVE  PermitsConserved' /\ limiter' \in 0..MaxInFlight
<1>0. ServeType /\ limiter \in 0..MaxInFlight /\ limiter + Cardinality(Holders) = MaxInFlight
  BY InvParts, Zenon DEF ServeType, PermitsConserved
<1>1. IsFiniteSet(Holders) /\ Cardinality(Holders) \in Nat /\ MaxInFlight \in Nat
  <2>1. Holders \subseteq Request /\ IsFiniteSet(Request)
    BY HealthAssumption, Zenon DEF Holders, Request
  <2>2. IsFiniteSet(Holders)
    BY <2>1, FS_Subset, Zenon
  <2>. QED
    BY <2>2, FS_CardinalityType, HealthAssumption, Zenon
<1>2. /\ InFlight(r)' <=> q.pc \in {"read", "collect", "respond"}
      /\ \A x \in Request : x # r => (InFlight(x)' <=> InFlight(x))
  BY <1>0, Zenon DEF InFlight, ServeType
<1>3. CASE limiter' = limiter /\ (InFlight(r) <=> q.pc \in {"read", "collect", "respond"})
  <2>1. Holders' = Holders
    BY <1>2, <1>3, Zenon DEF Holders
  <2>. QED
    BY <1>0, <1>3, <2>1, Zenon DEF PermitsConserved
<1>4. CASE limiter > 0 /\ limiter' = limiter - 1 /\ ~InFlight(r) /\ q.pc \in {"read", "collect", "respond"}
  <2>1. Holders' = Holders \cup {r} /\ r \notin Holders
    BY <1>2, <1>4, Zenon DEF Holders
  <2>2. Cardinality(Holders') = Cardinality(Holders) + 1
    BY <1>1, <2>1, FS_AddElement, Zenon
  <2>. QED
    BY <1>0, <1>1, <1>4, <2>2 DEF PermitsConserved
<1>5. CASE limiter' = limiter + 1 /\ InFlight(r) /\ q.pc \notin {"read", "collect", "respond"}
  <2>1. Holders' = Holders \ {r} /\ r \in Holders
    BY <1>2, <1>5, Zenon DEF Holders
  <2>2. Cardinality(Holders') = Cardinality(Holders) - 1 /\ Cardinality(Holders') \in Nat
    BY <1>1, <2>1, FS_RemoveElement, FS_CardinalityType, Zenon
  <2>. QED
    BY <1>0, <1>1, <1>5, <2>2 DEF PermitsConserved
<1>. QED
  BY <1>3, <1>4, <1>5, Zenon

\* One request goes on while the forwarders stand still.
LEMMA RequestMoves ==
  ASSUME HealthInv, NEW r \in Request, NEW q \in ReqState, req' = [req EXCEPT ![r] = q],
         UNCHANGED <<fwdVars, server>>,
         history' \in [Probe -> Record], \A p \in Probe : p # r => history'[p] = history[p],
         r \in Probe => WitnessInv(r)' /\ CheckInv(r)',
         \/ limiter' = limiter /\ (InFlight(r) <=> q.pc \in {"read", "collect", "respond"})
         \/ /\ limiter > 0 /\ limiter' = limiter - 1
            /\ ~InFlight(r) /\ q.pc \in {"read", "collect", "respond"}
         \/ limiter' = limiter + 1 /\ InFlight(r) /\ q.pc \notin {"read", "collect", "respond"}
  PROVE  Kept
<1>0. FwdType /\ ServeType /\ FlagInv /\ \A p \in Probe : WitnessInv(p) /\ CheckInv(p)
  BY InvParts, Zenon
<1>1. PermitsConserved' /\ limiter' \in 0..MaxInFlight
  BY PermitMoves, Zenon
<1>2. FwdType' /\ FlagInv' /\ UNCHANGED <<fwd, cancelled, registry, listening>>
  BY <1>0, Zenon DEF FwdType, FlagInv, fwdVars
<1>3. ServeType'
  BY <1>0, <1>1, Zenon DEF ServeType
<1>4. ASSUME NEW p \in Probe PROVE WitnessInv(p)' /\ CheckInv(p)'
  <2>1. CASE p = r
    BY <2>1, Zenon
  <2>2. CASE p # r
    <3>1. req'[p] = req[p] /\ history'[p] = history[p]
      BY <1>0, <2>2, Clients, Zenon DEF ServeType
    <3>2. WitnessInv(p) /\ CheckInv(p)
      BY <1>0, Zenon
    <3>. QED
      BY <1>2, <3>1, <3>2, Zenon DEF WitnessInv, CheckInv
  <2>. QED
    BY <2>1, <2>2, Zenon
<1>. QED
  BY <1>1, <1>2, <1>3, <1>4, TypePartsNext, Zenon DEF Kept, TruthInv

\* A request that ends has told what it had to.
LEMMA EndsState ==
  ASSUME NEW s \in {"none", "200", "404", "503"}
  PROVE  /\ [Quiet EXCEPT !.pc = "answered", !.status = s] \in ReqState
         /\ [Quiet EXCEPT !.pc = "answered", !.status = s].pc = "answered"
         /\ [Quiet EXCEPT !.pc = "answered", !.status = s].status = s
<1>. QED
  BY Zenon DEF Quiet, ReqState

\* Requests that end: shed, expired, answered or given up on.
LEMMA EndStep ==
  ASSUME HealthInv, NEW r \in Request, NEW s \in {"none", "200", "404", "503"}, Ends(r, s),
         UNCHANGED <<fwdVars, server, history>>, req[r].pc \in {"queued", "read", "respond"},
         IF InFlight(r) THEN limiter' = limiter + 1 ELSE limiter' = limiter
  PROVE  Kept
<1>. DEFINE q == [Quiet EXCEPT !.pc = "answered", !.status = s]
<1>0. FwdType /\ ServeType /\ history \in [Probe -> Record] /\ \A p \in Probe : WitnessInv(p)
  BY InvParts, Zenon
<1>1. req' = [req EXCEPT ![r] = q] /\ q \in ReqState /\ q.pc = "answered"
  BY EndsState, Zenon DEF Ends
<1>2. req'[r] = q
  BY <1>0, <1>1, Zenon DEF ServeType
<1>. HIDE DEF q
<1>3. r \in Probe => WitnessInv(r)' /\ CheckInv(r)'
  BY <1>0, <1>1, <1>2, Zenon DEF WitnessInv, CheckInv, fwdVars
<1>4. history' \in [Probe -> Record] /\ \A p \in Probe : history'[p] = history[p]
  BY <1>0, Zenon
<1>. QED
  BY <1>1, <1>3, <1>4, RequestMoves, Zenon

\* The states a request goes through on its way.
LEMMA PathState ==
  ASSUME NEW q \in ReqState, NEW c \in {"queued", "read", "collect", "respond"}
  PROVE  /\ [q EXCEPT !.pc = c] \in ReqState /\ [q EXCEPT !.pc = c].pc = c
         /\ [q EXCEPT !.pc = c].unbound = q.unbound
         /\ [q EXCEPT !.pc = c].status = q.status
<1>. QED
  BY Zenon DEF ReqState

\* serve accepts a request, or sheds it.
LEMMA AcceptStep ==
  ASSUME HealthInv, NEW r \in Request, Accept(r)
  PROVE  Kept
<1>0. /\ FwdType /\ ServeType /\ history \in [Probe -> Record]
      /\ \A p \in Probe : WitnessInv(p) /\ CheckInv(p)
      /\ req[r] \in ReqState /\ limiter \in Nat
  BY InvParts DEF ServeType
<1>1. req[r].pc = "queued" /\ ~InFlight(r) /\ UNCHANGED <<fwdVars, server, history>>
  BY Zenon DEF Accept, InFlight
<1>2. CASE limiter > 0
  <2>. DEFINE q == [req[r] EXCEPT !.pc = "read"]
  <2>1. limiter' = limiter - 1 /\ req' = [req EXCEPT ![r] = q]
    BY <1>2, Zenon DEF Accept
  <2>2. q \in ReqState /\ q.pc = "read" /\ q.unbound = req[r].unbound
    BY <1>0, PathState, Zenon
  <2>. HIDE DEF q
  <2>3. req'[r] = q
    BY <1>0, <2>1, Zenon DEF ServeType
  <2>4. r \in Probe => WitnessInv(r)' /\ CheckInv(r)'
    BY <1>0, <1>1, <2>2, <2>3, Zenon DEF WitnessInv, CheckInv, fwdVars
  <2>. QED
    BY <1>0, <1>1, <1>2, <2>1, <2>2, <2>4, RequestMoves, Zenon
<1>3. CASE ~(limiter > 0)
  BY <1>1, <1>3, EndStep, Zenon DEF Accept
<1>. QED
  BY <1>2, <1>3, Zenon

\* The head is complete: the route is chosen, and a check starts to collect.
LEMMA HeadStep ==
  ASSUME HealthInv, NEW r \in Request, HeadRead(r)
  PROVE  Kept
<1>0. /\ FwdType /\ ServeType /\ history \in [Probe -> Record]
      /\ \A p \in Probe : WitnessInv(p) /\ CheckInv(p)
      /\ req[r] \in ReqState /\ limiter \in Nat
  BY InvParts DEF ServeType
<1>1. req[r].pc = "read" /\ InFlight(r) /\ UNCHANGED <<fwdVars, server, limiter, history>>
  BY Zenon DEF HeadRead, InFlight
<1>2. CASE req' = [req EXCEPT ![r] = [@ EXCEPT !.pc = "collect", !.todo = registry]]
  <2>. DEFINE q == [req[r] EXCEPT !.pc = "collect", !.todo = registry]
  <2>1. req' = [req EXCEPT ![r] = q]
    BY <1>2, Zenon
  <2>2. q \in ReqState /\ q.pc = "collect" /\ q.todo = registry /\ q.unbound = req[r].unbound
    BY <1>0, Zenon DEF ReqState, FwdType
  <2>. HIDE DEF q
  <2>3. req'[r] = q
    BY <1>0, <2>1, Zenon DEF ServeType
  <2>4. ASSUME r \in Probe PROVE WitnessInv(r)' /\ CheckInv(r)'
    <3>1. WitnessInv(r) /\ ~req[r].unbound
      BY <1>0, <1>1, <2>4, Zenon DEF CheckInv
    <3>2. history[r].steady \subseteq registry
      BY <1>1, <3>1, Zenon DEF WitnessInv
    <3>. QED
      BY <1>1, <2>2, <2>3, <3>1, <3>2, Zenon DEF WitnessInv, CheckInv, fwdVars
  <2>. QED
    BY <1>0, <1>1, <2>1, <2>2, <2>4, RequestMoves, Zenon
<1>3. CASE r \in Scraper /\ req' = [req EXCEPT ![r] = [@ EXCEPT !.pc = "respond", !.status = "404"]]
  <2>1. r \notin Probe
    BY <1>3, Clients, Zenon
  <2>2. /\ [req[r] EXCEPT !.pc = "respond", !.status = "404"] \in ReqState
        /\ [req[r] EXCEPT !.pc = "respond", !.status = "404"].pc = "respond"
    BY <1>0, Zenon DEF ReqState
  <2>. QED
    BY <1>0, <1>1, <1>3, <2>1, <2>2, RequestMoves, Zenon
<1>. QED
  BY <1>2, <1>3, Zenon DEF HeadRead

\* A check reads one flag; collect holds the registry meanwhile.
LEMMA CollectStep ==
  ASSUME HealthInv, NEW r \in Request, NEW l \in Label, Collects(r, l)
  PROVE  Kept
<1>. DEFINE q == [req[r] EXCEPT !.todo = req[r].todo \ {l}, !.unbound = req[r].unbound \/ l \notin listening]
<1>0. /\ FwdType /\ ServeType /\ FlagInv /\ history \in [Probe -> Record]
      /\ \A p \in Probe : WitnessInv(p) /\ CheckInv(p)
      /\ req[r] \in ReqState /\ limiter \in Nat
  BY InvParts DEF ServeType
<1>1. /\ req[r].pc = "collect" /\ l \in req[r].todo /\ InFlight(r)
      /\ UNCHANGED <<fwdVars, server, limiter, history>>
      /\ req' = [req EXCEPT ![r] = q]
  BY Zenon DEF Collects, InFlight
<1>2. /\ q \in ReqState /\ q.pc = "collect" /\ q.todo = req[r].todo \ {l}
      /\ q.unbound = (req[r].unbound \/ l \notin listening)
  <2>1. (req[r].unbound \/ l \notin listening) \in BOOLEAN
    BY Zenon
  <2>. QED
    BY <1>0, <1>1, <2>1, Zenon DEF ReqState
<1>. HIDE DEF q
<1>3. req'[r] = q
  BY <1>0, <1>1, Zenon DEF ServeType
<1>4. ASSUME r \in Probe PROVE WitnessInv(r)' /\ CheckInv(r)'
  <2>0. WitnessInv(r) /\ CheckInv(r)
    BY <1>0, <1>4, Zenon
  <2>1. WitnessInv(r)'
    BY <1>1, <1>2, <1>3, <2>0, Zenon DEF WitnessInv, fwdVars
  <2>2. q.unbound => history[r].dark
    <3>1. CASE req[r].unbound
      BY <1>1, <2>0, <3>1, Zenon DEF CheckInv
    <3>2. CASE l \notin listening
      <4>1. l \in registry \ Served(fwd)
        BY <1>0, <1>1, <2>0, <3>2, Zenon DEF CheckInv, FlagInv, Served
      <4>. QED
        BY <1>1, <2>0, <4>1, Zenon DEF WitnessInv
    <3>. QED
      BY <1>2, <3>1, <3>2, Zenon
  <2>3. ~q.unbound => history[r].steady \ q.todo \subseteq history[r].served
    <3>. SUFFICES ASSUME ~q.unbound, NEW k \in history[r].steady \ q.todo PROVE k \in history[r].served
      BY Zenon
    <3>1. ~req[r].unbound /\ l \in listening
      BY <1>2, Zenon
    <3>2. CASE k = l
      <4>1. l \in Served(fwd)
        BY <1>0, <1>1, <2>0, <3>1, <3>2, Zenon DEF WitnessInv, FlagInv, Served
      <4>. QED
        BY <1>1, <2>0, <3>2, <4>1, Zenon DEF WitnessInv
    <3>3. CASE k # l
      BY <1>1, <1>2, <2>0, <3>1, <3>3, Zenon DEF CheckInv
    <3>. QED
      BY <3>2, <3>3, Zenon
  <2>4. q.todo \subseteq registry
    BY <1>1, <1>2, <2>0, Zenon DEF CheckInv
  <2>5. CheckInv(r)'
    BY <1>1, <1>2, <1>3, <2>2, <2>3, <2>4, Zenon DEF CheckInv, fwdVars
  <2>. QED
    BY <2>1, <2>5, Zenon
<1>. QED
  BY <1>0, <1>1, <1>2, <1>4, RequestMoves, Zenon

\* Everything is collected, and render_health has its verdict.
LEMMA VerdictStep ==
  ASSUME HealthInv, NEW r \in Request, Collected(r)
  PROVE  Kept
<1>. DEFINE q == [Quiet EXCEPT !.pc = "respond", !.status = render_health(r)]
<1>0. /\ FwdType /\ ServeType /\ history \in [Probe -> Record]
      /\ \A p \in Probe : WitnessInv(p) /\ CheckInv(p)
      /\ limiter \in Nat
  BY InvParts DEF ServeType
<1>1. /\ req[r].pc = "collect" /\ req[r].todo = {} /\ InFlight(r)
      /\ UNCHANGED <<fwdVars, server, limiter, history>>
      /\ req' = [req EXCEPT ![r] = q]
  BY Zenon DEF Collected, InFlight
<1>2. q \in ReqState /\ q.pc = "respond" /\ q.status = render_health(r)
  <2>1. render_health(r) \in {"200", "503"}
    BY Zenon DEF render_health
  <2>. QED
    BY <2>1, Zenon DEF Quiet, ReqState
<1>. HIDE DEF q
<1>3. req'[r] = q
  BY <1>0, <1>1, Zenon DEF ServeType
<1>4. ASSUME r \in Probe PROVE WitnessInv(r)' /\ CheckInv(r)'
  <2>0. WitnessInv(r) /\ CheckInv(r)
    BY <1>0, <1>4, Zenon
  <2>1. WitnessInv(r)'
    BY <1>1, <1>2, <1>3, <2>0, Zenon DEF WitnessInv, fwdVars
  <2>2. /\ render_health(r) = "200" => history[r].steady \subseteq history[r].served
        /\ render_health(r) = "503" => history[r].dark
    BY <1>1, <1>4, <2>0, Zenon DEF CheckInv, render_health
  <2>. QED
    BY <1>1, <1>2, <1>3, <2>1, <2>2, Zenon DEF CheckInv
<1>. QED
  BY <1>0, <1>1, <1>2, <1>4, RequestMoves, Zenon

\* A client connects, and its check's history begins; or it has its answer.
LEMMA ClientStep ==
  ASSUME HealthInv, NEW r \in Request, Connects(r) \/ Finishes(r)
  PROVE  Kept
<1>0. /\ FwdType /\ ServeType /\ history \in [Probe -> Record]
      /\ \A p \in Probe : WitnessInv(p) /\ CheckInv(p)
      /\ req[r] \in ReqState /\ limiter \in Nat
  BY InvParts DEF ServeType
<1>1. ~InFlight(r) /\ UNCHANGED <<fwdVars, server, limiter>>
  BY Zenon DEF Connects, Finishes, InFlight
<1>2. CASE Connects(r)
  <2>. DEFINE q == [req[r] EXCEPT !.pc = "queued"]
              h == [steady |-> registry \ cancelled, served |-> Served(fwd),
                    dark |-> registry \ Served(fwd) # {}]
  <2>1. /\ req[r].pc = "idle" /\ req' = [req EXCEPT ![r] = q]
        /\ history' = [p \in Probe |-> IF p # r THEN history[p] ELSE h]
    BY <1>2, Zenon DEF Connects
  <2>2. q \in ReqState /\ q.pc = "queued" /\ q.unbound = req[r].unbound
    BY <1>0, PathState, Zenon
  <2>3. h \in Record
    BY <1>0, Zenon DEF Record, FwdType, Served
  <2>4. history' \in [Probe -> Record] /\ \A p \in Probe : p # r => history'[p] = history[p]
    BY <1>0, <2>1, <2>3, Zenon
  <2>5. req'[r] = q
    BY <1>0, <2>1, Zenon DEF ServeType
  <2>6. ASSUME r \in Probe PROVE WitnessInv(r)' /\ CheckInv(r)'
    <3>1. /\ history'[r].steady = registry \ cancelled /\ history'[r].served = Served(fwd)
          /\ history'[r].dark = (registry \ Served(fwd) # {})
      BY <2>1, <2>6, Zenon
    <3>2. ~req[r].unbound
      BY <1>0, <2>1, <2>6, Zenon DEF CheckInv
    <3>3. WitnessInv(r)'
      BY <1>1, <3>1, Zenon DEF WitnessInv, fwdVars
    <3>. QED
      BY <2>2, <2>5, <3>2, <3>3, Zenon DEF CheckInv
  <2>. HIDE DEF q
  <2>. QED
    BY <1>1, <2>1, <2>2, <2>4, <2>6, RequestMoves, Zenon
<1>3. CASE Finishes(r)
  <2>. DEFINE h == [steady |-> {}, served |-> {}, dark |-> FALSE]
  <2>1. /\ req' = [req EXCEPT ![r] = Quiet]
        /\ history' = [p \in Probe |-> IF p = r THEN h ELSE history[p]]
    BY <1>3, Zenon DEF Finishes
  <2>2. Quiet \in ReqState /\ Quiet.pc = "idle" /\ Quiet.unbound = FALSE
    BY Zenon DEF Quiet, ReqState
  <2>3. h \in Record
    BY Zenon DEF Record
  <2>4. history' \in [Probe -> Record] /\ \A p \in Probe : p # r => history'[p] = history[p]
    BY <1>0, <2>1, <2>3, Zenon
  <2>5. req'[r] = Quiet
    BY <1>0, <2>1, Zenon DEF ServeType
  <2>6. WitnessInv(r)' /\ CheckInv(r)'
    BY <2>2, <2>5, Zenon DEF WitnessInv, CheckInv
  <2>. QED
    BY <1>1, <2>1, <2>2, <2>4, <2>6, RequestMoves, Zenon
<1>. QED
  BY <1>2, <1>3, Zenon

\* Requests that end without, or with, an answer.
LEMMA FinalStep ==
  ASSUME HealthInv, NEW r \in Request, HeadExpires(r) \/ Responds(r) \/ GivesUp(r)
  PROVE  Kept
<1>1. CASE HeadExpires(r)
  BY <1>1, EndStep, Zenon DEF HeadExpires, InFlight
<1>2. CASE GivesUp(r)
  BY <1>2, EndStep, Zenon DEF GivesUp, InFlight
<1>3. CASE Responds(r)
  <2>1. req[r].status \in {"none", "200", "404", "503"}
    BY InvParts, Zenon DEF ServeType, ReqState
  <2>2. PICK s \in {req[r].status, "none"} : Ends(r, s)
    BY <1>3, Zenon DEF Responds
  <2>. QED
    BY <1>3, <2>1, <2>2, EndStep, Zenon DEF Responds, InFlight
<1>. QED
  BY <1>1, <1>2, <1>3, Zenon

\* serve binds, backs off and stops; what is queued then is refused.
LEMMA ServerStep ==
  ASSUME HealthInv, ServeBinds \/ AcceptFails \/ BackoffEnds \/ ServeStops
  PROVE  Kept
<1>0. /\ FwdType /\ ServeType /\ history \in [Probe -> Record] /\ FlagInv /\ PermitsConserved
      /\ \A p \in Probe : WitnessInv(p) /\ CheckInv(p)
  BY InvParts, Zenon
<1>1. /\ UNCHANGED <<fwdVars, limiter, history>>
      /\ server' \in {"accept", "backoff", "stopped"}
  BY Zenon DEF ServeBinds, AcceptFails, BackoffEnds, ServeStops
<1>2. ASSUME NEW r \in Request
      PROVE  req'[r] = req[r] \/ (req[r].pc = "queued" /\ req'[r] = [Quiet EXCEPT !.pc = "answered"])
  BY Zenon DEF ServeBinds, AcceptFails, BackoffEnds, ServeStops
<1>3. [Quiet EXCEPT !.pc = "answered"] \in ReqState /\ [Quiet EXCEPT !.pc = "answered"].pc = "answered"
  BY Zenon DEF Quiet, ReqState
<1>4. req' = [r \in Request |-> req'[r]]
  BY <1>0, Zenon DEF ServeBinds, AcceptFails, BackoffEnds, ServeStops, ServeType
<1>5. TypeOK'
  <2>1. FwdType' /\ history' \in [Probe -> Record]
    BY <1>0, <1>1, Zenon DEF FwdType, fwdVars
  <2>2. \A r \in Request : req'[r] \in ReqState
    BY <1>0, <1>2, <1>3, Zenon DEF ServeType
  <2>3. ServeType'
    BY <1>0, <1>1, <1>4, <2>2, Zenon DEF ServeType
  <2>. QED
    BY <2>1, <2>3, TypePartsNext, Zenon
<1>6. PermitsConserved'
  <2>1. Holders' = Holders
    BY <1>2, <1>3, Zenon DEF Holders, InFlight
  <2>. QED
    BY <1>0, <1>1, <2>1, Zenon DEF PermitsConserved
<1>7. ASSUME NEW p \in Probe PROVE WitnessInv(p)' /\ CheckInv(p)'
  <2>1. p \in Request /\ WitnessInv(p) /\ CheckInv(p)
    BY <1>0, Clients, Zenon
  <2>2. CASE req'[p] = req[p]
    BY <1>1, <2>1, <2>2, Zenon DEF WitnessInv, CheckInv, fwdVars
  <2>3. CASE req[p].pc = "queued" /\ req'[p] = [Quiet EXCEPT !.pc = "answered"]
    BY <1>1, <1>3, <2>1, <2>3, Zenon DEF WitnessInv, CheckInv, fwdVars
  <2>. QED
    BY <1>2, <2>1, <2>2, <2>3, Zenon
<1>8. FlagInv'
  BY <1>0, <1>1, Zenon DEF FlagInv, fwdVars
<1>. QED
  BY <1>5, <1>6, <1>7, <1>8, Zenon DEF Kept, TruthInv

-----------------------------------------------------------------------------
(* The theorems.                                                           *)

\* Nobody has asked yet.
LEMMA InvInit == Init => HealthInv
<1>. SUFFICES ASSUME Init PROVE HealthInv
  BY Zenon
<1>0. Quiet \in ReqState /\ Quiet.pc = "idle" /\ Quiet.unbound = FALSE
  BY Zenon DEF Quiet, ReqState
<1>1. MaxInFlight \in Nat /\ limiter = MaxInFlight /\ \A r \in Request : req[r] = Quiet
  BY HealthAssumption, Zenon DEF Init
<1>2. FwdType /\ FlagInv
  BY Zenon DEF Init, FwdType, FlagInv
<1>3. ServeType
  BY <1>0, <1>1 DEF Init, ServeType
<1>4. history \in [Probe -> Record]
  BY Zenon DEF Init, Record
<1>5. \A p \in Probe : WitnessInv(p) /\ CheckInv(p)
  BY <1>0, <1>1, Clients, Zenon DEF WitnessInv, CheckInv
<1>6. Holders = {}
  BY <1>0, <1>1, Zenon DEF Holders, InFlight
<1>7. PermitsConserved
  BY <1>1, <1>6, FS_EmptySet DEF PermitsConserved
<1>. QED
  BY <1>2, <1>3, <1>4, <1>5, <1>7, TypeParts, Zenon DEF HealthInv, TruthInv

\* Every step keeps the invariant.
LEMMA InvStep == HealthInv /\ [Next]_vars => HealthInv'
<1>. SUFFICES ASSUME HealthInv, [Next]_vars PROVE Kept
  BY Zenon DEF Kept, HealthInv
<1>1. CASE \E l \in Label : Forwarder(l)
  BY <1>1, ForwarderStep, Zenon
<1>2. CASE Serve
  BY <1>2, ServerStep, AcceptStep, Zenon DEF Serve
<1>3. ASSUME NEW r \in Request, handle_conn(r) \/ Client(r) PROVE Kept
  BY <1>3, HeadStep, CollectStep, VerdictStep, FinalStep, ClientStep, Zenon DEF handle_conn, Client
<1>4. CASE UNCHANGED vars
  <2>1. UNCHANGED <<fwdVars, server, limiter, req, history>>
    BY <1>4, Zenon DEF vars
  <2>2. /\ FwdType /\ ServeType /\ history \in [Probe -> Record] /\ FlagInv /\ PermitsConserved
        /\ \A p \in Probe : WitnessInv(p) /\ CheckInv(p)
    BY InvParts, Zenon
  <2>3. FwdType' /\ ServeType' /\ history' \in [Probe -> Record] /\ FlagInv'
    BY <2>1, <2>2, Zenon DEF FwdType, ServeType, FlagInv, fwdVars
  <2>4. PermitsConserved'
    BY <2>1, <2>2, Zenon DEF PermitsConserved, Holders, InFlight
  <2>5. \A p \in Probe : WitnessInv(p)' /\ CheckInv(p)'
    BY <2>1, <2>2, Zenon DEF WitnessInv, CheckInv, fwdVars
  <2>. QED
    BY <2>3, <2>4, <2>5, TypePartsNext, Zenon DEF Kept, TruthInv
<1>. QED
  BY <1>1, <1>2, <1>3, <1>4, Zenon DEF Next

\* The status of an answer under way is written as it is, or not at all.
LEMMA AnswerKept ==
  ASSUME HealthInv, Next, NEW p \in Probe, req[p].pc = "respond"
  PROVE  req'[p].status \in {req[p].status, "none"}
<1>0. req \in [Request -> ReqState] /\ p \in Request
  BY InvParts, Clients, Zenon DEF ServeType
<1>1. CASE \E l \in Label : Forwarder(l)
  <2>1. UNCHANGED req
    BY <1>1, Zenon DEF Forwarder, Register, Binds, Stops, LoopEnds, Returns, Panics, Removes
  <2>. QED
    BY <2>1, Zenon
<1>2. ASSUME NEW r \in Request, r # p, NEW q, req' = [req EXCEPT ![r] = q] PROVE req'[p] = req[p]
  BY <1>0, <1>2, Zenon
<1>3. CASE Serve
  <2>1. CASE ServeBinds \/ AcceptFails \/ BackoffEnds \/ ServeStops
    BY <1>0, <2>1, Zenon DEF ServeBinds, AcceptFails, BackoffEnds, ServeStops
  <2>2. ASSUME NEW r \in Request, Accept(r) PROVE req'[p] = req[p]
    <3>1. r # p /\ \E q : req' = [req EXCEPT ![r] = q]
      BY <2>2, Zenon DEF Accept, Ends
    <3>. QED
      BY <1>2, <3>1, Zenon
  <2>. QED
    BY <1>3, <2>1, <2>2, Zenon DEF Serve
<1>4. ASSUME NEW r \in Request, handle_conn(r) \/ Client(r) PROVE req'[p].status \in {req[p].status, "none"}
  <2>1. CASE r = p
    <3>0. ~Client(p)
      BY Zenon DEF Client, Connects, Finishes, GivesUp
    <3>1. Responds(p)
      BY <1>4, <2>1, <3>0, Zenon DEF handle_conn, HeadRead, HeadExpires, Collects, Collected
    <3>2. PICK s \in {req[p].status, "none"} : Ends(p, s)
      BY <3>1, Zenon DEF Responds
    <3>3. req'[p] = [Quiet EXCEPT !.pc = "answered", !.status = s]
      BY <1>0, <3>2, Zenon DEF Ends
    <3>4. s \in {"none", "200", "404", "503"}
      BY <1>0, Zenon DEF ReqState
    <3>. QED
      BY <3>3, <3>4, EndsState, Zenon
  <2>2. CASE r # p
    <3>1. \E q : req' = [req EXCEPT ![r] = q]
      <4>1. CASE handle_conn(r)
        BY <4>1, Zenon DEF handle_conn, HeadRead, HeadExpires, Collects, Collected, Responds, Ends
      <4>2. CASE Client(r)
        BY <4>2 DEF Client, Connects, Finishes, GivesUp, Ends
      <4>. QED
        BY <1>4, <4>1, <4>2, Zenon
    <3>. QED
      BY <1>2, <2>2, <3>1, Zenon
  <2>. QED
    BY <2>1, <2>2, Zenon
<1>. QED
  BY <1>1, <1>3, <1>4, Zenon DEF Next

\* HealthInv holds throughout.
THEOREM HealthInvariance == Spec => []HealthInv
<1>. QED
  BY InvInit, InvStep, PTL DEF Spec

\* Every variable keeps its type.
THEOREM TypeCorrect == Spec => []TypeOK
<1>1. HealthInv => TypeOK
  BY DEF HealthInv
<1>. QED
  BY <1>1, HealthInvariance, PTL

\* Every permit of serve is free or held by one request in flight: shedding,
\* expiry, errors and answers neither lose nor double one.
THEOREM PermitsNeverLeak == Spec => []PermitsConserved
<1>1. HealthInv => PermitsConserved
  BY DEF HealthInv
<1>. QED
  BY <1>1, HealthInvariance, PTL

\* A 200 means that every forwarder that was registered and not told to stop all
\* along served at some moment of the check, a 503 that some registered one did not.
THEOREM VerdictTrue == Spec => HealthTellsTruth
<1>1. HealthInv /\ [Next]_vars =>
        [\A p \in Probe : req[p].pc = "respond" =>
           /\ req'[p].status = "200" => history[p].steady \subseteq history[p].served
           /\ req'[p].status = "503" => history[p].dark]_vars
  <2>. SUFFICES ASSUME HealthInv, Next, NEW p \in Probe, req[p].pc = "respond"
                PROVE  /\ req'[p].status = "200" => history[p].steady \subseteq history[p].served
                       /\ req'[p].status = "503" => history[p].dark
    OBVIOUS
  <2>1. CheckInv(p)
    BY InvParts
  <2>2. req'[p].status \in {req[p].status, "none"}
    BY AnswerKept
  <2>. QED
    BY <2>1, <2>2 DEF CheckInv
<1>. QED
  BY <1>1, HealthInvariance, PTL DEF Spec, HealthTellsTruth
=============================================================================
