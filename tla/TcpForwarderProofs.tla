------------------------- MODULE TcpForwarderProofs -------------------------
(***************************************************************************)
(* The slots of max_connections, the gauges and the drain at shutdown, for *)
(* every number of connections, generations and slots.                     *)
(*                                                                         *)
(* SlotInv is about the connections and SlotsConserved is its core;        *)
(* ControlInv says who answers for an accept loop that still runs, which   *)
(* is what the drain relies on.                                            *)
(***************************************************************************)
EXTENDS TcpForwarder, FiniteSetTheorems, TLAPS

LoopStates == {"none", "bind", "wait", "poll", "checked", "backoff", "done"}
ConnStates == {"out", "queue"} \cup Holding \cup Counted
MainStates == {"run", "counted", "reap", "drain", "flush", "exit"}

ConnType ==
  /\ st \in [Conn -> ConnStates] /\ gen \in [Conn -> Gen]
  /\ permits \in 0..Limit /\ others \in 0..MaxOthers /\ gauge \in [Gen -> Nat]

ControlType ==
  /\ loop \in [Gen -> LoopStates]
  /\ cancelled \subseteq Gen /\ listening \subseteq Gen
  /\ handle \subseteq Gen /\ registered \subseteq Gen
  /\ reload \in {"idle", "stop", "start"} /\ reloading \in Gen
  /\ main \in MainStates /\ reaping \subseteq Gen
  /\ late \in BOOLEAN /\ raced \in BOOLEAN /\ foreign \in BOOLEAN

SlotInv == ConnType /\ SlotsConserved

Idle(g) == loop[g] \in {"none", "done"}

\* An accept loop that runs has an owner that waits for it: the manager's map,
\* shutdown_all, or the sync that is stopping it.  Once a grace has run out
\* (late) one may run without.
LoopsOwned ==
  ~late => \A g \in Gen : ~Idle(g) =>
             \/ g \in handle \/ g \in reaping
             \/ reload = "stop" /\ g = reloading

\* What is left to happen once main has begun to shut down.
ShutdownInv ==
  /\ main \in {"run", "counted"} => reaping = {}
  /\ ~raced /\ main \notin {"run", "counted"} => reload = "idle" /\ handle = {}
  /\ ~late /\ ~raced /\ main \in {"drain", "flush", "exit"} => \A g \in Gen : Idle(g)

ControlInv ==
  /\ ControlType /\ LoopsOwned /\ ShutdownInv
  /\ reload # "idle" => reloading < Generations

TcpInv == SlotInv /\ ControlInv /\ DrainMissesNone

\* TypeOK by its parts.
LEMMA TypeParts == TypeOK <=> ConnType /\ ControlType
BY Zenon DEF TypeOK, ConnType, ControlType, ConnStates, LoopStates, MainStates

\* What the assumption on the constants gives the counting.
LEMMA Limits == Limit \in Nat /\ Limit > 0 /\ MaxOthers \in Nat /\ IsFiniteSet(Conn)
                /\ Generations \in Nat /\ Generations > 0
BY TcpAssumption

-----------------------------------------------------------------------------
(* Counting connections.                                                   *)

\* The sets that are counted are finite.
LEMMA CountsFinite ==
  /\ IsFiniteSet(Held) /\ Cardinality(Held) \in Nat
  /\ \A g \in Gen : IsFiniteSet(CountedBy(g)) /\ Cardinality(CountedBy(g)) \in Nat
<1>1. \A S \in SUBSET Conn : IsFiniteSet(S) /\ Cardinality(S) \in Nat
  BY Limits, FS_Subset, FS_CardinalityType, Zenon
<1>2. Held \in SUBSET Conn /\ \A g \in Gen : CountedBy(g) \in SUBSET Conn
  BY Zenon DEF Held, CountedBy
<1>. QED
  BY <1>1, <1>2, Zenon

\* One more member counts one more.
LEMMA CountPlusOne ==
  ASSUME NEW S, NEW c, IsFiniteSet(S), c \notin S
  PROVE  Cardinality(S \cup {c}) = Cardinality(S) + 1
BY FS_AddElement, Zenon

\* One member less counts one less.
LEMMA CountLessOne ==
  ASSUME NEW S, NEW c, IsFiniteSet(S), c \in S
  PROVE  Cardinality(S \ {c}) = Cardinality(S) - 1 /\ Cardinality(S) > 0
<1>1. Cardinality(S \ {c}) = Cardinality(S) - 1
  BY FS_RemoveElement, Zenon
<1>2. Cardinality(S) \in Nat /\ Cardinality(S \ {c}) \in Nat
  BY FS_CardinalityType, FS_RemoveElement, Zenon
<1>. QED
  BY <1>1, <1>2

\* What the move of one connection does to the set that holds permits.
LEMMA HeldMoves ==
  ASSUME ConnType, NEW c \in Conn, NEW s \in ConnStates, st' = [st EXCEPT ![c] = s]
  PROVE  /\ (st[c] \in Holding <=> s \in Holding) => Held' = Held
         /\ st[c] \notin Holding /\ s \in Holding => Held' = Held \cup {c} /\ c \notin Held
         /\ st[c] \in Holding /\ s \notin Holding => Held' = Held \ {c} /\ c \in Held
<1>1. \A d \in Conn : st'[d] = IF d = c THEN s ELSE st[d]
  BY Zenon DEF ConnType
<1>2. Held' = {d \in Conn : st'[d] \in Holding}
  BY Zenon DEF Held
<1>. QED
  BY <1>1, <1>2, Zenon DEF Held

\* And to the set a generation counts.
LEMMA CountedMoves ==
  ASSUME ConnType, NEW c \in Conn, NEW s \in ConnStates, st' = [st EXCEPT ![c] = s],
         gen' = gen, NEW g \in Gen
  PROVE  /\ g # gen[c] \/ (st[c] \in Counted <=> s \in Counted) => CountedBy(g)' = CountedBy(g)
         /\ g = gen[c] /\ st[c] \notin Counted /\ s \in Counted =>
              CountedBy(g)' = CountedBy(g) \cup {c} /\ c \notin CountedBy(g)
         /\ g = gen[c] /\ st[c] \in Counted /\ s \notin Counted =>
              CountedBy(g)' = CountedBy(g) \ {c} /\ c \in CountedBy(g)
<1>1. \A d \in Conn : st'[d] = IF d = c THEN s ELSE st[d]
  BY Zenon DEF ConnType
<1>2. CountedBy(g)' = {d \in Conn : st'[d] \in Counted /\ gen[d] = g}
  BY Zenon DEF CountedBy
<1>. QED
  BY <1>1, <1>2, Zenon DEF CountedBy

-----------------------------------------------------------------------------
(* One connection moves.                                                   *)

\* As the abstract pool of slots sees a step.
PoolStep == [Pool!Next]_<<Held, others>>

\* The cardinality of the abstract pool is the one of the forwarder.
LEMMA PoolCount == Pool!Cardinality(Held) = Cardinality(Held)
BY Zenon DEF Pool!Cardinality, Cardinality

\* Connections that let go of their slots are a step of the pool.
LEMMA PoolReturns == ASSUME Held' \subseteq Held, others' = others PROVE PoolStep
BY Zenon DEF PoolStep, Pool!Next, Pool!GiveBack

\* A connection takes a permit, gives it back or does neither.
PermitFollows(c, s) ==
  \/ (st[c] \in Holding <=> s \in Holding) /\ permits' = permits
  \/ st[c] \notin Holding /\ s \in Holding /\ permits > 0 /\ permits' = permits - 1
  \/ st[c] \in Holding /\ s \notin Holding /\ permits' = permits + 1

\* It makes its ConnGuard, drops it or does neither.
GuardFollows(c, s) ==
  \/ (st[c] \in Counted <=> s \in Counted) /\ gauge' = gauge
  \/ st[c] \notin Counted /\ s \in Counted /\ gauge' = [gauge EXCEPT ![gen[c]] = @ + 1]
  \/ st[c] \in Counted /\ s \notin Counted /\ gauge' = [gauge EXCEPT ![gen[c]] = @ - 1]

\* A permit follows its connection in and out of the states that hold one.
LEMMA PermitsFollow ==
  ASSUME SlotInv, NEW c \in Conn, NEW s \in ConnStates, st' = [st EXCEPT ![c] = s],
         others' = others, PermitFollows(c, s)
  PROVE  /\ permits' \in 0..Limit /\ permits' + Cardinality(Held') + others' = Limit
         /\ PoolStep
<1>0. /\ ConnType /\ permits \in Nat /\ others \in Nat
      /\ permits + Cardinality(Held) + others = Limit
  BY Limits DEF SlotInv, ConnType, SlotsConserved
<1>1. CASE (st[c] \in Holding <=> s \in Holding) /\ permits' = permits
  <2>1. Held' = Held
    BY <1>0, <1>1, HeldMoves, Zenon
  <2>2. PoolStep
    BY <2>1, PoolReturns, Zenon
  <2>. QED
    BY <1>0, <1>1, <2>1, <2>2, Zenon DEF SlotInv, ConnType
<1>2. CASE st[c] \notin Holding /\ s \in Holding /\ permits > 0 /\ permits' = permits - 1
  <2>1. Held' = Held \cup {c} /\ c \notin Held
    BY <1>0, <1>2, HeldMoves, Zenon
  <2>2. Cardinality(Held') = Cardinality(Held) + 1 /\ Cardinality(Held) \in Nat
    BY <2>1, CountsFinite, CountPlusOne, Zenon
  <2>3. permits' \in 0..Limit /\ permits' + Cardinality(Held') + others = Limit
        /\ Cardinality(Held) + others < Limit
    BY <1>0, <1>2, <2>2, Limits
  <2>4. Pool!Take(c)
    BY <2>1, <2>3, PoolCount, Zenon DEF Pool!Take
  <2>. QED
    BY <2>3, <2>4, Zenon DEF PoolStep, Pool!Next
<1>3. CASE st[c] \in Holding /\ s \notin Holding /\ permits' = permits + 1
  <2>1. Held' = Held \ {c} /\ c \in Held
    BY <1>0, <1>3, HeldMoves, Zenon
  <2>2. Cardinality(Held') = Cardinality(Held) - 1 /\ Cardinality(Held) > 0
        /\ Cardinality(Held) \in Nat
    BY <2>1, CountsFinite, CountLessOne, Zenon
  <2>3. permits' \in 0..Limit /\ permits' + Cardinality(Held') + others = Limit
    BY <1>0, <1>3, <2>2, Limits
  <2>4. PoolStep
    BY <2>1, PoolReturns, Zenon
  <2>. QED
    BY <2>3, <2>4, Zenon
<1>. QED
  BY <1>1, <1>2, <1>3, Zenon DEF PermitFollows

\* A ConnGuard follows its connection, on the gauge of the generation that
\* accepted it.
LEMMA GaugeFollows ==
  ASSUME SlotInv, NEW c \in Conn, NEW s \in ConnStates, st' = [st EXCEPT ![c] = s],
         gen' = gen, GuardFollows(c, s)
  PROVE  gauge' \in [Gen -> Nat] /\ \A g \in Gen : gauge'[g] = Cardinality(CountedBy(g)')
<1>0. /\ ConnType /\ gauge \in [Gen -> Nat] /\ gen[c] \in Gen
      /\ \A g \in Gen : gauge[g] = Cardinality(CountedBy(g))
  BY Zenon DEF SlotInv, ConnType, SlotsConserved
<1>1. ASSUME NEW g \in Gen, g # gen[c] \/ (st[c] \in Counted <=> s \in Counted)
      PROVE  Cardinality(CountedBy(g)') = gauge[g]
  <2>1. CountedBy(g)' = CountedBy(g)
    BY <1>0, <1>1, CountedMoves, Zenon
  <2>. QED
    BY <1>0, <2>1, Zenon
<1>2. CASE (st[c] \in Counted <=> s \in Counted) /\ gauge' = gauge
  BY <1>0, <1>1, <1>2, Zenon
<1>3. CASE st[c] \notin Counted /\ s \in Counted /\ gauge' = [gauge EXCEPT ![gen[c]] = @ + 1]
  <2>1. CountedBy(gen[c])' = CountedBy(gen[c]) \cup {c} /\ c \notin CountedBy(gen[c])
    <3>1. ASSUME NEW g \in Gen, g = gen[c]
          PROVE  CountedBy(g)' = CountedBy(g) \cup {c} /\ c \notin CountedBy(g)
      BY <1>0, <1>3, <3>1, CountedMoves, Zenon
    <3>. QED
      BY <1>0, <3>1, Zenon
  <2>2. Cardinality(CountedBy(gen[c])') = gauge[gen[c]] + 1
    BY <1>0, <2>1, CountsFinite, CountPlusOne
  <2>3. \A g \in Gen : gauge'[g] = IF g = gen[c] THEN gauge[g] + 1 ELSE gauge[g]
    BY <1>0, <1>3, Zenon
  <2>4. gauge' \in [Gen -> Nat]
    BY <1>0, <1>3
  <2>. QED
    BY <1>0, <1>1, <2>2, <2>3, <2>4, Zenon
<1>4. CASE st[c] \in Counted /\ s \notin Counted /\ gauge' = [gauge EXCEPT ![gen[c]] = @ - 1]
  <2>1. CountedBy(gen[c])' = CountedBy(gen[c]) \ {c} /\ c \in CountedBy(gen[c])
    <3>1. ASSUME NEW g \in Gen, g = gen[c]
          PROVE  CountedBy(g)' = CountedBy(g) \ {c} /\ c \in CountedBy(g)
      BY <1>0, <1>4, <3>1, CountedMoves, Zenon
    <3>. QED
      BY <1>0, <3>1, Zenon
  <2>2. Cardinality(CountedBy(gen[c])') = gauge[gen[c]] - 1 /\ gauge[gen[c]] > 0
    BY <1>0, <2>1, CountsFinite, CountLessOne, Zenon
  <2>3. \A g \in Gen : gauge'[g] = IF g = gen[c] THEN gauge[g] - 1 ELSE gauge[g]
    BY <1>0, <1>4, Zenon
  <2>4. gauge' \in [Gen -> Nat]
    BY <1>0, <1>4, <2>2
  <2>. QED
    BY <1>0, <1>1, <2>2, <2>3, <2>4, Zenon
<1>. QED
  BY <1>2, <1>3, <1>4, Zenon DEF GuardFollows

\* So both accounts stay balanced.
LEMMA ConnMoves ==
  ASSUME SlotInv, NEW c \in Conn, NEW s \in ConnStates, st' = [st EXCEPT ![c] = s],
         UNCHANGED <<gen, others>>, PermitFollows(c, s), GuardFollows(c, s)
  PROVE  SlotInv' /\ PoolStep
<1>1. /\ permits' \in 0..Limit /\ permits' + Cardinality(Held') + others' = Limit
      /\ PoolStep
  BY PermitsFollow, Zenon
<1>2. gauge' \in [Gen -> Nat] /\ \A g \in Gen : gauge'[g] = Cardinality(CountedBy(g)')
  BY GaugeFollows, Zenon
<1>3. st' \in [Conn -> ConnStates] /\ gen' \in [Conn -> Gen] /\ others' \in 0..MaxOthers
  BY Zenon DEF SlotInv, ConnType
<1>. QED
  BY <1>1, <1>2, <1>3, Zenon DEF SlotInv, ConnType, SlotsConserved

\* Connections in the kernel's queue are in nobody's account.
LEMMA QueueMoves ==
  ASSUME SlotInv, UNCHANGED <<permits, gauge, others>>, st' \in [Conn -> ConnStates],
         gen' \in [Conn -> Gen],
         \A c \in Conn : \/ st'[c] = st[c] /\ gen'[c] = gen[c]
                         \/ st[c] \in {"out", "queue"} /\ st'[c] \in {"out", "queue"}
  PROVE  SlotInv' /\ Held' = Held /\ Tracked' = Tracked
<1>1. Held' = Held /\ Tracked' = Tracked
  BY Zenon DEF Held, Tracked, Holding, Counted
<1>2. ASSUME NEW g \in Gen PROVE CountedBy(g)' = CountedBy(g)
  BY Zenon DEF CountedBy, Counted
<1>3. ConnType'
  BY Zenon DEF SlotInv, ConnType
<1>4. permits' + Cardinality(Held') + others' = Limit
  BY <1>1, Zenon DEF SlotInv, SlotsConserved
<1>5. \A g \in Gen : gauge'[g] = Cardinality(CountedBy(g)')
  BY <1>2, Zenon DEF SlotInv, SlotsConserved
<1>. QED
  BY <1>1, <1>3, <1>4, <1>5, Zenon DEF SlotInv, SlotsConserved

\* A step that leaves the connections alone.
LEMMA SlotsUntouched ==
  ASSUME SlotInv, UNCHANGED <<conns, others>>
  PROVE  SlotInv' /\ Held' = Held /\ Tracked' = Tracked
<1>1. UNCHANGED <<st, gen, permits, gauge, others>>
  BY Zenon DEF conns
<1>2. st' \in [Conn -> ConnStates] /\ gen' \in [Conn -> Gen]
  BY <1>1, Zenon DEF SlotInv, ConnType
<1>3. \A c \in Conn : \/ st'[c] = st[c] /\ gen'[c] = gen[c]
                      \/ st[c] \in {"out", "queue"} /\ st'[c] \in {"out", "queue"}
  BY <1>1, Zenon
<1>. QED
  BY <1>1, <1>2, <1>3, QueueMoves, Zenon

\* A connection task never becomes tracked, it only ceases to be.
LEMMA TrackedMoves ==
  ASSUME SlotInv, NEW c \in Conn, NEW s \in ConnStates, st' = [st EXCEPT ![c] = s],
         c \in Tracked \/ s \in {"out", "queue"}
  PROVE  Tracked' \subseteq Tracked
<1>1. \A d \in Conn : st'[d] = IF d = c THEN s ELSE st[d]
  BY Zenon DEF SlotInv, ConnType
<1>. QED
  BY <1>1, Zenon DEF Tracked, Holding, Counted

-----------------------------------------------------------------------------
(* The accept loops, the manager and shutdown.                             *)

\* A loop that runs takes a step: it stays owned or ends.
LEMMA LoopMoves ==
  ASSUME ControlInv, NEW g \in Gen, NEW s \in LoopStates, ~Idle(g), SetLoop(g, s),
         cancelled' \subseteq Gen, listening' \subseteq Gen, foreign' \in BOOLEAN,
         UNCHANGED <<manager, shutdown>>
  PROVE  ControlInv'
<1>0. /\ ControlType /\ LoopsOwned /\ ShutdownInv
      /\ reload # "idle" => reloading < Generations
  BY Zenon DEF ControlInv
<1>1. UNCHANGED <<handle, registered, reload, reloading, main, reaping, late, raced>>
  BY Zenon DEF manager, shutdown
<1>2. loop' \in [Gen -> LoopStates] /\ \A h \in Gen : h # g => loop'[h] = loop[h]
  BY <1>0, Zenon DEF ControlType, SetLoop
<1>3. ControlType'
  BY <1>0, <1>1, <1>2, Zenon DEF ControlType
<1>4. \A h \in Gen : Idle(h) => Idle(h)'
  BY <1>2, Zenon DEF Idle
<1>5. LoopsOwned'
  BY <1>0, <1>1, <1>4, Zenon DEF LoopsOwned
<1>6. ShutdownInv'
  BY <1>0, <1>1, <1>4, Zenon DEF ShutdownInv
<1>. QED
  BY <1>0, <1>1, <1>3, <1>5, <1>6, Zenon DEF ControlInv

\* A step that leaves the loops, the manager and main alone.
LEMMA ControlUntouched ==
  ASSUME ControlInv, UNCHANGED <<loops, manager, shutdown>>, foreign' \in BOOLEAN
  PROVE  ControlInv'
<1>1. UNCHANGED <<loop, cancelled, listening, handle, registered, reload, reloading,
                  main, reaping, late, raced>>
  BY Zenon DEF loops, manager, shutdown
<1>. QED
  BY <1>1, Zenon DEF ControlInv, ControlType, LoopsOwned, ShutdownInv, Idle

\* While main only shuts down, nothing becomes tracked.
LEMMA DrainKept ==
  ASSUME DrainMissesNone, Tracked' \subseteq Tracked, UNCHANGED <<main, late, raced>>
  PROVE  DrainMissesNone'
BY Zenon DEF DrainMissesNone

-----------------------------------------------------------------------------
(* One lemma per process.                                                  *)

\* The parts of a step that each process establishes.
Kept == SlotInv' /\ ControlInv' /\ DrainMissesNone' /\ PoolStep

\* TcpInv by its parts.
LEMMA InvParts == TcpInv => SlotInv /\ ControlInv /\ DrainMissesNone
                            /\ ConnType /\ ControlType
BY Zenon DEF TcpInv, SlotInv, ControlInv

\* A step of an accept loop that takes no connection.
LEMMA LoopStep ==
  ASSUME TcpInv, NEW g \in Gen, NEW s \in LoopStates, ~Idle(g), SetLoop(g, s),
         listening' \subseteq Gen,
         UNCHANGED <<cancelled, conns, manager, shutdown, others, foreign>>
  PROVE  Kept
<1>0. SlotInv /\ ControlInv /\ DrainMissesNone /\ cancelled \subseteq Gen /\ foreign \in BOOLEAN
  BY InvParts, Zenon DEF ControlType
<1>1. ControlInv'
  BY <1>0, LoopMoves, Zenon
<1>2. SlotInv' /\ Held' = Held /\ Tracked' = Tracked
  BY <1>0, SlotsUntouched, Zenon
<1>3. DrainMissesNone'
  BY <1>0, <1>2, DrainKept, Zenon DEF shutdown
<1>4. PoolStep
  BY <1>2, PoolReturns, Zenon
<1>. QED
  BY <1>1, <1>2, <1>3, <1>4, Zenon DEF Kept

\* The bind loop, and the accept loop when it takes nothing.
LEMMA IdleLoopStep ==
  ASSUME TcpInv, NEW g \in Gen,
         \/ Bind(g) \/ BindFails(g) \/ BindAgain(g) \/ TokenPending(g)
         \/ NothingToAccept(g) \/ AcceptExhausted(g) \/ BackoffEnds(g)
  PROVE  Kept
<1>0. listening \subseteq Gen
  BY InvParts, Zenon DEF ControlType
<1>1. CASE Bind(g)
  <2>1. ~Idle(g) /\ "poll" \in LoopStates /\ SetLoop(g, "poll") /\ listening' \subseteq Gen
        /\ UNCHANGED <<cancelled, conns, manager, shutdown, others, foreign>>
    BY <1>0, <1>1, Zenon DEF Bind, Idle, LoopStates
  <2>. QED
    BY <2>1, LoopStep, Zenon
<1>2. ASSUME NEW s \in LoopStates, ~Idle(g), SetLoop(g, s),
             UNCHANGED <<cancelled, listening, conns, manager, shutdown, others, foreign>>
      PROVE  Kept
  BY <1>0, <1>2, LoopStep, Zenon
<1>3. CASE BindFails(g)
  <2>1. ~Idle(g) /\ "wait" \in LoopStates
    BY <1>3, Zenon DEF BindFails, Idle, LoopStates
  <2>. QED
    BY <1>2, <1>3, <2>1, Zenon DEF BindFails
<1>4. CASE BindAgain(g)
  <2>1. ~Idle(g) /\ "bind" \in LoopStates
    BY <1>4, Zenon DEF BindAgain, Idle, LoopStates
  <2>. QED
    BY <1>2, <1>4, <2>1, Zenon DEF BindAgain
<1>5. CASE TokenPending(g)
  <2>1. ~Idle(g) /\ "checked" \in LoopStates
    BY <1>5, Zenon DEF TokenPending, Idle, LoopStates
  <2>. QED
    BY <1>2, <1>5, <2>1, Zenon DEF TokenPending
<1>6. CASE NothingToAccept(g) \/ BackoffEnds(g)
  <2>1. ~Idle(g) /\ "poll" \in LoopStates
    BY <1>6, Zenon DEF NothingToAccept, BackoffEnds, Idle, LoopStates
  <2>. QED
    BY <1>2, <1>6, <2>1, Zenon DEF NothingToAccept, BackoffEnds
<1>7. CASE AcceptExhausted(g)
  <2>1. ~Idle(g) /\ "backoff" \in LoopStates
    BY <1>7, Zenon DEF AcceptExhausted, Idle, LoopStates
  <2>. QED
    BY <1>2, <1>7, <2>1, Zenon DEF AcceptExhausted
<1>. QED
  BY <1>1, <1>3, <1>4, <1>5, <1>6, <1>7, Zenon

\* run_forwarder returns and the kernel resets what was waiting.
LEMMA ReturnStep ==
  ASSUME TcpInv, NEW g \in Gen, LoopStops(g)
  PROVE  Kept
<1>0. /\ SlotInv /\ ControlInv /\ DrainMissesNone /\ ConnType
      /\ cancelled \subseteq Gen /\ listening \subseteq Gen /\ foreign \in BOOLEAN
  BY InvParts, Zenon DEF ControlType
<1>1. /\ ~Idle(g) /\ SetLoop(g, "done") /\ listening' = listening \ {g}
      /\ UNCHANGED <<cancelled, gen, permits, gauge, manager, shutdown, others, foreign>>
      /\ st' = [c \in Conn |-> IF st[c] = "queue" /\ gen[c] = g THEN "out" ELSE st[c]]
  BY Zenon DEF LoopStops, Returned, Idle
<1>2. ControlInv'
  <2>1. "done" \in LoopStates /\ listening' \subseteq Gen
    BY <1>0, <1>1, Zenon DEF LoopStates
  <2>. QED
    BY <1>0, <1>1, <2>1, LoopMoves, Zenon
<1>3. SlotInv' /\ Held' = Held /\ Tracked' = Tracked
  <2>1. st' \in [Conn -> ConnStates] /\ gen' \in [Conn -> Gen]
    BY <1>0, <1>1, Zenon DEF ConnType, ConnStates
  <2>2. \A c \in Conn : \/ st'[c] = st[c] /\ gen'[c] = gen[c]
                        \/ st[c] \in {"out", "queue"} /\ st'[c] \in {"out", "queue"}
    BY <1>1, Zenon
  <2>. QED
    BY <1>0, <1>1, <2>1, <2>2, QueueMoves, Zenon
<1>4. DrainMissesNone'
  BY <1>0, <1>1, <1>3, DrainKept, Zenon DEF shutdown
<1>5. PoolStep
  BY <1>1, <1>3, PoolReturns, Zenon
<1>. QED
  BY <1>2, <1>3, <1>4, <1>5, Zenon DEF Kept

\* A connection is admitted, shed, or gone before accept returned it.
LEMMA AcceptStep ==
  ASSUME TcpInv, NEW g \in Gen, NEW c \in Conn, Accept(g, c) \/ AcceptAborted(g, c)
  PROVE  Kept
<1>0. /\ SlotInv /\ ControlInv /\ DrainMissesNone
      /\ cancelled \subseteq Gen /\ listening \subseteq Gen /\ foreign \in BOOLEAN
  BY InvParts, Zenon DEF ControlType
<1>1. /\ ~Idle(g) /\ SetLoop(g, "poll") /\ st[c] = "queue"
      /\ UNCHANGED <<cancelled, listening, gen, gauge, manager, shutdown, others, foreign>>
  BY Zenon DEF Accept, AcceptAborted, Idle
<1>2. ControlInv'
  <2>1. "poll" \in LoopStates
    BY Zenon DEF LoopStates
  <2>. QED
    BY <1>0, <1>1, <2>1, LoopMoves, Zenon
<1>3. CASE Accept(g, c) /\ Admitted(c)
  <2>1. /\ "spawned" \in ConnStates /\ "spawned" \in Holding /\ "queue" \notin Holding
        /\ "spawned" \notin Counted /\ "queue" \notin Counted
    BY Zenon DEF ConnStates, Holding, Counted
  <2>2. permits > 0 /\ permits' = permits - 1 /\ st' = [st EXCEPT ![c] = "spawned"]
    BY <1>3, Zenon DEF Admitted
  <2>3. PermitFollows(c, "spawned") /\ GuardFollows(c, "spawned")
    BY <1>1, <2>1, <2>2, Zenon DEF PermitFollows, GuardFollows
  <2>4. SlotInv' /\ PoolStep
    BY <1>0, <1>1, <2>1, <2>2, <2>3, ConnMoves, Zenon
  <2>5. ~(main \in {"flush", "exit"} /\ ~late /\ ~raced)
    BY <1>0, <1>1, Zenon DEF ControlInv, ShutdownInv
  <2>6. DrainMissesNone'
    BY <1>1, <2>5, Zenon DEF DrainMissesNone, shutdown
  <2>. QED
    BY <1>2, <2>4, <2>6, Zenon DEF Kept
<1>4. CASE st' = [st EXCEPT ![c] = "out"] /\ permits' = permits
  <2>1. /\ "out" \in ConnStates /\ "out" \notin Holding /\ "queue" \notin Holding
        /\ "out" \notin Counted /\ "queue" \notin Counted
    BY Zenon DEF ConnStates, Holding, Counted
  <2>2. PermitFollows(c, "out") /\ GuardFollows(c, "out")
    BY <1>1, <1>4, <2>1, Zenon DEF PermitFollows, GuardFollows
  <2>3. SlotInv' /\ PoolStep
    BY <1>0, <1>1, <1>4, <2>1, <2>2, ConnMoves, Zenon
  <2>4. Tracked' \subseteq Tracked
    BY <1>0, <1>4, <2>1, TrackedMoves, Zenon
  <2>5. DrainMissesNone'
    BY <1>0, <1>1, <2>4, DrainKept, Zenon DEF shutdown
  <2>. QED
    BY <1>2, <2>3, <2>5, Zenon DEF Kept
<1>5. CASE Accept(g, c)
  BY <1>3, <1>4, <1>5, Zenon DEF Accept, Rejected
<1>6. CASE AcceptAborted(g, c)
  BY <1>4, <1>6, Zenon DEF AcceptAborted
<1>. QED
  BY <1>5, <1>6, Zenon

\* Everything a connection task does.
LEMMA TaskStep ==
  ASSUME TcpInv, NEW c \in Conn, Proceeds(c) \/ RelayEnds(c)
  PROVE  Kept
<1>0. SlotInv /\ ControlInv /\ DrainMissesNone /\ foreign \in BOOLEAN
  BY InvParts, Zenon DEF ControlType
<1>1. UNCHANGED <<loops, gen, manager, shutdown, others, foreign>>
  BY Zenon DEF Proceeds, TaskStarts, Resolved, Connected, TaskFails, RelayEnds, GuardDropped
<1>2. ASSUME NEW s \in ConnStates, st' = [st EXCEPT ![c] = s], c \in Tracked,
             PermitFollows(c, s), GuardFollows(c, s)
      PROVE  Kept
  <2>1. SlotInv' /\ PoolStep
    BY <1>0, <1>1, <1>2, ConnMoves, Zenon
  <2>2. ControlInv'
    BY <1>0, <1>1, ControlUntouched, Zenon
  <2>3. Tracked' \subseteq Tracked
    BY <1>0, <1>2, TrackedMoves, Zenon
  <2>4. DrainMissesNone'
    BY <1>0, <1>1, <2>3, DrainKept, Zenon DEF shutdown
  <2>. QED
    BY <2>1, <2>2, <2>4, Zenon DEF Kept
<1>3. CASE TaskStarts(c)
  <2>1. PermitFollows(c, "resolve") /\ GuardFollows(c, "resolve") /\ c \in Tracked
    BY <1>3, Zenon DEF TaskStarts, PermitFollows, GuardFollows, Holding, Counted, Tracked
  <2>2. "resolve" \in ConnStates /\ st' = [st EXCEPT ![c] = "resolve"]
    BY <1>3, Zenon DEF TaskStarts, ConnStates, Holding, Counted
  <2>. QED
    BY <1>2, <2>1, <2>2, Zenon
<1>4. CASE Resolved(c)
  <2>1. PermitFollows(c, "connect") /\ GuardFollows(c, "connect") /\ c \in Tracked
    BY <1>4, Zenon DEF Resolved, PermitFollows, GuardFollows, Holding, Counted, Tracked
  <2>2. "connect" \in ConnStates /\ st' = [st EXCEPT ![c] = "connect"]
    BY <1>4, Zenon DEF Resolved, ConnStates, Holding, Counted
  <2>. QED
    BY <1>2, <2>1, <2>2, Zenon
<1>5. CASE Connected(c)
  <2>1. PermitFollows(c, "relay") /\ GuardFollows(c, "relay") /\ c \in Tracked
    BY <1>5, Zenon DEF Connected, PermitFollows, GuardFollows, Holding, Counted, Tracked
  <2>2. "relay" \in ConnStates /\ st' = [st EXCEPT ![c] = "relay"]
    BY <1>5, Zenon DEF Connected, ConnStates, Holding, Counted
  <2>. QED
    BY <1>2, <2>1, <2>2, Zenon
<1>6. CASE TaskFails(c) \/ RelayEnds(c)
  <2>1. PermitFollows(c, "closing") /\ GuardFollows(c, "closing") /\ c \in Tracked
    BY <1>6, Zenon DEF TaskFails, RelayEnds, PermitFollows, GuardFollows, Holding, Counted, Tracked
  <2>2. "closing" \in ConnStates /\ st' = [st EXCEPT ![c] = "closing"]
    BY <1>6, Zenon DEF TaskFails, RelayEnds, ConnStates, Holding, Counted
  <2>. QED
    BY <1>2, <2>1, <2>2, Zenon
<1>7. CASE GuardDropped(c)
  <2>1. PermitFollows(c, "out") /\ GuardFollows(c, "out") /\ c \in Tracked
    BY <1>7, Zenon DEF GuardDropped, PermitFollows, GuardFollows, Holding, Counted, Tracked
  <2>2. "out" \in ConnStates /\ st' = [st EXCEPT ![c] = "out"]
    BY <1>7, Zenon DEF GuardDropped, ConnStates, Holding, Counted
  <2>. QED
    BY <1>2, <2>1, <2>2, Zenon
<1>. QED
  BY <1>3, <1>4, <1>5, <1>6, <1>7, Zenon DEF Proceeds

\* A client's connection enters the queue of the listener that is bound.
LEMMA ArriveStep ==
  ASSUME TcpInv, NEW c \in Conn, Arrives(c)
  PROVE  Kept
<1>0. SlotInv /\ ControlInv /\ DrainMissesNone /\ ConnType /\ foreign \in BOOLEAN
  BY InvParts, Zenon DEF ControlType
<1>1. PICK g \in Gen : st' = [st EXCEPT ![c] = "queue"] /\ gen' = [gen EXCEPT ![c] = g]
  BY Zenon DEF Arrives
<1>2. st[c] = "out" /\ UNCHANGED <<loops, permits, gauge, manager, shutdown, others, foreign>>
  BY Zenon DEF Arrives
<1>3. SlotInv' /\ Held' = Held /\ Tracked' = Tracked
  <2>1. st' \in [Conn -> ConnStates] /\ gen' \in [Conn -> Gen]
    BY <1>0, <1>1, Zenon DEF ConnType, ConnStates
  <2>2. ASSUME NEW d \in Conn
        PROVE  \/ st'[d] = st[d] /\ gen'[d] = gen[d]
               \/ st[d] \in {"out", "queue"} /\ st'[d] \in {"out", "queue"}
    BY <1>0, <1>1, <1>2, Zenon DEF ConnType
  <2>. QED
    BY <1>0, <1>2, <2>1, <2>2, QueueMoves, Zenon
<1>4. ControlInv'
  BY <1>0, <1>2, ControlUntouched, Zenon
<1>5. DrainMissesNone'
  BY <1>0, <1>2, <1>3, DrainKept, Zenon DEF shutdown
<1>6. PoolStep
  BY <1>2, <1>3, PoolReturns, Zenon
<1>. QED
  BY <1>3, <1>4, <1>5, <1>6, Zenon DEF Kept

\* A step of the manager or of main: what it has to show.
LEMMA ManagerStep ==
  ASSUME TcpInv, UNCHANGED <<conns, others>>, ControlInv',
         ~late' /\ ~raced' /\ main' \in {"flush", "exit"} => Tracked = {}
  PROVE  Kept
<1>1. SlotInv' /\ Held' = Held /\ Tracked' = Tracked
  BY InvParts, SlotsUntouched, Zenon
<1>2. PoolStep
  BY <1>1, PoolReturns, Zenon
<1>. QED
  BY <1>1, <1>2, Zenon DEF Kept, DrainMissesNone

\* sync takes the old generation out of the map, waits, and starts the next.
LEMMA ReloadStep ==
  ASSUME TcpInv, StopBegins \/ StopEnds \/ StartNext
  PROVE  Kept
<1>0. /\ ControlType /\ LoopsOwned /\ ShutdownInv /\ DrainMissesNone
      /\ reload # "idle" => reloading < Generations
  BY InvParts, Zenon DEF ControlInv
<1>1. UNCHANGED <<conns, others, foreign, main, reaping, raced>>
  BY Zenon DEF StopBegins, StopEnds, StartNext, shutdown
<1>2. CASE StopBegins
  <2>1. PICK g \in handle : /\ g < Generations
                            /\ handle' = handle \ {g} /\ cancelled' = cancelled \cup {g}
                            /\ reload' = "stop" /\ reloading' = g
    BY <1>2, Zenon DEF StopBegins
  <2>2. reload = "idle" /\ main \in {"run", "counted"}
        /\ UNCHANGED <<loop, listening, registered, late>>
    BY <1>2, Zenon DEF StopBegins, shutdown
  <2>3. g \in Gen
    BY <1>0, <2>1, Zenon DEF ControlType
  <2>4. ControlType'
    BY <1>0, <1>1, <2>1, <2>2, <2>3, Zenon DEF ControlType
  <2>5. LoopsOwned'
    BY <1>0, <1>1, <2>1, <2>2, Zenon DEF LoopsOwned, Idle
  <2>6. ShutdownInv'
    BY <1>0, <1>1, <2>2, Zenon DEF ShutdownInv
  <2>7. ControlInv'
    BY <2>1, <2>4, <2>5, <2>6, Zenon DEF ControlInv
  <2>. QED
    BY <1>1, <2>2, <2>7, ManagerStep, Zenon
<1>3. CASE StopEnds
  <2>1. /\ reload = "stop" /\ late' = (late \/ loop[reloading] # "done") /\ reload' = "start"
        /\ registered' = registered \ {reloading}
        /\ UNCHANGED <<loop, cancelled, listening, handle, reloading>>
    BY <1>3, Zenon DEF StopEnds, loops
  <2>2. ControlType'
    BY <1>0, <1>1, <2>1, Zenon DEF ControlType
  <2>3. LoopsOwned'
    <3>1. ~late' => ~late /\ loop[reloading] = "done"
      BY <2>1, Zenon
    <3>. QED
      BY <1>0, <1>1, <2>1, <3>1, Zenon DEF LoopsOwned, Idle
  <2>4. raced \/ main \in {"run", "counted"}
    BY <1>0, <2>1, Zenon DEF ShutdownInv
  <2>5. ShutdownInv'
    BY <1>0, <1>1, <2>4, Zenon DEF ShutdownInv, MainStates
  <2>6. ControlInv'
    BY <1>0, <2>1, <2>2, <2>3, <2>5, Zenon DEF ControlInv
  <2>. QED
    BY <1>1, <2>4, <2>6, ManagerStep, Zenon
<1>4. CASE StartNext
  <2>1. /\ reload = "start" /\ reload' = "idle" /\ handle' = handle \cup {reloading + 1}
        /\ registered' = registered \cup {reloading + 1}
        /\ loop' = [loop EXCEPT ![reloading + 1] = "bind"]
        /\ UNCHANGED <<cancelled, listening, reloading, late>>
    BY <1>4, Zenon DEF StartNext, SetLoop, shutdown
  <2>2. reloading + 1 \in Gen
    BY <1>0, <2>1, Limits DEF ControlType, Gen
  <2>3. ControlType'
    BY <1>0, <1>1, <2>1, <2>2, Zenon DEF ControlType, LoopStates
  <2>4. LoopsOwned'
    <3>1. \A g \in Gen : g # reloading + 1 => loop'[g] = loop[g]
      BY <1>0, <2>1, Zenon DEF ControlType
    <3>. QED
      BY <1>0, <1>1, <2>1, <3>1, Zenon DEF LoopsOwned, Idle
  <2>5. raced \/ main \in {"run", "counted"}
    BY <1>0, <2>1, Zenon DEF ShutdownInv
  <2>6. ShutdownInv'
    BY <1>0, <1>1, <2>5, Zenon DEF ShutdownInv
  <2>7. ControlInv'
    BY <2>1, <2>3, <2>4, <2>6, Zenon DEF ControlInv
  <2>. QED
    BY <1>1, <2>1, <2>5, <2>7, ManagerStep, Zenon
<1>. QED
  BY <1>2, <1>3, <1>4, Zenon

\* main reports, cancels everything it finds in the map, reaps and drains.
LEMMA ShutdownStep ==
  ASSUME TcpInv, ReportStopping \/ CancelAll \/ Reaped \/ Drained \/ Exit
  PROVE  Kept
<1>0. /\ ControlType /\ LoopsOwned /\ ShutdownInv /\ DrainMissesNone
      /\ reload # "idle" => reloading < Generations
  BY InvParts, Zenon DEF ControlInv
<1>1. UNCHANGED <<conns, others, foreign, loop, listening, reload, reloading>>
  BY Zenon DEF ReportStopping, CancelAll, Reaped, Drained, Exit, loops, manager
<1>2. CASE ReportStopping
  <2>1. main = "run" /\ main' = "counted"
        /\ UNCHANGED <<cancelled, handle, registered, reaping, late, raced>>
    BY <1>2, Zenon DEF ReportStopping, loops, manager
  <2>2. ControlInv'
    BY <1>0, <1>1, <2>1, Zenon DEF ControlInv, ControlType, LoopsOwned, ShutdownInv, Idle, MainStates
  <2>. QED
    BY <1>1, <2>1, <2>2, ManagerStep, Zenon
<1>3. CASE CancelAll
  <2>1. /\ main = "counted" /\ main' = "reap" /\ reaping' = handle /\ handle' = {}
        /\ cancelled' = cancelled \cup handle /\ raced' = (reload # "idle")
        /\ UNCHANGED <<registered, late>>
    BY <1>3, Zenon DEF CancelAll
  <2>2. ControlType'
    BY <1>0, <1>1, <2>1, Zenon DEF ControlType, MainStates
  <2>3. LoopsOwned'
    <3>1. reaping = {}
      BY <1>0, <2>1, Zenon DEF ShutdownInv
    <3>. QED
      BY <1>0, <1>1, <2>1, <3>1, Zenon DEF LoopsOwned, Idle
  <2>4. ShutdownInv'
    BY <1>1, <2>1, Zenon DEF ShutdownInv
  <2>5. ControlInv'
    BY <1>0, <1>1, <2>2, <2>3, <2>4, Zenon DEF ControlInv
  <2>. QED
    BY <1>1, <2>1, <2>5, ManagerStep, Zenon
<1>4. CASE Reaped
  <2>1. /\ main = "reap" /\ main' = "drain" /\ registered' = registered \ reaping
        /\ late' = (late \/ \E g \in reaping : loop[g] # "done")
        /\ UNCHANGED <<cancelled, handle, reaping, raced>>
    BY <1>4, Zenon DEF Reaped, loops
  <2>2. ~late' => ~late /\ \A g \in reaping : Idle(g)
    BY <2>1, Zenon DEF Idle
  <2>3. ControlType'
    <3>1. late' \in BOOLEAN
      BY <2>1, Zenon
    <3>. QED
      BY <1>0, <1>1, <2>1, <3>1, Zenon DEF ControlType, MainStates
  <2>4. LoopsOwned'
    BY <1>0, <1>1, <2>1, <2>2, Zenon DEF LoopsOwned, Idle
  <2>5. ShutdownInv'
    <3>1. ~raced => reload = "idle" /\ handle = {}
      BY <1>0, <2>1, Zenon DEF ShutdownInv
    <3>2. ~late' /\ ~raced => \A g \in Gen : Idle(g)
      BY <1>0, <2>2, <3>1, Zenon DEF LoopsOwned
    <3>. QED
      BY <1>1, <2>1, <3>1, <3>2, Zenon DEF ShutdownInv, Idle
  <2>6. ControlInv'
    BY <1>0, <1>1, <2>3, <2>4, <2>5, Zenon DEF ControlInv
  <2>. QED
    BY <1>1, <2>1, <2>6, ManagerStep, Zenon
<1>5. CASE Drained
  <2>1. /\ main = "drain" /\ main' = "flush" /\ late' = (late \/ Tracked # {})
        /\ UNCHANGED <<cancelled, handle, registered, reaping, raced>>
    BY <1>5, Zenon DEF Drained, loops, manager
  <2>2. late' \in BOOLEAN /\ (~late' => ~late /\ Tracked = {})
    BY <2>1, Zenon
  <2>3. ControlType'
    BY <1>0, <1>1, <2>1, <2>2, Zenon DEF ControlType, MainStates
  <2>4. LoopsOwned' /\ ShutdownInv'
    BY <1>0, <1>1, <2>1, <2>2, Zenon DEF LoopsOwned, ShutdownInv, Idle
  <2>5. ControlInv'
    BY <1>0, <1>1, <2>3, <2>4, Zenon DEF ControlInv
  <2>. QED
    BY <1>1, <2>2, <2>5, ManagerStep, Zenon
<1>6. CASE Exit
  <2>1. main = "flush" /\ main' = "exit"
        /\ UNCHANGED <<cancelled, handle, registered, reaping, late, raced>>
    BY <1>6, Zenon DEF Exit, loops, manager
  <2>2. ControlInv'
    BY <1>0, <1>1, <2>1, Zenon DEF ControlInv, ControlType, LoopsOwned, ShutdownInv, Idle, MainStates
  <2>3. ~late /\ ~raced => Tracked = {}
    BY <1>0, <2>1, Zenon DEF DrainMissesNone
  <2>. QED
    BY <1>1, <2>1, <2>2, <2>3, ManagerStep, Zenon
<1>. QED
  BY <1>2, <1>3, <1>4, <1>5, <1>6, Zenon

\* The port, and the connections of the other forwarders.
LEMMA EnvironmentStep ==
  ASSUME TcpInv, PortChangesHands \/ OthersOpen \/ OthersClose
  PROVE  Kept
<1>0. SlotInv /\ ControlInv /\ DrainMissesNone /\ ConnType /\ foreign \in BOOLEAN
  BY InvParts, Zenon DEF ControlType
<1>1. CASE PortChangesHands
  <2>1. foreign' \in BOOLEAN /\ UNCHANGED <<loops, conns, manager, shutdown, others>>
    BY <1>1, Zenon DEF PortChangesHands
  <2>2. ControlInv'
    BY <1>0, <2>1, ControlUntouched, Zenon
  <2>. QED
    BY <1>0, <2>1, <2>2, ManagerStep, Zenon DEF DrainMissesNone, shutdown
<1>2. CASE OthersOpen \/ OthersClose
  <2>1. UNCHANGED <<loops, st, gen, gauge, manager, shutdown, foreign>>
    BY <1>2, Zenon DEF OthersOpen, OthersClose
  <2>2. Held' = Held /\ Tracked' = Tracked /\ \A g \in Gen : CountedBy(g)' = CountedBy(g)
    BY <2>1, Zenon DEF Held, Tracked, CountedBy
  <2>3. /\ permits \in Nat /\ others \in Nat /\ permits <= Limit /\ others <= MaxOthers
        /\ permits + Cardinality(Held) + others = Limit /\ Cardinality(Held) \in Nat
        /\ Limit \in Nat /\ MaxOthers \in Nat
    BY <1>0, Limits, CountsFinite DEF SlotInv, SlotsConserved, ConnType
  <2>4. /\ permits' \in 0..Limit /\ others' \in 0..MaxOthers
        /\ permits' + Cardinality(Held) + others' = Limit
    <3>1. CASE OthersOpen
      BY <2>3, <3>1 DEF OthersOpen
    <3>2. CASE OthersClose
      BY <2>3, <3>2 DEF OthersClose
    <3>. QED
      BY <1>2, <3>1, <3>2, Zenon
  <2>5. SlotInv'
    <3>1. ConnType'
      BY <1>0, <2>1, <2>4, Zenon DEF ConnType
    <3>2. \A g \in Gen : gauge'[g] = Cardinality(CountedBy(g)')
      BY <1>0, <2>1, <2>2, Zenon DEF SlotInv, SlotsConserved
    <3>. QED
      BY <2>2, <2>4, <3>1, <3>2, Zenon DEF SlotInv, SlotsConserved
  <2>6. ControlInv' /\ DrainMissesNone'
    BY <1>0, <2>1, <2>2, ControlUntouched, DrainKept, Zenon DEF shutdown
  <2>7. PoolStep
    <3>1. CASE OthersOpen
      <4>1. Cardinality(Held) + others < Limit /\ others' = others + 1
        BY <2>3, <3>1 DEF OthersOpen
      <4>. QED
        BY <2>2, <4>1, PoolCount, Zenon DEF PoolStep, Pool!Next, Pool!OthersTake
    <3>2. CASE OthersClose
      BY <2>2, <3>2, Zenon DEF OthersClose, PoolStep, Pool!Next, Pool!OthersGiveBack
    <3>. QED
      BY <1>2, <3>1, <3>2, Zenon
  <2>. QED
    BY <2>5, <2>6, <2>7, Zenon DEF Kept
<1>. QED
  BY <1>1, <1>2, Zenon

-----------------------------------------------------------------------------
(* The theorems.                                                           *)

\* The invariant holds when main has started the forwarder.
LEMMA InvInit == Init => TcpInv /\ Pool!Init
<1>. SUFFICES ASSUME Init PROVE TcpInv /\ Pool!Init
  BY Zenon
<1>1. Held = {} /\ Tracked = {} /\ \A g \in Gen : CountedBy(g) = {}
  BY Zenon DEF Init, Held, Tracked, CountedBy, Holding, Counted
<1>2. 1 \in Gen
  BY Limits DEF Gen
<1>3. ConnType
  BY <1>2, Limits DEF Init, ConnType, ConnStates
<1>4. SlotsConserved
  <2>1. Cardinality(Held) = 0 /\ \A g \in Gen : Cardinality(CountedBy(g)) = 0
    BY <1>1, FS_EmptySet, Zenon
  <2>2. permits = Limit /\ others = 0 /\ \A g \in Gen : gauge[g] = 0
    BY Zenon DEF Init
  <2>. QED
    BY <2>1, <2>2, Limits DEF SlotsConserved
<1>5. ControlType
  BY <1>2, Zenon DEF Init, ControlType, LoopStates, MainStates
<1>6. LoopsOwned /\ ShutdownInv /\ DrainMissesNone
  BY <1>1, <1>2, Zenon DEF Init, LoopsOwned, ShutdownInv, DrainMissesNone, Idle
<1>7. TcpInv
  BY <1>3, <1>4, <1>5, <1>6, Zenon DEF Init, TcpInv, SlotInv, ControlInv
<1>. QED
  BY <1>1, <1>7, Zenon DEF Pool!Init, Init

\* Every step keeps the invariant and is a step of the pool or changes nothing
\* the pool sees.
LEMMA InvStep == TcpInv /\ [Next]_vars => TcpInv' /\ [Pool!Next]_<<Held, others>>
<1>. SUFFICES ASSUME TcpInv, [Next]_vars PROVE Kept
  BY Zenon DEF Kept, TcpInv, PoolStep
<1>1. ASSUME NEW g \in Gen, run_forwarder(g) PROVE Kept
  BY <1>1, IdleLoopStep, ReturnStep, AcceptStep, Zenon DEF run_forwarder
<1>2. ASSUME NEW c \in Conn, Proceeds(c) \/ RelayEnds(c) \/ Arrives(c) PROVE Kept
  BY <1>2, TaskStep, ArriveStep, Zenon
<1>3. CASE UNCHANGED vars
  <2>1. UNCHANGED <<conns, others>> /\ UNCHANGED <<loops, manager, shutdown>> /\ foreign' = foreign
    BY <1>3 DEF vars
  <2>2. ControlInv' /\ DrainMissesNone
    BY <2>1, InvParts, ControlUntouched DEF ControlType
  <2>. QED
    BY <2>1, <2>2, ManagerStep DEF DrainMissesNone, shutdown
<1>. QED
  BY <1>1, <1>2, <1>3, ReloadStep, ShutdownStep, EnvironmentStep, Zenon DEF Next

\* TcpInv holds throughout, whatever reloads and whenever the signal comes.
THEOREM TcpInvariance == Spec => []TcpInv
<1>. QED
  BY InvInit, InvStep, PTL DEF Spec

\* Every variable keeps its type.
THEOREM TypeCorrect == Spec => []TypeOK
<1>1. TcpInv => TypeOK
  BY InvParts, TypeParts
<1>. QED
  BY <1>1, TcpInvariance, PTL

\* No interleaving of accept loops, connection tasks, reloads and the other
\* forwarders leaks or doubles a max_connections permit, and each gauge counts
\* the tasks its generation still runs.
THEOREM SlotsNeverLeak == Spec => []SlotsConserved
<1>1. TcpInv => SlotsConserved
  BY DEF TcpInv, SlotInv
<1>. QED
  BY <1>1, TcpInvariance, PTL

\* shutdown_all drains every connection an accept loop admitted, also one it
\* took after it was cancelled.
THEOREM DrainComplete == Spec => []DrainMissesNone
<1>1. TcpInv => DrainMissesNone
  BY DEF TcpInv
<1>. QED
  BY <1>1, TcpInvariance, PTL

\* The semaphore, moved around as OwnedSemaphorePermits, implements the
\* abstract pool of slots across generations and forwarders.
THEOREM PoolImplemented == Spec => ImplementsPool
<1>. QED
  BY InvInit, InvStep, TcpInvariance, PTL DEF Spec, ImplementsPool, Pool!Spec
=============================================================================
