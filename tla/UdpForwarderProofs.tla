-------------------------- MODULE UdpForwarderProofs --------------------------
(***************************************************************************)
(* The safety properties of UdpForwarder for every number of clients,      *)
(* addresses, sessions and permits.                                        *)
(***************************************************************************)
EXTENDS UdpForwarder, FiniteSetTheorems, TLAPS

-----------------------------------------------------------------------------
(* The inductive invariant: SessionInv relates the session map, the Arcs,   *)
(* the tasks and the slots; PhaseInv ties them to where run_udp_forwarder   *)
(* and the refresher stand.                                                 *)

\* An Arc for the map entry and one for the running task.
ArcCount(s) == (IF s \in Mapped THEN 1 ELSE 0) + (IF s \in Running THEN 1 ELSE 0)

ArcsOwned == \A s \in Sess : sess[s].refs = ArcCount(s)

EntriesOwned == \A c \in Client : entry[c] # NoSession => sess[entry[c]].client = c

TasksTold ==
  \A s \in Sess :
    /\ sess[s].task = "dying" => sess[s].dead
    /\ s \in Mapped =>
         ~sess[s].closed /\ (cancelled \/ sess[s].dead \/ sess[s].task # "gone")
    /\ s \notin Mapped /\ sess[s].task # "gone" => TokenCancelled(s)

SessionInv == TypeOK /\ ArcsOwned /\ EntriesOwned /\ TasksTold /\ SlotsConserved

PhaseInv ==
  /\ opening # NoOpening =>
       /\ phase = "run" /\ entry[opening.client] = NoSession
       /\ ~unseen => opening.remote \in published.set
  /\ phase \in {"bind", "backoff"} => Live = {} /\ refresher \in {"literal", "unborn"}
  /\ phase \in {"wait", "done"} => cancelled /\ Mapped = {}
  /\ ~unseen => \A s \in Mapped : sess[s].remote \in published.set
  /\ phase = "done" /\ ~expired => Live = {} /\ ~TasksRunning

UdpInv == SessionInv /\ PhaseInv

\* The part of TypeOK that the session steps change.
SessionType ==
  /\ entry \in [Client -> Sess \cup {NoSession}]
  /\ sess \in [Sess -> Session]
  /\ permits \in Nat /\ others \in Nat /\ active \in Nat

-----------------------------------------------------------------------------
(* Slots and Arcs. *)

\* Finitely many sessions exist.
LEMMA LiveFinite == IsFiniteSet(Live) /\ Cardinality(Live) \in Nat
<1>1. Live \subseteq Sess
  BY Zenon DEF Live
<1>. QED
  BY <1>1, FS_Subset, FS_CardinalityType, UdpAssumption, Zenon

\* Giving back the slots of existing sessions that cease to exist keeps the
\* account of ReleaseSlots balanced.
LEMMA SlotsReleased ==
  ASSUME TypeOK, SlotsConserved, NEW F \in SUBSET Live, ReleaseSlots(F), Live' = Live \ F
  PROVE  SlotsConserved' /\ permits' \in Nat /\ others' \in Nat /\ active' \in Nat
<1>1. /\ IsFiniteSet(F) /\ Cardinality(F) \in Nat /\ Cardinality(F) <= Cardinality(Live)
      /\ Cardinality(Live \ F) = Cardinality(Live) - Cardinality(F)
  <2>1. IsFiniteSet(F) /\ Cardinality(F) \in Nat /\ Cardinality(F) <= Cardinality(Live)
    BY LiveFinite, FS_Subset, FS_CardinalityType, Zenon
  <2>2. Cardinality(Live \ F) = Cardinality(Live) - Cardinality(Live \cap F)
    BY LiveFinite, FS_Difference, Zenon
  <2>3. Live \cap F = F
    BY Zenon
  <2>. QED
    BY <2>1, <2>2, <2>3, Zenon
<1>2. IsFiniteSet(Live') /\ Cardinality(Live') \in Nat
  BY <1>1, LiveFinite, FS_Difference, FS_CardinalityType, Zenon
<1>. QED
  BY <1>1, <1>2, LiveFinite, UdpAssumption DEF SlotsConserved, ReleaseSlots, TypeOK

\* Who a session belongs to and what it has been told survive a dropped Arc.
SameSession(q, r) ==
  /\ q.client = r.client /\ q.remote = r.remote /\ q.task = r.task
  /\ q.dead = r.dead /\ q.closed = r.closed

\* The record of an unused identity is well formed.
LEMMA FreedType == Freed \in Session /\ Freed.refs = 0 /\ Freed.task = "gone"
BY UdpAssumption DEF Freed, Session, TaskStates

\* Dropping one of two Arcs leaves a session that differs in its count only.
LEMMA ArcDropped ==
  ASSUME NEW r \in Session
  PROVE  /\ r.refs = 1 => DropArc(r) = Freed
         /\ r.refs = 2 => /\ DropArc(r) \in Session /\ DropArc(r).refs = 1
                          /\ SameSession(DropArc(r), r)
<1>1. CASE r.refs = 2
  <2>1. DropArc(r) = [r EXCEPT !.refs = 1]
    BY <1>1 DEF DropArc
  <2>. QED
    BY <1>1, <2>1 DEF Session, SameSession
<1>. QED
  BY <1>1, Zenon DEF DropArc

\* Cancelling a session's token changes nothing else.
LEMMA TokenFired ==
  ASSUME NEW r \in Session
  PROVE  LET q == [r EXCEPT !.closed = TRUE] IN
         /\ q \in Session /\ q.closed /\ q.refs = r.refs /\ q.client = r.client
         /\ q.remote = r.remote /\ q.task = r.task /\ q.dead = r.dead
BY Zenon DEF Session

\* close_entry on a set of map entries: they leave the map, exactly the
\* sessions whose task has already returned cease to exist, and the sessions
\* that stay mapped are not touched.
LEMMA EntriesClosed ==
  ASSUME SessionInv, NEW S \in SUBSET Mapped, CloseEntries(S), cancelled' = cancelled
  PROVE  /\ SessionType' /\ ArcsOwned' /\ EntriesOwned' /\ TasksTold' /\ SlotsConserved'
         /\ Mapped' = Mapped \ S
         /\ \A s \in Sess \ S : sess'[s] = sess[s]
         /\ \A c \in Client : entry[c] = NoSession => entry'[c] = NoSession
         /\ Live' \subseteq Live
<1>. DEFINE F == {s \in S : sess[s].refs = 1}
            G == S \ F
<1>. S \subseteq Sess
  BY Zenon DEF Mapped
<1>0. \A s \in S : sess[s].refs \in {1, 2}
  BY DEF SessionInv, ArcsOwned, ArcCount
<1>1. /\ \A s \in G : /\ sess'[s] \in Session
                      /\ sess'[s].refs = 1 /\ sess'[s].task = sess[s].task
                      /\ sess'[s].closed /\ sess'[s].dead = sess[s].dead
                      /\ sess'[s].client = sess[s].client
      /\ \A s \in F : sess'[s] = Freed
      /\ \A s \in Sess \ S : sess'[s] = sess[s]
  <2>1. /\ \A s \in S : sess'[s] = DropArc([sess[s] EXCEPT !.closed = TRUE])
        /\ \A s \in Sess \ S : sess'[s] = sess[s]
    BY Zenon DEF CloseEntries
  <2>2. ASSUME NEW s \in S
        PROVE  /\ s \in F => sess'[s] = Freed
               /\ s \in G => /\ sess'[s] \in Session
                             /\ sess'[s].refs = 1 /\ sess'[s].task = sess[s].task
                             /\ sess'[s].closed /\ sess'[s].dead = sess[s].dead
                             /\ sess'[s].client = sess[s].client
    <3>. DEFINE q == [sess[s] EXCEPT !.closed = TRUE]
    <3>1. sess[s] \in Session
      BY Zenon DEF SessionInv, TypeOK
    <3>2. /\ q \in Session /\ q.closed /\ q.refs = sess[s].refs /\ q.client = sess[s].client
          /\ q.remote = sess[s].remote /\ q.task = sess[s].task /\ q.dead = sess[s].dead
      BY <3>1, TokenFired, Zenon
    <3>3. sess'[s] = DropArc(q)
      BY <2>1, Zenon
    <3>4. /\ q.refs = 1 => DropArc(q) = Freed
          /\ q.refs = 2 => /\ DropArc(q) \in Session /\ DropArc(q).refs = 1
                           /\ SameSession(DropArc(q), q)
      BY <3>2, ArcDropped, Zenon
    <3>. HIDE DEF q
    <3>. QED
      BY <3>2, <3>3, <3>4, <1>0, Zenon DEF SameSession
  <2>. QED
    BY <2>1, <2>2, Zenon
<1>2. Mapped' = Mapped \ S
  BY UdpAssumption, Zenon DEF CloseEntries, Mapped, SessionInv, TypeOK
<1>3. SessionType' /\ SlotsConserved' /\ Live' \subseteq Live
  <2>1. entry' \in [Client -> Sess \cup {NoSession}]
    BY Zenon DEF CloseEntries, SessionInv, TypeOK
  <2>2. sess' \in [Sess -> Session]
    <3>1. \A s \in Sess : sess'[s] \in Session
      BY <1>1, FreedType, Zenon DEF SessionInv, TypeOK
    <3>. QED
      BY <3>1, Zenon DEF CloseEntries
  <2>3. Live' = Live \ F
    <3>1. ASSUME NEW s \in Sess PROVE (sess'[s].refs > 0) <=> (sess[s].refs > 0 /\ s \notin F)
      <4>1. CASE s \in F
        BY <4>1, <1>1 DEF Freed
      <4>2. CASE s \in G
        BY <4>2, <1>1, <1>0
      <4>3. CASE s \notin S
        BY <4>3, <1>1, Zenon
      <4>. QED
        BY <4>1, <4>2, <4>3, Zenon
    <3>. QED
      BY <3>1, Zenon DEF Live
  <2>4. F \in SUBSET Live
    BY DEF Live
  <2>5. ReleaseSlots(F)
    BY Zenon DEF CloseEntries
  <2>. QED
    BY <2>1, <2>2, <2>3, <2>4, <2>5, SlotsReleased, Zenon DEF SessionInv, SessionType
<1>4. /\ \A s \in F : sess'[s].refs = 0 /\ sess'[s].task = "gone" /\ sess[s].task = "gone"
      /\ \A s \in G : sess[s].task # "gone"
  BY <1>0, <1>1 DEF Freed, SessionInv, ArcsOwned, ArcCount, Running
<1>5. ArcsOwned'
  <2>. SUFFICES ASSUME NEW s \in Sess PROVE (sess[s].refs = ArcCount(s))'
    BY Zenon DEF ArcsOwned
  <2>1. CASE s \in F
    BY <2>1, <1>2, <1>4 DEF ArcCount, Running
  <2>2. CASE s \in G
    BY <2>2, <1>1, <1>2, <1>4 DEF ArcCount, Running
  <2>3. CASE s \notin S
    BY <2>3, <1>1, <1>2, Zenon DEF ArcCount, Running, SessionInv, ArcsOwned
  <2>. QED
    BY <2>1, <2>2, <2>3, Zenon
<1>6. EntriesOwned'
  BY <1>1, UdpAssumption DEF EntriesOwned, SessionInv, CloseEntries, TypeOK
<1>7. TasksTold'
  <2>. SUFFICES ASSUME NEW s \in Sess
                PROVE  (/\ sess[s].task = "dying" => sess[s].dead
                        /\ s \in Mapped =>
                             ~sess[s].closed /\ (cancelled \/ sess[s].dead \/ sess[s].task # "gone")
                        /\ s \notin Mapped /\ sess[s].task # "gone" => TokenCancelled(s))'
    BY Zenon DEF TasksTold
  <2>1. CASE s \in F
    BY <2>1, <1>2, <1>4, Zenon
  <2>2. CASE s \in G
    BY <2>2, <1>1, <1>2, Zenon DEF TasksTold, SessionInv, TokenCancelled
  <2>3. CASE s \notin S
    BY <2>3, <1>1, <1>2, Zenon DEF TasksTold, SessionInv, TokenCancelled
  <2>. QED
    BY <2>1, <2>2, <2>3, Zenon
<1>8. \A c \in Client : entry[c] = NoSession => entry'[c] = NoSession
  BY Zenon DEF CloseEntries
<1>. QED
  BY <1>1, <1>2, <1>3, <1>5, <1>6, <1>7, <1>8, Zenon

\* A task that has been told to stop, or has marked its session dead, returns:
\* its Arc goes, and with it the session if the map no longer holds it.
LEMMA TaskReturned ==
  ASSUME SessionInv, NEW s \in Sess, sess[s].task # "gone",
         TokenCancelled(s) \/ sess[s].task = "dying",
         TaskReturns(s)
  PROVE  /\ SessionType' /\ ArcsOwned' /\ EntriesOwned' /\ TasksTold' /\ SlotsConserved'
         /\ \A t \in Mapped : sess'[t].remote = sess[t].remote
         /\ Live' \subseteq Live /\ Running' \subseteq Running
<1>. DEFINE q == [sess[s] EXCEPT !.task = "gone"]
            F == {t \in {s} : sess[t].refs = 1}
<1>0. entry' = entry /\ Mapped' = Mapped /\ cancelled' = cancelled
  BY Zenon DEF TaskReturns, Mapped, envVars
<1>1. /\ q \in Session /\ q.task = "gone" /\ q.refs = sess[s].refs /\ q.client = sess[s].client
      /\ q.remote = sess[s].remote /\ q.closed = sess[s].closed /\ q.dead = sess[s].dead
  <2>1. sess[s] \in Session
    BY Zenon DEF SessionInv, TypeOK
  <2>. QED
    BY <2>1, Zenon DEF Session, TaskStates
<1>2. sess'[s] = DropArc(q) /\ \A t \in Sess \ {s} : sess'[t] = sess[t]
  BY Zenon DEF TaskReturns, SessionInv, TypeOK
<1>3. /\ q.refs = 1 => DropArc(q) = Freed
      /\ q.refs = 2 => DropArc(q) \in Session /\ DropArc(q).refs = 1 /\ SameSession(DropArc(q), q)
  BY <1>1, ArcDropped, Zenon
<1>. HIDE DEF q
<1>4. \/ s \notin Mapped /\ sess[s].refs = 1
      \/ s \in Mapped /\ sess[s].refs = 2
  BY DEF SessionInv, ArcsOwned, ArcCount, Running
<1>5. sess'[s] \in Session /\ sess'[s].task = "gone"
  BY <1>1, <1>2, <1>3, <1>4, FreedType, Zenon DEF SameSession
<1>6. s \in Mapped => /\ sess'[s].refs = 1 /\ sess'[s].client = sess[s].client
                      /\ sess'[s].remote = sess[s].remote /\ sess'[s].closed = sess[s].closed
                      /\ sess'[s].dead = sess[s].dead
  BY <1>1, <1>2, <1>3, <1>4, Zenon DEF SameSession
<1>7. s \notin Mapped => sess'[s] = Freed
  BY <1>1, <1>2, <1>3, <1>4, Zenon
<1>8. SessionType' /\ SlotsConserved' /\ Live' \subseteq Live
  <2>1. sess' \in [Sess -> Session]
    <3>1. \A t \in Sess : sess'[t] \in Session
      BY <1>2, <1>5, Zenon DEF SessionInv, TypeOK
    <3>2. sess' = [t \in Sess |-> sess'[t]]
      BY Zenon DEF TaskReturns, SessionInv, TypeOK
    <3>. QED
      BY <3>1, <3>2, Zenon
  <2>2. Live' = Live \ F
    <3>1. ASSUME NEW t \in Sess PROVE (sess'[t].refs > 0) <=> (sess[t].refs > 0 /\ t \notin F)
      BY <1>2, <1>4, <1>6, <1>7 DEF Freed
    <3>. QED
      BY <3>1, Zenon DEF Live
  <2>3. F \in SUBSET Live /\ ReleaseSlots(F)
    BY DEF Live, TaskReturns
  <2>. QED
    BY <1>0, <2>1, <2>2, <2>3, SlotsReleased, Zenon DEF SessionInv, SessionType, TypeOK
<1>9. Running' = Running \ {s}
  BY <1>2, <1>5, Zenon DEF Running
<1>10. ArcsOwned'
  <2>. SUFFICES ASSUME NEW t \in Sess PROVE (sess[t].refs = ArcCount(t))'
    BY Zenon DEF ArcsOwned
  <2>1. CASE t = s
    BY <2>1, <1>0, <1>6, <1>7, <1>9 DEF ArcCount, Freed
  <2>2. CASE t # s
    BY <2>2, <1>0, <1>2, <1>9, Zenon DEF ArcCount, SessionInv, ArcsOwned
  <2>. QED
    BY <2>1, <2>2, Zenon
<1>11. EntriesOwned'
  BY <1>0, <1>2, <1>6 DEF EntriesOwned, SessionInv, Mapped, TypeOK
<1>12. TasksTold'
  <2>. SUFFICES ASSUME NEW t \in Sess
                PROVE  (/\ sess[t].task = "dying" => sess[t].dead
                        /\ t \in Mapped =>
                             ~sess[t].closed /\ (cancelled \/ sess[t].dead \/ sess[t].task # "gone")
                        /\ t \notin Mapped /\ sess[t].task # "gone" => TokenCancelled(t))'
    BY Zenon DEF TasksTold
  <2>1. CASE t = s
    BY <2>1, <1>0, <1>5, <1>6, Zenon DEF TasksTold, SessionInv, TokenCancelled
  <2>2. CASE t # s
    BY <2>2, <1>0, <1>2, Zenon DEF TasksTold, SessionInv, TokenCancelled
  <2>. QED
    BY <2>1, <2>2, Zenon
<1>. QED
  BY <1>0, <1>2, <1>6, <1>8, <1>9, <1>10, <1>11, <1>12, Zenon DEF Mapped

\* A step of a session that neither ends its task nor touches its owners.
Continues(q, r) ==
  /\ q.refs = r.refs /\ q.client = r.client /\ q.remote = r.remote /\ q.closed = r.closed
  /\ q.task = "gone" <=> r.task = "gone"
  /\ r.dead => q.dead
  /\ q.task = "dying" => q.dead

\* Steps of that kind keep the account.
LEMMA SessionsContinue ==
  ASSUME SessionInv, sess' \in [Sess -> Session],
         \A s \in Sess : Continues(sess'[s], sess[s]),
         UNCHANGED <<entry, cancelled, slotVars>>
  PROVE  /\ SessionType' /\ ArcsOwned' /\ EntriesOwned' /\ TasksTold' /\ SlotsConserved'
         /\ Mapped' = Mapped /\ Live' = Live /\ Running' = Running
         /\ \A t \in Sess : sess'[t].remote = sess[t].remote
<1>1. Mapped' = Mapped /\ Live' = Live /\ Running' = Running
  BY Zenon DEF Mapped, Live, Running, Continues
<1>2. SessionType' /\ SlotsConserved'
  BY <1>1, Zenon DEF SessionType, SlotsConserved, SessionInv, TypeOK, slotVars
<1>3. ArcsOwned'
  BY <1>1, Zenon DEF ArcsOwned, ArcCount, SessionInv, Continues
<1>4. EntriesOwned'
  BY Zenon DEF EntriesOwned, SessionInv, TypeOK, Continues
<1>5. TasksTold'
  BY <1>1, Zenon DEF TasksTold, SessionInv, Continues, TokenCancelled
<1>. QED
  BY <1>1, <1>2, <1>3, <1>4, <1>5, Zenon DEF Continues

\* open_session: a new session for a client without one takes a free slot.
LEMMA SessionOpened ==
  ASSUME SessionInv, PhaseInv, OpenSession
  PROVE  /\ SessionType' /\ ArcsOwned' /\ EntriesOwned' /\ TasksTold' /\ SlotsConserved'
         /\ \E s \in Sess \ Live :
              /\ Mapped' = Mapped \cup {s} /\ s \notin Mapped /\ Live' = Live \cup {s}
              /\ sess'[s].remote = opening.remote
              /\ \A t \in Sess \ {s} : sess'[t] = sess[t]
<1>1. PICK s \in Sess \ Live :
        /\ sess' = [sess EXCEPT ![s] = Fresh(opening.client, opening.remote)]
        /\ entry' = [entry EXCEPT ![opening.client] = s]
  BY Zenon DEF OpenSession
<1>. DEFINE f == Fresh(opening.client, opening.remote)
            c == opening.client
<1>2. /\ c \in Client /\ opening.remote \in Addr
      /\ entry[c] = NoSession /\ permits > 0 /\ cancelled' = cancelled
  BY Zenon DEF OpenSession, PhaseInv, SessionInv, TypeOK, envVars
<1>3. /\ f \in Session /\ f.refs = 2 /\ f.client = c /\ f.remote = opening.remote
      /\ f.task = "wait" /\ ~f.closed /\ ~f.dead
  BY <1>2, UdpAssumption DEF Fresh, Session, TaskStates
<1>4. sess'[s] = f /\ \A t \in Sess \ {s} : sess'[t] = sess[t]
  BY <1>1, Zenon DEF SessionInv, TypeOK
<1>. HIDE DEF f
<1>5. entry'[c] = s /\ \A d \in Client \ {c} : entry'[d] = entry[d]
  BY <1>1, <1>2, Zenon DEF SessionInv, TypeOK
<1>. HIDE DEF c
<1>6. sess[s].refs = 0 /\ s \notin Mapped /\ s \notin Running
  <2>1. sess[s].refs \in 0..2 /\ sess[s].refs = ArcCount(s)
    BY Zenon DEF SessionInv, TypeOK, ArcsOwned, Session
  <2>. QED
    BY <2>1 DEF Live, ArcCount
<1>7. Mapped' = Mapped \cup {s}
  BY <1>2, <1>5, UdpAssumption, Zenon DEF Mapped
<1>8. Live' = Live \cup {s} /\ Running' = Running \cup {s}
  BY <1>3, <1>4 DEF Live, Running
<1>9. SlotsConserved' /\ SessionType'
  <2>1. Cardinality(Live \cup {s}) = Cardinality(Live) + 1
    BY LiveFinite, FS_AddElement, Zenon
  <2>2. permits' = permits - 1 /\ active' = active + 1 /\ others' = others
    BY Zenon DEF OpenSession
  <2>3. sess' \in [Sess -> Session] /\ entry' \in [Client -> Sess \cup {NoSession}]
    BY <1>1, <1>2, <1>3, Zenon DEF SessionInv, TypeOK, f, c
  <2>. QED
    BY <1>2, <1>8, <2>1, <2>2, <2>3, LiveFinite DEF SlotsConserved, SessionInv, TypeOK, SessionType
<1>10. ArcsOwned'
  <2>. SUFFICES ASSUME NEW t \in Sess PROVE (sess[t].refs = ArcCount(t))'
    BY Zenon DEF ArcsOwned
  <2>1. CASE t = s
    BY <2>1, <1>3, <1>4, <1>7, <1>8 DEF ArcCount
  <2>2. CASE t # s
    BY <2>2, <1>4, <1>7, <1>8, Zenon DEF ArcCount, SessionInv, ArcsOwned
  <2>. QED
    BY <2>1, <2>2, Zenon
<1>11. EntriesOwned'
  BY <1>3, <1>4, <1>5, <1>6 DEF EntriesOwned, SessionInv, Mapped, TypeOK
<1>12. TasksTold'
  BY <1>2, <1>3, <1>4, <1>7, Zenon DEF TasksTold, SessionInv, TokenCancelled
<1>. QED
  BY <1>3, <1>4, <1>6, <1>7, <1>8, <1>9, <1>10, <1>11, <1>12, Zenon

\* The conjuncts about sessions, for the steps of everybody else.
SessionAccount == SessionType /\ ArcsOwned /\ EntriesOwned /\ TasksTold /\ SlotsConserved

\* A step that leaves the sessions alone keeps their account, also when it
\* cancels the forwarder.
LEMMA SessionsUntouched ==
  ASSUME SessionInv, UNCHANGED <<entry, sess, slotVars>>, cancelled => cancelled'
  PROVE  SessionAccount' /\ Mapped' = Mapped /\ Live' = Live /\ Running' = Running
<1>1. Mapped' = Mapped /\ Live' = Live /\ Running' = Running
  BY Zenon DEF Mapped, Live, Running
<1>2. SessionType' /\ ArcsOwned' /\ EntriesOwned' /\ SlotsConserved'
  BY <1>1, Zenon DEF SessionInv, SessionType, TypeOK, ArcsOwned, ArcCount, EntriesOwned, SlotsConserved, slotVars
<1>3. TasksTold'
  BY <1>1, Zenon DEF SessionInv, TasksTold, TokenCancelled
<1>. QED
  BY <1>1, <1>2, <1>3, Zenon DEF SessionAccount

\* The part of TypeOK that the other steps change.
ControlType ==
  /\ phase \in Phases /\ refresher \in Refresher
  /\ cancelled \in BOOLEAN /\ foreign \in BOOLEAN /\ listening \in BOOLEAN
  /\ unseen \in BOOLEAN /\ expired \in BOOLEAN
  /\ timeout \in Timeouts
  /\ published \in Answers \cup {NoAnswer}
  /\ opening \in [client : Client, remote : Addr] \cup {NoOpening}

\* The two parts make the invariant.
LEMMA InvParts ==
  /\ ControlType /\ SessionAccount /\ PhaseInv => UdpInv
  /\ (ControlType /\ SessionAccount /\ PhaseInv => UdpInv)'
BY Zenon DEF UdpInv, SessionInv, TypeOK, ControlType, SessionAccount, SessionType

\* And the invariant splits into them.
LEMMA InvSplits == UdpInv => ControlType /\ SessionAccount /\ PhaseInv /\ SessionInv
BY Zenon DEF UdpInv, SessionInv, TypeOK, ControlType, SessionAccount, SessionType

\* A step that leaves the run, the refresher and open_session where they stand.
LEMMA ControlKept ==
  ASSUME ControlType, UNCHANGED <<runVars, envVars, dnsVars, opening>>
  PROVE  ControlType'
BY Zenon DEF ControlType, runVars, envVars, dnsVars

\* Closing sessions and ending tasks keeps what is known of the phase.
LEMMA PhaseKept ==
  ASSUME PhaseInv, UNCHANGED <<runVars, dnsVars, opening>>, cancelled => cancelled',
         Mapped' \subseteq Mapped, Live' \subseteq Live, Running' \subseteq Running,
         \A t \in Mapped' : sess'[t].remote = sess[t].remote,
         opening # NoOpening => entry'[opening.client] = NoSession
  PROVE  PhaseInv'
<1>1. opening # NoOpening =>
        /\ phase = "run" /\ entry'[opening.client] = NoSession
        /\ ~unseen => opening.remote \in published.set
  BY Zenon DEF PhaseInv
<1>2. phase \in {"bind", "backoff"} => Live' = {} /\ refresher \in {"literal", "unborn"}
  BY Zenon DEF PhaseInv
<1>3. phase \in {"wait", "done"} => cancelled' /\ Mapped' = {}
  BY Zenon DEF PhaseInv
<1>4. ~unseen => \A t \in Mapped' : sess'[t].remote \in published.set
  BY Zenon DEF PhaseInv
<1>5. phase = "done" /\ ~expired => Live' = {} /\ ~TasksRunning'
  BY Zenon DEF PhaseInv, TasksRunning, dnsVars
<1>. QED
  BY <1>1, <1>2, <1>3, <1>4, <1>5, Zenon DEF PhaseInv, runVars, dnsVars

\* Nor does a step elsewhere.
LEMMA PhaseUntouched ==
  ASSUME PhaseInv, UNCHANGED <<runVars, dnsVars, opening, entry, sess>>, cancelled => cancelled',
         Mapped' = Mapped, Live' = Live, Running' = Running
  PROVE  PhaseInv'
<1>1. opening # NoOpening => entry'[opening.client] = NoSession
  BY Zenon DEF PhaseInv
<1>. QED
  BY <1>1, PhaseKept, Zenon

\* A published answer has an address that new sessions use.
LEMMA FirstPublished ==
  ASSUME published \in Answers \cup {NoAnswer}, published # NoAnswer
  PROVE  published.first \in Addr /\ published.first \in published.set
BY Zenon DEF Answers

\* The invariant holds when run_udp_forwarder is called.
LEMMA InvInit == Init => UdpInv
<1>. SUFFICES ASSUME Init PROVE UdpInv
  BY Zenon
<1>1. Mapped = {} /\ Live = {} /\ Running = {}
  BY UdpAssumption DEF Init, Mapped, Live, Running, Freed
<1>2. ControlType
  <2>1. ASSUME NEW a \in Addr PROVE [first |-> a, set |-> {a}] \in Answers
    BY Zenon DEF Answers
  <2>. QED
    BY <2>1, Zenon DEF Init, ControlType, Phases, Refresher
<1>3. SessionType
  BY FreedType, UdpAssumption, Zenon DEF Init, SessionType
<1>4. SlotsConserved
  BY <1>1, FS_EmptySet, UdpAssumption DEF Init, SlotsConserved
<1>5. ArcsOwned /\ EntriesOwned
  BY <1>1, FreedType DEF Init, ArcsOwned, ArcCount, EntriesOwned
<1>6. TasksTold
  BY <1>1, FreedType, Zenon DEF Init, TasksTold
<1>7. PhaseInv
  BY <1>1, Zenon DEF Init, PhaseInv
<1>. QED
  BY <1>2, <1>3, <1>4, <1>5, <1>6, <1>7, InvParts, Zenon DEF SessionAccount

\* As the abstract pool of slots sees it, a step that opens no session.
GivesBack == Live' \subseteq Live /\ others' = others

\* The bind loop.
LEMMA BindLoopStep ==
  ASSUME UdpInv, BindLoop
  PROVE  UdpInv' /\ GivesBack
<1>0. ControlType /\ SessionInv /\ PhaseInv
  BY InvSplits, Zenon
<1>1. /\ UNCHANGED <<envVars, entry, sess, slotVars, opening, published, unseen, expired>>
      /\ phase \in {"bind", "backoff"}
  BY Zenon DEF BindLoop, Bound, BindFailed, BindRetry, StopUnbound, dnsVars
<1>2. SessionAccount' /\ Mapped' = Mapped /\ Live' = Live /\ Running' = Running
  BY <1>0, <1>1, SessionsUntouched, Zenon DEF envVars
<1>3. /\ phase' \in {"run", "bind", "backoff"} \/ (phase' = "done" /\ cancelled)
      /\ phase' # "run" => refresher' = refresher
      /\ refresher' = refresher \/ refresher' = "resolve"
  <2>1. CASE Bound
    BY <2>1, Zenon DEF Bound
  <2>2. CASE BindFailed \/ BindRetry
    BY <2>2, Zenon DEF BindFailed, BindRetry, dnsVars
  <2>3. CASE StopUnbound
    BY <2>3, Zenon DEF StopUnbound, dnsVars
  <2>. QED
    BY <2>1, <2>2, <2>3, Zenon DEF BindLoop
<1>7. listening' \in BOOLEAN
  BY <1>0, Zenon DEF ControlType, BindLoop, Bound, BindFailed, BindRetry, StopUnbound
<1>4. ControlType'
  BY <1>0, <1>1, <1>3, <1>7, Zenon DEF ControlType, envVars, Phases, Refresher
<1>5. Mapped = {} /\ Live = {} /\ Running = {} /\ opening = NoOpening
      /\ refresher \in {"literal", "unborn"}
  <2>1. Live = {} /\ opening = NoOpening /\ refresher \in {"literal", "unborn"}
    BY <1>0, <1>1, Zenon DEF PhaseInv
  <2>2. \A s \in Sess : sess[s].refs = 0
    BY <1>0, <2>1 DEF Live, SessionInv, TypeOK, Session
  <2>. QED
    BY <1>0, <2>1, <2>2 DEF SessionInv, ArcsOwned, ArcCount, Mapped, Running
<1>6. PhaseInv'
  BY <1>1, <1>2, <1>3, <1>5, Zenon DEF PhaseInv, TasksRunning, envVars
<1>. QED
  BY <1>1, <1>2, <1>4, <1>6, InvParts, Zenon DEF GivesBack, slotVars

\* The pause after a listener error.
LEMMA PauseStep ==
  ASSUME UdpInv, RecvFailed \/ Resume
  PROVE  UdpInv' /\ GivesBack
<1>0. ControlType /\ SessionInv /\ PhaseInv
  BY InvSplits, Zenon
<1>1. /\ UNCHANGED <<listening, expired, envVars, dnsVars, entry, opening, sess, slotVars>>
      /\ phase \in {"run", "pause"} /\ phase' \in {"run", "pause"} /\ opening = NoOpening
  BY <1>0, Zenon DEF RecvFailed, Resume, EngineIdle, PhaseInv
<1>2. SessionAccount' /\ Mapped' = Mapped /\ Live' = Live /\ Running' = Running
  BY <1>0, <1>1, SessionsUntouched, Zenon DEF envVars
<1>3. ControlType'
  BY <1>0, <1>1, Zenon DEF ControlType, envVars, dnsVars, Phases
<1>4. PhaseInv'
  BY <1>0, <1>1, <1>2, Zenon DEF PhaseInv, dnsVars
<1>. QED
  BY <1>1, <1>2, <1>3, <1>4, InvParts, Zenon DEF GivesBack, slotVars

\* run_udp_forwarder returns, its tasks stopped or its grace over.
LEMMA ReturnStep ==
  ASSUME UdpInv, TasksStopped \/ StopGraceExpires
  PROVE  UdpInv' /\ GivesBack
<1>0. ControlType /\ SessionInv /\ PhaseInv
  BY InvSplits, Zenon
<1>1. /\ UNCHANGED <<envVars, dnsVars, entry, opening, sess, slotVars>>
      /\ phase = "wait" /\ phase' = "done"
      /\ ~expired' => ~TasksRunning
      /\ listening' \in BOOLEAN /\ expired' \in BOOLEAN
  BY <1>0, Zenon DEF TasksStopped, StopGraceExpires, ControlType
<1>2. SessionAccount' /\ Mapped' = Mapped /\ Live' = Live /\ Running' = Running
  BY <1>0, <1>1, SessionsUntouched, Zenon DEF envVars
<1>3. ControlType'
  BY <1>0, <1>1, Zenon DEF ControlType, envVars, dnsVars, Phases
<1>4. Mapped = {} /\ cancelled /\ opening = NoOpening
  BY <1>0, <1>1, Zenon DEF PhaseInv
<1>5. ~TasksRunning => Live = {} /\ ~TasksRunning'
  <2>1. TasksRunning' = TasksRunning
    BY <1>1, <1>2, Zenon DEF TasksRunning, dnsVars
  <2>2. ~TasksRunning => \A s \in Sess : sess[s].refs = 0
    BY <1>0, <1>4 DEF TasksRunning, SessionInv, ArcsOwned, ArcCount
  <2>. QED
    BY <2>1, <2>2 DEF Live
<1>6. PhaseInv'
  BY <1>1, <1>2, <1>4, <1>5, Zenon DEF PhaseInv, envVars
<1>. QED
  BY <1>1, <1>2, <1>3, <1>6, InvParts, Zenon DEF GivesBack, slotVars

\* The first half of open_session, after it closed a dead entry.
LEMMA BeginOpenStep ==
  ASSUME UdpInv, NEW c \in Client, BeginOpen(c)
  PROVE  UdpInv' /\ GivesBack
<1>0. ControlType /\ SessionInv /\ PhaseInv
  BY InvSplits, Zenon
<1>. DEFINE S == {entry[c]} \cap Sess
<1>1. CloseEntries(S) /\ S \in SUBSET Mapped /\ UNCHANGED <<runVars, envVars, dnsVars>>
      /\ phase = "run"
  BY Zenon DEF BeginOpen, EngineIdle, Mapped
<1>2. /\ SessionAccount' /\ Mapped' = Mapped \ S /\ Live' \subseteq Live
      /\ \A s \in Sess \ S : sess'[s] = sess[s]
  <2>. HIDE DEF S
  <2>. QED
    BY <1>0, <1>1, EntriesClosed, Zenon DEF SessionAccount, envVars
<1>3. entry'[c] = NoSession
  BY <1>0, <1>1, UdpAssumption, Zenon DEF CloseEntries, SessionInv, TypeOK
<1>. HIDE DEF S
<1>4. \/ opening' = NoOpening
      \/ /\ opening' = [client |-> c, remote |-> published.first]
         /\ published.first \in Addr /\ published.first \in published.set
  BY <1>0, FirstPublished, Zenon DEF BeginOpen, ControlType
<1>5. ControlType'
  <2>1. opening' \in [client : Client, remote : Addr] \cup {NoOpening}
    BY <1>4
  <2>. QED
    BY <1>0, <1>1, <2>1, Zenon DEF ControlType, runVars, envVars, dnsVars
<1>6. PhaseInv'
  <2>1. phase' = "run" /\ unseen' = unseen /\ published' = published
    BY <1>1, Zenon DEF runVars, dnsVars
  <2>2. opening' # NoOpening => entry'[opening'.client] = NoSession
                                /\ opening'.remote \in published.set
    BY <1>3, <1>4
  <2>3. ~unseen => \A s \in Mapped' : sess'[s].remote \in published.set
    BY <1>0, <1>2, Zenon DEF PhaseInv, Mapped
  <2>. QED
    BY <2>1, <2>2, <2>3, Zenon DEF PhaseInv
<1>. QED
  BY <1>1, <1>2, <1>5, <1>6, InvParts, Zenon DEF GivesBack, CloseEntries, ReleaseSlots

\* The sweep.
LEMMA SweepStep ==
  ASSUME UdpInv, Sweep
  PROVE  UdpInv' /\ GivesBack
<1>0. ControlType /\ SessionInv /\ PhaseInv
  BY InvSplits, Zenon
<1>. DEFINE S == {s \in Mapped : sess[s].dead \/ sess[s].idle >= timeout}
<1>1. /\ CloseEntries(S) /\ S \in SUBSET Mapped /\ UNCHANGED <<runVars, envVars, dnsVars, opening>>
      /\ phase = "run" /\ opening = NoOpening
  BY Zenon DEF Sweep, EngineIdle
<1>. HIDE DEF S
<1>2. /\ SessionAccount' /\ Mapped' = Mapped \ S /\ Live' \subseteq Live
      /\ \A s \in Sess \ S : sess'[s] = sess[s]
  BY <1>0, <1>1, EntriesClosed, Zenon DEF SessionAccount, envVars
<1>3. ControlType'
  BY <1>0, <1>1, ControlKept, Zenon
<1>4. PhaseInv'
  <2>1. \A s \in Mapped' : s \in Mapped /\ sess'[s].remote = sess[s].remote
    BY <1>2, Zenon DEF Mapped
  <2>. QED
    BY <1>0, <1>1, <2>1, Zenon DEF PhaseInv, runVars, dnsVars
<1>. QED
  BY <1>1, <1>2, <1>3, <1>4, InvParts, Zenon DEF GivesBack, CloseEntries, ReleaseSlots

\* on_targets_changed.
LEMMA TargetsStep ==
  ASSUME UdpInv, OnTargetsChanged
  PROVE  UdpInv' /\ GivesBack
<1>0. ControlType /\ SessionInv /\ PhaseInv
  BY InvSplits, Zenon
<1>. DEFINE S == {s \in Mapped : sess[s].remote \notin published.set}
<1>1. /\ CloseEntries(S) /\ S \in SUBSET Mapped
      /\ UNCHANGED <<runVars, envVars, refresher, published, opening>> /\ unseen' = FALSE
      /\ phase = "run" /\ opening = NoOpening
  BY Zenon DEF OnTargetsChanged, EngineIdle
<1>2. /\ SessionAccount' /\ Mapped' = Mapped \ S /\ Live' \subseteq Live
      /\ \A s \in Sess \ S : sess'[s] = sess[s]
  <2>. HIDE DEF S
  <2>. QED
    BY <1>0, <1>1, EntriesClosed, Zenon DEF SessionAccount, envVars
<1>3. \A s \in Mapped' : sess'[s].remote \in published.set
  BY <1>2, Zenon DEF Mapped
<1>. HIDE DEF S
<1>4. ControlType'
  BY <1>0, <1>1, Zenon DEF ControlType, runVars, envVars
<1>5. PhaseInv'
  BY <1>1, <1>3, Zenon DEF PhaseInv, runVars
<1>. QED
  BY <1>1, <1>2, <1>4, <1>5, InvParts, Zenon DEF GivesBack, CloseEntries, ReleaseSlots

\* The engine returns and close_all runs.
LEMMA EngineStopStep ==
  ASSUME UdpInv, EngineStop
  PROVE  UdpInv' /\ GivesBack
<1>0. ControlType /\ SessionInv /\ PhaseInv
  BY InvSplits, Zenon
<1>1. /\ CloseEntries(Mapped) /\ phase' = "wait" /\ cancelled
      /\ UNCHANGED <<listening, expired, envVars, dnsVars, opening>>
  BY Zenon DEF EngineStop
<1>2. SessionAccount' /\ Mapped' = {} /\ Live' \subseteq Live
  BY <1>0, <1>1, EntriesClosed, Zenon DEF SessionAccount, envVars
<1>3. ControlType'
  BY <1>0, <1>1, Zenon DEF ControlType, envVars, dnsVars, Phases
<1>4. opening = NoOpening
  BY <1>0, Zenon DEF EngineStop, EngineIdle, PhaseInv
<1>5. PhaseInv'
  BY <1>1, <1>2, <1>4, Zenon DEF PhaseInv, envVars
<1>. QED
  BY <1>1, <1>2, <1>3, <1>5, InvParts, Zenon DEF GivesBack, CloseEntries, ReleaseSlots

\* What open_session ends in.
LEMMA OpeningStep ==
  ASSUME UdpInv, OpenRejected \/ ConnectFails \/ OpenSession
  PROVE  UdpInv' /\ (GivesBack \/ \E s \in Sess : Pool!Take(s))
<1>. ControlType /\ SessionInv /\ PhaseInv /\ UdpInv
  BY InvSplits, Zenon
<1>0. phase = "run" /\ opening # NoOpening /\ UNCHANGED <<runVars, envVars, dnsVars>> /\ opening' = NoOpening
  BY Zenon DEF OpenRejected, ConnectFails, OpenSession
<1>1. ControlType'
  BY <1>0, Zenon DEF ControlType, runVars, envVars, dnsVars
<1>2. CASE OpenSession
  <2>1. PICK s \in Sess \ Live :
          /\ Mapped' = Mapped \cup {s} /\ s \notin Mapped /\ Live' = Live \cup {s}
          /\ sess'[s].remote = opening.remote
          /\ \A t \in Sess \ {s} : sess'[t] = sess[t]
    BY <1>2, SessionOpened, Zenon
  <2>2. PhaseInv'
    BY <1>0, <2>1, Zenon DEF PhaseInv, runVars, envVars, dnsVars, Mapped
  <2>3. Pool!Cardinality(Live) = Cardinality(Live)
    BY Zenon DEF Pool!Cardinality, Cardinality
  <2>4. Pool!Take(s)
    <3>1. Cardinality(Live) + others < MaxSessions
      <4>1. permits > 0 /\ permits \in Nat /\ others \in Nat
            /\ permits + others + Cardinality(Live) = MaxSessions
        BY <1>2, Zenon DEF OpenSession, SessionInv, SlotsConserved, TypeOK
      <4>. QED
        BY <4>1, LiveFinite, UdpAssumption
    <3>2. others' = others
      BY <1>2, Zenon DEF OpenSession
    <3>. QED
      BY <2>1, <2>3, <3>1, <3>2, Zenon DEF Pool!Take
  <2>. QED
    BY <1>1, <1>2, <2>2, <2>4, SessionOpened, InvParts, Zenon DEF SessionAccount
<1>3. CASE OpenRejected \/ ConnectFails
  <2>1. UNCHANGED <<entry, sess, slotVars>> /\ cancelled' = cancelled
    BY <1>3, Zenon DEF OpenRejected, ConnectFails, envVars
  <2>2. SessionAccount' /\ Mapped' = Mapped /\ Live' = Live
    BY <2>1, SessionsUntouched, Zenon
  <2>3. PhaseInv'
    BY <1>0, <2>1, <2>2, Zenon DEF PhaseInv, runVars, envVars, dnsVars
  <2>. QED
    BY <1>1, <2>1, <2>2, <2>3, InvParts, Zenon DEF GivesBack, slotVars
<1>. QED
  BY <1>2, <1>3, Zenon

\* Steps after which every session continues.
LEMMA ContinuingStep ==
  ASSUME UdpInv, UNCHANGED <<runVars, envVars, dnsVars, entry, opening, slotVars>>,
         sess' \in [Sess -> Session], \A s \in Sess : Continues(sess'[s], sess[s])
  PROVE  UdpInv' /\ GivesBack
<1>0. ControlType /\ SessionInv /\ PhaseInv
  BY InvSplits, Zenon
<1>1. /\ SessionAccount' /\ Mapped' = Mapped /\ Live' = Live /\ Running' = Running
      /\ \A t \in Sess : sess'[t].remote = sess[t].remote
  BY <1>0, SessionsContinue, Zenon DEF SessionAccount, envVars
<1>2. ControlType'
  BY <1>0, ControlKept, Zenon
<1>3. PhaseInv'
  <2>1. opening # NoOpening => entry'[opening.client] = NoSession
    BY <1>0, Zenon DEF PhaseInv
  <2>2. \A t \in Mapped' : sess'[t].remote = sess[t].remote
    BY <1>1, Zenon DEF Mapped
  <2>3. cancelled' = cancelled
    BY Zenon DEF envVars
  <2>. QED
    BY <1>0, <1>1, <2>1, <2>2, <2>3, PhaseKept, Zenon
<1>. QED
  BY <1>1, <1>2, <1>3, InvParts, Zenon DEF GivesBack, slotVars

\* A session's record after a step of its task or of forward_upstream.
LEMMA RecordSteps ==
  ASSUME NEW r \in Session, r.task = "dying" => r.dead
  PROVE  /\ [r EXCEPT !.idle = 0] \in Session /\ Continues([r EXCEPT !.idle = 0], r)
         /\ [r EXCEPT !.replied = TRUE] \in Session /\ Continues([r EXCEPT !.replied = TRUE], r)
         /\ r.task # "gone" =>
              /\ \A task \in {"wait", "drain"} :
                   [r EXCEPT !.task = task] \in Session /\ Continues([r EXCEPT !.task = task], r)
              /\ [r EXCEPT !.task = "dying", !.dead = TRUE] \in Session
              /\ Continues([r EXCEPT !.task = "dying", !.dead = TRUE], r)
<1>1. [r EXCEPT !.idle = 0] \in Session /\ Continues([r EXCEPT !.idle = 0], r)
  BY UdpAssumption DEF Session, Continues
<1>2. [r EXCEPT !.replied = TRUE] \in Session /\ Continues([r EXCEPT !.replied = TRUE], r)
  BY Zenon DEF Session, Continues
<1>3. ASSUME r.task # "gone", NEW task \in {"wait", "drain"}
      PROVE  [r EXCEPT !.task = task] \in Session /\ Continues([r EXCEPT !.task = task], r)
  BY <1>3, Zenon DEF Session, Continues, TaskStates
<1>4. ASSUME r.task # "gone"
      PROVE  /\ [r EXCEPT !.task = "dying", !.dead = TRUE] \in Session
             /\ Continues([r EXCEPT !.task = "dying", !.dead = TRUE], r)
  BY <1>4, Zenon DEF Session, Continues, TaskStates
<1>. QED
  BY <1>1, <1>2, <1>3, <1>4, Zenon

\* A session's record after drain_upstream.
LEMMA DrainedRecord ==
  ASSUME NEW r \in Session, NEW task \in {"wait", "blocked", "dying"}, r.task = "drain",
         task = "dying" => r.dead
  PROVE  Drained(r, task) \in Session /\ Continues(Drained(r, task), r)
<1>. DEFINE idle == IF r.replied /\ r.began < r.idle THEN r.began ELSE r.idle
<1>1. idle \in 0..MaxAge
  BY Zenon DEF Session
<1>2. Drained(r, task) = [r EXCEPT !.task = task, !.began = 0, !.replied = FALSE, !.idle = idle]
  BY Zenon DEF Drained, Session
<1>. HIDE DEF idle
<1>3. 0 \in 0..MaxAge /\ task \in TaskStates /\ task # "gone"
  BY UdpAssumption DEF TaskStates
<1>. QED
  BY <1>1, <1>2, <1>3, Zenon DEF Session, Continues

\* Time passes for a session.
LEMMA AgedRecord ==
  ASSUME NEW r \in Session, r.task = "dying" => r.dead
  PROVE  LET q == [r EXCEPT !.idle = Older(@), !.began = IF r.task = "drain" THEN Older(@) ELSE @]
         IN  q \in Session /\ Continues(q, r)
<1>1. \A n \in 0..MaxAge : Older(n) \in 0..MaxAge
  BY UdpAssumption DEF Older
<1>. QED
  BY <1>1, Zenon DEF Session, Continues

\* One session moves on, by its task or by a forwarded datagram.
LEMMA OneContinues ==
  ASSUME UdpInv, NEW s \in Sess, NEW q \in Session, Continues(q, sess[s]),
         sess' = [sess EXCEPT ![s] = q],
         UNCHANGED <<runVars, envVars, dnsVars, entry, opening, slotVars>>
  PROVE  UdpInv' /\ GivesBack
<1>1. sess' \in [Sess -> Session]
  BY Zenon DEF UdpInv, SessionInv, TypeOK
<1>2. ASSUME NEW t \in Sess PROVE Continues(sess'[t], sess[t])
  <2>1. CASE t = s
    BY <2>1, Zenon DEF UdpInv, SessionInv, TypeOK
  <2>2. CASE t # s
    <3>1. sess'[t] = sess[t]
      BY <2>2, Zenon DEF UdpInv, SessionInv, TypeOK
    <3>. QED
      BY <3>1, Zenon DEF Continues, UdpInv, SessionInv, TasksTold
  <2>. QED
    BY <2>1, <2>2, Zenon
<1>. QED
  BY <1>1, <1>2, ContinuingStep, Zenon

\* forward_upstream.
LEMMA ForwardStep ==
  ASSUME UdpInv, NEW c \in Client, ForwardDatagram(c)
  PROVE  UdpInv' /\ GivesBack
<1>. DEFINE s == entry[c]
            q == [sess[s] EXCEPT !.idle = 0]
<1>1. s \in Sess
  BY Zenon DEF ForwardDatagram, UdpInv, SessionInv, TypeOK
<1>2. sess[s] \in Session /\ (sess[s].task = "dying" => sess[s].dead)
  BY <1>1, Zenon DEF UdpInv, SessionInv, TypeOK, TasksTold
<1>3. q \in Session /\ Continues(q, sess[s])
  BY <1>2, RecordSteps, Zenon
<1>4. sess' = [sess EXCEPT ![s] = q]
  BY Zenon DEF ForwardDatagram
<1>5. UNCHANGED <<runVars, envVars, dnsVars, entry, opening, slotVars>>
  BY Zenon DEF ForwardDatagram
<1>. HIDE DEF s, q
<1>. QED
  BY <1>1, <1>3, <1>4, <1>5, OneContinues, Zenon

\* The task of a session.
LEMMA TaskStep ==
  ASSUME UdpInv, NEW s \in Sess, SessionTask(s)
  PROVE  UdpInv' /\ GivesBack
<1>. DEFINE r == sess[s]
<1>0. r \in Session /\ (r.task = "dying" => r.dead)
  BY Zenon DEF UdpInv, SessionInv, TypeOK, TasksTold
<1>10. ControlType /\ SessionInv /\ PhaseInv
  BY InvSplits, Zenon
<1>1. CASE SessionCancelled(s) \/ SessionDies(s)
  <2>1. TaskReturns(s) /\ r.task # "gone" /\ (TokenCancelled(s) \/ r.task = "dying")
    BY <1>1, Zenon DEF SessionCancelled, SessionDies
  <2>2. /\ SessionAccount' /\ Live' \subseteq Live /\ Running' \subseteq Running
        /\ \A t \in Mapped : sess'[t].remote = sess[t].remote
    BY <1>10, <2>1, TaskReturned, Zenon DEF SessionAccount
  <2>3. UNCHANGED <<runVars, envVars, dnsVars, entry, opening>> /\ Mapped' = Mapped
    BY <2>1, Zenon DEF TaskReturns, Mapped
  <2>4. ControlType'
    BY <1>10, <2>3, ControlKept, Zenon
  <2>5. PhaseInv'
    <3>1. opening # NoOpening => entry'[opening.client] = NoSession
      BY <1>10, <2>3, Zenon DEF PhaseInv
    <3>2. cancelled' = cancelled
      BY <2>3, Zenon DEF envVars
    <3>. QED
      BY <1>10, <2>2, <2>3, <3>1, <3>2, PhaseKept, Zenon
  <2>. QED
    BY <2>1, <2>2, <2>4, <2>5, InvParts, Zenon DEF GivesBack, TaskReturns, ReleaseSlots
<1>2. CASE \E q \in Session : Continues(q, r) /\ SetSession(s, q)
  BY <1>2, OneContinues, Zenon DEF SetSession
<1>3. CASE SessionReady(s) \/ PendingSent(s) \/ ReadinessFails(s) \/ RelayReply(s)
  BY <1>0, <1>2, <1>3, RecordSteps, Zenon DEF SessionReady, PendingSent, ReadinessFails, RelayReply
<1>4. CASE DrainEnds(s)
  BY <1>0, <1>2, <1>4, DrainedRecord, Zenon DEF DrainEnds
<1>5. CASE ReplyBlocks(s)
  <2>. DEFINE p == [r EXCEPT !.replied = TRUE]
  <2>1. /\ p \in Session /\ Continues(p, r)
        /\ SetSession(s, Drained(p, "blocked")) /\ r.task = "drain"
    BY <1>0, <1>5, RecordSteps, Zenon DEF ReplyBlocks
  <2>3. p.task = "drain"
    BY <1>0, <2>1, Zenon DEF Session
  <2>. HIDE DEF p
  <2>2. Drained(p, "blocked") \in Session /\ Continues(Drained(p, "blocked"), p)
    BY <2>1, <2>3, DrainedRecord, Zenon
  <2>4. Continues(Drained(p, "blocked"), r)
    BY <2>1, <2>2, Zenon DEF Continues
  <2>. QED
    BY <1>2, <2>1, <2>2, <2>4, Zenon
<1>6. CASE ReceiveFatal(s)
  <2>. DEFINE p == [r EXCEPT !.dead = TRUE]
  <2>1. /\ p \in Session /\ Continues(p, r) /\ p.task = "drain" /\ p.dead
        /\ SetSession(s, Drained(p, "dying"))
    BY <1>0, <1>6, Zenon DEF ReceiveFatal, Session, Continues
  <2>. HIDE DEF p
  <2>2. Drained(p, "dying") \in Session /\ Continues(Drained(p, "dying"), p)
    BY <2>1, DrainedRecord, Zenon
  <2>3. Continues(Drained(p, "dying"), r)
    BY <2>1, <2>2, Zenon DEF Continues
  <2>. QED
    BY <1>2, <2>1, <2>2, <2>3, Zenon
<1>. QED
  BY <1>1, <1>3, <1>4, <1>5, <1>6, Zenon DEF SessionTask

\* The refresher.
LEMMA RefresherStep ==
  ASSUME UdpInv, DnsRefresher
  PROVE  UdpInv' /\ GivesBack
<1>0. ControlType /\ SessionInv /\ PhaseInv
  BY InvSplits, Zenon
<1>1. /\ UNCHANGED <<runVars, envVars, entry, opening, sess, slotVars>>
      /\ refresher \in {"resolve", "sleep"} /\ refresher' \in {"resolve", "sleep", "gone"}
      /\ refresher' = "gone" \/ ~cancelled
      /\ \/ UNCHANGED <<published, unseen>>
         \/ published' \in Answers /\ unseen' = TRUE
  BY Zenon DEF DnsRefresher, Resolved, ResolveFails, RefresherWakes, RefresherStops
<1>2. SessionAccount' /\ Mapped' = Mapped /\ Live' = Live /\ Running' = Running
  BY <1>0, <1>1, SessionsUntouched, Zenon DEF envVars
<1>3. ControlType'
  BY <1>0, <1>1, Zenon DEF ControlType, runVars, envVars, Refresher
<1>4. PhaseInv'
  <2>1. phase \notin {"bind", "backoff"}
    BY <1>0, <1>1, Zenon DEF PhaseInv
  <2>2. phase = "done" /\ ~expired => Live' = {} /\ ~TasksRunning'
    BY <1>0, <1>1, <1>2, Zenon DEF PhaseInv, TasksRunning
  <2>3. ~unseen' => ~unseen /\ published' = published
    BY <1>1, Zenon
  <2>. QED
    BY <1>0, <1>1, <1>2, <2>1, <2>2, <2>3, Zenon DEF PhaseInv, runVars, envVars
<1>. QED
  BY <1>1, <1>2, <1>3, <1>4, InvParts, Zenon DEF GivesBack, slotVars

\* Time, the manager, a reload, the port and the other forwarders.
LEMMA EnvironmentStep ==
  ASSUME UdpInv, Environment
  PROVE  UdpInv' /\ (GivesBack \/ Pool!OthersTake \/ Pool!OthersGiveBack)
<1>0. ControlType /\ SessionInv /\ PhaseInv
  BY InvSplits, Zenon
<1>1. CASE Tick
  <2>1. ASSUME NEW s \in Sess PROVE sess'[s] \in Session /\ Continues(sess'[s], sess[s])
    <3>1. sess[s] \in Session /\ (sess[s].task = "dying" => sess[s].dead)
      BY <1>0, Zenon DEF SessionInv, TypeOK, TasksTold
    <3>2. CASE s \in Live
      <4>1. sess'[s] = [sess[s] EXCEPT !.idle = Older(@),
                          !.began = IF sess[s].task = "drain" THEN Older(@) ELSE @]
        BY <1>1, <3>2, Zenon DEF Tick
      <4>. QED
        BY <3>1, <4>1, AgedRecord, Zenon
    <3>3. CASE s \notin Live
      <4>1. sess'[s] = sess[s]
        BY <1>1, <3>3, Zenon DEF Tick
      <4>. QED
        BY <3>1, <4>1, Zenon DEF Continues
    <3>. QED
      BY <3>2, <3>3, Zenon
  <2>2. sess' = [s \in Sess |-> sess'[s]]
    BY <1>1, Zenon DEF Tick
  <2>3. sess' \in [Sess -> Session]
    BY <2>1, <2>2, Zenon
  <2>4. UNCHANGED <<runVars, envVars, dnsVars, entry, opening, slotVars>>
    BY <1>1, Zenon DEF Tick
  <2>. QED
    BY <2>1, <2>3, <2>4, ContinuingStep, Zenon
<1>2. CASE Cancel \/ PortChangesHands \/ \E t \in Timeouts : ReloadTimeout(t)
  <2>1. UNCHANGED <<runVars, dnsVars, entry, opening, sess, slotVars>> /\ (cancelled => cancelled')
    BY <1>2 DEF Cancel, PortChangesHands, ReloadTimeout
  <2>2. SessionAccount' /\ Mapped' = Mapped /\ Live' = Live /\ Running' = Running
    BY <1>0, <2>1, SessionsUntouched, Zenon
  <2>5. cancelled' \in BOOLEAN /\ foreign' \in BOOLEAN /\ timeout' \in Timeouts
    BY <1>0, <1>2, Zenon DEF ControlType, Cancel, PortChangesHands, ReloadTimeout
  <2>3. ControlType'
    BY <1>0, <2>1, <2>5, Zenon DEF ControlType, runVars, dnsVars
  <2>4. PhaseInv'
    BY <1>0, <2>1, <2>2, PhaseUntouched, Zenon
  <2>. QED
    BY <2>1, <2>2, <2>3, <2>4, InvParts, Zenon DEF GivesBack, slotVars
<1>3. CASE OthersOpen \/ OthersClose
  <2>1. UNCHANGED <<runVars, envVars, dnsVars, entry, opening, sess, active>>
    BY <1>3, Zenon DEF OthersOpen, OthersClose
  <2>2. Mapped' = Mapped /\ Live' = Live /\ Running' = Running
    BY <2>1, Zenon DEF Mapped, Live, Running
  <2>3. /\ permits' \in Nat /\ others' \in Nat /\ permits' + others' = permits + others
        /\ permits \in Nat /\ others \in Nat
    BY <1>0, <1>3 DEF OthersOpen, OthersClose, SessionInv, TypeOK
  <2>4. SlotsConserved'
    <3>1. permits + others + Cardinality(Live) = MaxSessions /\ active = Cardinality(Live)
      BY <1>0, Zenon DEF SessionInv, SlotsConserved
    <3>2. permits' + others' + Cardinality(Live) = MaxSessions /\ active' = Cardinality(Live)
      BY <2>1, <2>3, <3>1, LiveFinite, Zenon
    <3>. QED
      BY <2>2, <3>2, Zenon DEF SlotsConserved
  <2>5. SessionAccount'
    <3>1. SessionType'
      BY <1>0, <2>1, <2>3, Zenon DEF SessionType, SessionInv, TypeOK
    <3>2. ArcsOwned' /\ EntriesOwned'
      BY <1>0, <2>1, <2>2, Zenon DEF SessionInv, ArcsOwned, ArcCount, EntriesOwned
    <3>4. cancelled' = cancelled /\ sess' = sess
      BY <2>1, Zenon DEF envVars
    <3>3. TasksTold'
      BY <1>0, <2>2, <3>4, Zenon DEF SessionInv, TasksTold, TokenCancelled
    <3>. QED
      BY <2>4, <3>1, <3>2, <3>3, Zenon DEF SessionAccount
  <2>6. ControlType' /\ PhaseInv'
    BY <1>0, <2>1, <2>2, ControlKept, PhaseUntouched, Zenon DEF envVars
  <2>7. Pool!OthersTake \/ Pool!OthersGiveBack
    <3>1. Pool!Cardinality(Live) = Cardinality(Live)
      BY Zenon DEF Pool!Cardinality, Cardinality
    <3>. QED
      BY <1>0, <1>3, <2>2, <3>1, LiveFinite
      DEF OthersOpen, OthersClose, Pool!OthersTake, Pool!OthersGiveBack, SessionInv, TypeOK, SlotsConserved
  <2>. QED
    BY <2>5, <2>6, <2>7, InvParts, Zenon
<1>. QED
  BY <1>1, <1>2, <1>3, Zenon DEF Environment

\* Every step keeps the invariant and is a step of the abstract pool.
LEMMA InvStep ==
  ASSUME UdpInv, [Next]_vars
  PROVE  UdpInv' /\ [Pool!Next]_<<Live, others>>
<1>0. GivesBack => [Pool!Next]_<<Live, others>>
  BY Zenon DEF GivesBack, Pool!Next, Pool!GiveBack
<1>1. CASE BindLoop \/ RecvFailed \/ Resume \/ TasksStopped \/ StopGraceExpires
  BY <1>0, <1>1, BindLoopStep, PauseStep, ReturnStep, Zenon
<1>2. CASE (\E c \in Client : BeginOpen(c)) \/ Sweep \/ OnTargetsChanged \/ EngineStop
  BY <1>0, <1>2, BeginOpenStep, SweepStep, TargetsStep, EngineStopStep, Zenon
<1>3. CASE OpenRejected \/ ConnectFails \/ OpenSession
  BY <1>0, <1>3, OpeningStep, Zenon DEF Pool!Next
<1>4. CASE \E c \in Client : ForwardDatagram(c)
  BY <1>0, <1>4, ForwardStep, Zenon
<1>5. CASE \E s \in Sess : SessionTask(s)
  BY <1>0, <1>5, TaskStep, Zenon
<1>6. CASE DnsRefresher
  BY <1>0, <1>6, RefresherStep, Zenon
<1>7. CASE Environment
  BY <1>0, <1>7, EnvironmentStep, Zenon DEF Pool!Next
<1>8. CASE UNCHANGED vars
  <2>1. UNCHANGED <<entry, sess, slotVars>> /\ (cancelled => cancelled')
    BY <1>8, Zenon DEF vars, slotVars
  <2>2. SessionAccount' /\ Mapped' = Mapped /\ Live' = Live /\ Running' = Running
    BY <2>1, SessionsUntouched, Zenon DEF UdpInv
  <2>4. UNCHANGED <<runVars, envVars, dnsVars, opening, entry, sess>>
    BY <1>8, Zenon DEF vars, runVars, envVars, dnsVars
  <2>3. ControlType' /\ PhaseInv'
    BY <2>1, <2>2, <2>4, InvSplits, ControlKept, PhaseUntouched, Zenon
  <2>. QED
    BY <1>8, <2>2, <2>3, InvParts, Zenon DEF vars
<1>. QED
  BY <1>1, <1>2, <1>3, <1>4, <1>5, <1>6, <1>7, <1>8, Zenon DEF Next, Engine

-----------------------------------------------------------------------------
(* The theorems. *)

\* The inductive invariant holds throughout every run of a UDP forwarder.
THEOREM UdpInvariance == Spec => []UdpInv
<1>1. UdpInv /\ [Next]_vars => UdpInv'
  BY InvStep, Zenon
<1>. QED
  BY InvInit, <1>1, PTL DEF Spec

\* Every variable keeps its type.
THEOREM TypeCorrect == Spec => []TypeOK
<1>1. UdpInv => TypeOK
  BY Zenon DEF UdpInv, SessionInv
<1>. QED
  BY <1>1, UdpInvariance, PTL

\* No interleaving of the engine, the session tasks, the refresher and the other
\* forwarders leaks or doubles a udp_max_sessions permit, and the gauge counts
\* exactly the sessions that exist.
THEOREM SlotsNeverLeak == Spec => []SlotsConserved
<1>1. UdpInv => SlotsConserved
  BY Zenon DEF UdpInv, SessionInv
<1>. QED
  BY <1>1, UdpInvariance, PTL

\* A client's datagrams are never forwarded into a session that nobody reads
\* replies from or that belongs to another client.
THEOREM NoBlackHole == Spec => []MappedIsServed
<1>1. UdpInv => MappedIsServed
  <2>. SUFFICES ASSUME UdpInv, NEW c \in Client, entry[c] # NoSession
                PROVE  /\ sess[entry[c]].client = c
                       /\ \/ cancelled \/ sess[entry[c]].dead
                          \/ sess[entry[c]].task # "gone" /\ ~sess[entry[c]].closed
    BY Zenon DEF MappedIsServed
  <2>1. entry[c] \in Mapped
    BY DEF Mapped, UdpInv, SessionInv, TypeOK
  <2>. QED
    BY <2>1 DEF UdpInv, SessionInv, EntriesOwned, TasksTold, Mapped
<1>. QED
  BY <1>1, UdpInvariance, PTL

\* A reply task that left the session map has been told to stop.
THEOREM NoOrphanTask == Spec => []UnmappedIsCancelled
<1>1. UdpInv => UnmappedIsCancelled
  BY DEF UdpInv, SessionInv, TasksTold, UnmappedIsCancelled, Running
<1>. QED
  BY <1>1, UdpInvariance, PTL

\* The session map and the reply tasks agree: on_client_datagram feeds only
\* sessions that are served or marked dead, and every path that drops an entry
\* tells its task (close_entry).
THEOREM MapAgrees == Spec => []MapMatchesTasks
<1>1. MappedIsServed /\ UnmappedIsCancelled => MapMatchesTasks
  BY DEF MapMatchesTasks
<1>. QED
  BY <1>1, NoBlackHole, NoOrphanTask, PTL

\* Whatever the order of open_session's read, the refresher's publish and
\* on_targets_changed, no session stays on an address the engine knows to be
\* retired.
THEOREM NoRetiredAddress == Spec => []RetiredAddressClosed
<1>1. UdpInv => RetiredAddressClosed
  BY DEF UdpInv, PhaseInv, RetiredAddressClosed
<1>. QED
  BY <1>1, UdpInvariance, PTL

\* run_udp_forwarder returns within its grace only with everything released.
THEOREM ReturnIsClean == Spec => []ReturnReleasesAll
<1>1. UdpInv => ReturnReleasesAll
  BY FS_EmptySet DEF UdpInv, PhaseInv, SessionInv, SlotsConserved, ReturnReleasesAll
<1>. QED
  BY <1>1, UdpInvariance, PTL

\* The forwarder implements the abstract pool of slots.
THEOREM PoolRefinement == Spec => ImplementsPool
<1>1. Init => Pool!Init
  BY FreedType DEF Init, Pool!Init, Live
<1>2. UdpInv /\ [Next]_vars => [Pool!Next]_<<Live, others>>
  BY InvStep
<1>. QED
  BY <1>1, <1>2, UdpInvariance, PTL DEF Spec, ImplementsPool, Pool!Spec

-----------------------------------------------------------------------------
(* What a step may never do. *)

\* A session is closed only for a cause: the forwarder is stopped, the session is
\* dead or idle for the timeout in force, or its address has left the DNS answer.
\* Until then its client keeps it, on the address it was opened with.
UsableIsKept ==
  [][\A c \in Client : entry[c] # NoSession /\ ~cancelled =>
       LET r == sess[entry[c]] IN
       \/ entry'[c] = entry[c] /\ sess'[entry[c]].remote = r.remote
       \/ /\ entry'[c] = NoSession
          /\ r.dead \/ r.idle >= timeout \/ r.remote \notin published.set]_vars

\* The entry of client c keeps its session, and the session its address.
KeepsSession(c) == entry'[c] = entry[c] /\ sess'[entry[c]].remote = sess[entry[c]].remote

\* close_entry on a set of entries keeps the sessions of the others.
LEMMA OthersKept ==
  ASSUME SessionInv, NEW S \in SUBSET Mapped, CloseEntries(S), NEW c \in Client, entry[c] # NoSession
  PROVE  (entry[c] \in S /\ entry'[c] = NoSession) \/ KeepsSession(c)
<1>1. entry[c] \in Sess /\ entry'[c] = IF entry[c] \in S THEN NoSession ELSE entry[c]
  BY Zenon DEF CloseEntries, SessionInv, TypeOK
<1>2. entry[c] \notin S => sess'[entry[c]] = sess[entry[c]]
  BY <1>1, Zenon DEF CloseEntries
<1>. QED
  BY <1>1, <1>2, Zenon DEF KeepsSession

\* No step of a session's task changes the address of its session.
LEMMA TaskKeepsRemote ==
  ASSUME UdpInv, NEW s \in Sess, SessionTask(s), NEW t \in Mapped
  PROVE  sess'[t].remote = sess[t].remote /\ entry' = entry
<1>0. sess \in [Sess -> Session] /\ SessionInv /\ t \in Sess
  BY InvSplits, Zenon DEF SessionInv, TypeOK, Mapped
<1>1. CASE SessionCancelled(s) \/ SessionDies(s)
  <2>1. TaskReturns(s) /\ sess[s].task # "gone" /\ (TokenCancelled(s) \/ sess[s].task = "dying")
    BY <1>1, Zenon DEF SessionCancelled, SessionDies
  <2>. QED
    BY <1>0, <2>1, TaskReturned, Zenon DEF TaskReturns
<1>2. ASSUME NEW q, q.remote = sess[s].remote, SetSession(s, q)
      PROVE  sess'[t].remote = sess[t].remote /\ entry' = entry
  BY <1>0, <1>2, Zenon DEF SetSession
<1>3. CASE SessionReady(s) \/ PendingSent(s) \/ ReadinessFails(s) \/ RelayReply(s)
  BY <1>0, <1>2, <1>3, Zenon DEF SessionReady, PendingSent, ReadinessFails, RelayReply, Session
<1>4. CASE DrainEnds(s) \/ ReplyBlocks(s) \/ ReceiveFatal(s)
  BY <1>0, <1>2, <1>4, Zenon DEF DrainEnds, ReplyBlocks, ReceiveFatal, Drained, Session
<1>. QED
  BY <1>1, <1>3, <1>4, Zenon DEF SessionTask

\* A usable session is never taken from its client: not by the sweep, a DNS answer
\* that still lists its address, a reload of the timeout, or another client's
\* datagram, in any order with the tasks' own steps.
THEOREM SessionsAreSticky == Spec => UsableIsKept
<1>. DEFINE Cause(s) == sess[s].dead \/ sess[s].idle >= timeout \/ sess[s].remote \notin published.set
<1>1. ASSUME UdpInv, Next, NEW c \in Client, entry[c] # NoSession, ~cancelled
      PROVE  KeepsSession(c) \/ (entry'[c] = NoSession /\ Cause(entry[c]))
  <2>0. /\ SessionInv /\ PhaseInv /\ sess \in [Sess -> Session]
        /\ entry \in [Client -> Sess \cup {NoSession}]
    BY <1>1, InvSplits, Zenon DEF SessionInv, TypeOK
  <2>1. entry[c] \in Mapped /\ entry[c] \in Sess /\ sess[entry[c]].refs # 0
    <3>1. entry[c] \in Mapped /\ entry[c] \in Sess
      BY <1>1, <2>0, Zenon DEF Mapped
    <3>2. sess[entry[c]].refs = ArcCount(entry[c])
      BY <2>0, <3>1, Zenon DEF SessionInv, ArcsOwned
    <3>. QED
      BY <3>1, <3>2 DEF ArcCount
  <2>2. CASE UNCHANGED <<entry, sess>>
    BY <2>2, Zenon DEF KeepsSession
  <2>3. ASSUME NEW S \in SUBSET Mapped, CloseEntries(S), \A s \in S : Cause(s)
        PROVE  KeepsSession(c) \/ (entry'[c] = NoSession /\ Cause(entry[c]))
    <3>. HIDE DEF Cause
    <3>. QED
      BY <1>1, <2>0, <2>3, OthersKept, Zenon
  <2>4. CASE BindLoop
    BY <2>2, <2>4, Zenon DEF BindLoop, Bound, BindFailed, BindRetry, StopUnbound
  <2>5. CASE Engine
    <3>1. ASSUME NEW d \in Client, ForwardDatagram(d) PROVE KeepsSession(c)
      <4>1. entry[d] \in Sess
        BY <2>0, <3>1, Zenon DEF ForwardDatagram
      <4>2. entry' = entry /\ sess' = [sess EXCEPT ![entry[d]].idle = 0]
        BY <3>1, Zenon DEF ForwardDatagram
      <4>. QED
        BY <2>0, <2>1, <4>1, <4>2, Zenon DEF KeepsSession, Session
    <3>2. ASSUME NEW d \in Client, BeginOpen(d)
          PROVE  KeepsSession(c) \/ (entry'[c] = NoSession /\ Cause(entry[c]))
      <4>1. /\ {entry[d]} \cap Sess \in SUBSET Mapped /\ CloseEntries({entry[d]} \cap Sess)
            /\ entry[d] # NoSession => sess[entry[d]].dead
        BY <3>2, Zenon DEF BeginOpen, Mapped
      <4>2. \A s \in {entry[d]} \cap Sess : Cause(s)
        BY <4>1, UdpAssumption, Zenon
      <4>. QED
        BY <2>3, <4>1, <4>2, Zenon
    <3>3. CASE OpenRejected \/ ConnectFails \/ RecvFailed \/ Resume \/ TasksStopped \/ StopGraceExpires
      BY <2>2, <3>3, Zenon DEF OpenRejected, ConnectFails, RecvFailed, Resume, TasksStopped,
         StopGraceExpires
    <3>4. CASE OpenSession
      <4>1. opening # NoOpening
        BY <3>4, Zenon DEF OpenSession
      <4>2. PICK s \in Sess \ Live :
              /\ sess' = [sess EXCEPT ![s] = Fresh(opening.client, opening.remote)]
              /\ entry' = [entry EXCEPT ![opening.client] = s]
        BY <3>4, Zenon DEF OpenSession
      <4>3. opening.client # c
        BY <1>1, <2>0, <4>1, Zenon DEF PhaseInv
      <4>4. s # entry[c]
        <5>1. sess[entry[c]].refs \in 0..2
          BY <2>0, <2>1, Zenon DEF Session
        <5>. QED
          BY <2>1, <5>1 DEF Live
      <4>. QED
        BY <2>0, <2>1, <4>2, <4>3, <4>4, Zenon DEF KeepsSession
    <3>5. CASE Sweep
      BY <2>3, <3>5, Zenon DEF Sweep
    <3>6. CASE OnTargetsChanged
      BY <2>3, <3>6, Zenon DEF OnTargetsChanged
    <3>7. ~EngineStop
      BY <1>1, Zenon DEF EngineStop
    <3>. QED
      BY <2>5, <3>1, <3>2, <3>3, <3>4, <3>5, <3>6, <3>7, Zenon DEF Engine
  <2>6. ASSUME NEW s \in Sess, SessionTask(s) PROVE KeepsSession(c)
    BY <1>1, <2>1, <2>6, TaskKeepsRemote, Zenon DEF KeepsSession
  <2>7. CASE DnsRefresher
    BY <2>2, <2>7, Zenon DEF DnsRefresher, Resolved, ResolveFails, RefresherWakes, RefresherStops
  <2>8. CASE Tick
    <3>1. entry' = entry /\ sess'[entry[c]].remote = sess[entry[c]].remote
      BY <2>0, <2>1, <2>8, Zenon DEF Tick, Session
    <3>. QED
      BY <3>1, Zenon DEF KeepsSession
  <2>9. CASE Environment /\ ~Tick
    BY <2>2, <2>9, Zenon DEF Environment, Cancel, PortChangesHands, OthersOpen, OthersClose, ReloadTimeout
  <2>. QED
    BY <1>1, <2>4, <2>5, <2>6, <2>7, <2>8, <2>9, Zenon DEF Next
<1>2. UdpInv /\ [Next]_vars =>
        [\A c \in Client : entry[c] # NoSession /\ ~cancelled =>
           LET r == sess[entry[c]] IN
           \/ entry'[c] = entry[c] /\ sess'[entry[c]].remote = r.remote
           \/ /\ entry'[c] = NoSession
              /\ r.dead \/ r.idle >= timeout \/ r.remote \notin published.set]_vars
  BY <1>1, Zenon DEF KeepsSession
<1>. QED
  BY UdpInvariance, <1>2, PTL DEF Spec, UsableIsKept
=============================================================================
