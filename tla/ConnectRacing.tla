---------------------------- MODULE ConnectRacing ----------------------------
(***************************************************************************)
(* How proxy_connection reaches its target (src/src/forwarder.rs):         *)
(* resolve_targets gives the addresses, connect_racing starts one attempt  *)
(* per address, staggered, in a JoinSet, and takes the first stream.       *)
(*                                                                         *)
(* Time is discrete and starts with the race.  Timers and the runtime are  *)
(* prompt: a tick passes only when no attempt and no join is due.  What an *)
(* address will do is chosen when it is resolved: how it answers a         *)
(* connect, and after how long.                                            *)
(***************************************************************************)
EXTENDS Naturals, Sequences, FiniteSets, FiniteSetsExt

CONSTANTS
  Delay,    \* CONNECT_ATTEMPT_DELAY
  Timeout,  \* knobs.connect_timeout
  MaxAddrs, \* bound: addresses in an answer
  Latency   \* how long a peer may take to answer

ASSUME RacingAssumption ==
  /\ Delay \in Nat \ {0} /\ Timeout \in Nat \ {0} /\ MaxAddrs \in Nat \ {0}
  /\ Latency \subseteq Nat /\ Latency # {}

VARIABLES
  race,     \* where proxy_connection stands: "resolve", "racing", "won", "failed"
  fate,     \* what each resolved address does with a connect
  attempt,  \* the tasks of the JoinSet
  aborting, \* [due, late]: aborted attempts that may yet connect, or have done so
  open,     \* streams to the target that the race has opened and not closed
  now

raceVars == <<race, fate, attempt, aborting, open, now>>

Fates == [answer : {"accepts", "refuses"}, after : Latency] \cup {[answer |-> "silent", after |-> 0]}

RaceInit ==
  /\ race = "resolve" /\ fate = <<>> /\ attempt = <<>> /\ open = 0 /\ now = 0
  /\ aborting = [due |-> 0, late |-> 0]

-----------------------------------------------------------------------------
\* resolve_targets: a literal is its only address, a lookup gives what it finds.
Resolves ==
  /\ race = "resolve"
  /\ \E n \in 1 .. MaxAddrs : \E f \in [1 .. n -> Fates] :
       fate' = f /\ attempt' = [i \in 1 .. n |-> "asleep"]
  /\ race' = "racing"
  /\ UNCHANGED <<aborting, open, now>>

\* The lookup fails, times out or finds no record.
Unresolved ==
  /\ race = "resolve"
  /\ race' = "failed"
  /\ UNCHANGED <<fate, attempt, aborting, open, now>>

Stagger(i) == (i - 1) * Delay

\* Slip: the next address is tried when the one before has failed.
WakesNext(i) == attempt[i] = "asleep" /\ (i > 1 => attempt[i - 1] = "joined")

\* The task's sleep is over.
Wakes(i) == attempt[i] = "asleep" /\ now >= Stagger(i)

\* TcpStream::connect begins.
AttemptStarts(i) ==
  /\ Wakes(i)
  /\ attempt' = [attempt EXCEPT ![i] = "connecting"]
  /\ UNCHANGED <<race, fate, aborting, open, now>>

\* The peer answers, or the timeout is over; the connect is polled first.
Answered(i)  == fate[i].answer # "silent" /\ fate[i].after <= Timeout /\ now >= Stagger(i) + fate[i].after
Concludes(i) == attempt[i] = "connecting" /\ (Answered(i) \/ now >= Stagger(i) + Timeout)

Accepted(i) == Answered(i) /\ fate[i].answer = "accepts"

AttemptEnds(i) ==
  /\ Concludes(i)
  /\ IF Accepted(i)
     THEN attempt' = [attempt EXCEPT ![i] = "stream"] /\ open' = open + 1
     ELSE attempt' = [attempt EXCEPT ![i] = "error"] /\ UNCHANGED open
  /\ UNCHANGED <<race, fate, aborting, now>>

\* Slip: the losing attempts go on.
DropSetDetached(i) ==
  /\ attempt' = [attempt EXCEPT ![i] = "joined"]
  /\ UNCHANGED <<fate, aborting, open, now>>

\* The JoinSet is dropped, i's stream having been taken out.  The streams of the
\* other tasks that have ended are closed with it.  A task in flight is told to
\* abort, which takes effect when the runtime gets to it: one whose connect is due
\* by now may be ahead of that, and only these are kept.
DropSet(i) ==
  LET due == {k \in DOMAIN attempt : attempt[k] \in {"asleep", "connecting"} /\ Accepted(k)} IN
  /\ attempt' = <<>> /\ aborting' = [aborting EXCEPT !.due = Cardinality(due)]
  /\ open' = open - Cardinality({k \in DOMAIN attempt \ {i} : attempt[k] = "stream"})
  /\ fate' = <<>> /\ now' = 0

\* join_next returns a stream: it is the connection.
JoinStream(i) ==
  /\ race = "racing" /\ attempt[i] = "stream"
  /\ race' = "won"
  /\ DropSet(i)

\* An aborted attempt connects before it is dropped.
ConnectsLate ==
  /\ aborting.due > 0
  /\ aborting' = [due |-> aborting.due - 1, late |-> aborting.late + 1]
  /\ open' = open + 1
  /\ UNCHANGED <<race, fate, attempt, now>>

\* The runtime drops an aborted attempt, with the stream if it has one.
AbortTakesEffect ==
  /\ \/ /\ aborting.due > 0 /\ UNCHANGED open
        /\ aborting' = [aborting EXCEPT !.due = @ - 1]
     \/ /\ aborting.late > 0 /\ open' = open - 1
        /\ aborting' = [aborting EXCEPT !.late = @ - 1]
  /\ UNCHANGED <<race, fate, attempt, now>>

\* join_next returns an error: the last of them ends the race.
JoinError(i) ==
  /\ race = "racing" /\ attempt[i] = "error"
  /\ IF \A k \in DOMAIN attempt \ {i} : attempt[k] = "joined"
     THEN race' = "failed" /\ attempt' = <<>> /\ fate' = <<>> /\ now' = 0
     ELSE attempt' = [attempt EXCEPT ![i] = "joined"] /\ UNCHANGED <<race, fate, now>>
  /\ UNCHANGED <<aborting, open>>

\* A task that can go on, or one that join_next can return.
Due(i) == Wakes(i) \/ Concludes(i) \/ (race = "racing" /\ attempt[i] \in {"stream", "error"})

Prompt ==
  \E i \in DOMAIN attempt :
    \/ AttemptStarts(i) \/ AttemptEnds(i) \/ JoinStream(i) \/ JoinError(i)

RaceTick ==
  /\ race = "racing" /\ ~\E i \in DOMAIN attempt : Due(i)
  /\ now' = now + 1
  /\ UNCHANGED <<race, fate, attempt, aborting, open>>

RaceNext == Resolves \/ Unresolved \/ Prompt \/ RaceTick \/ ConnectsLate \/ AbortTakesEffect

-----------------------------------------------------------------------------
\* What the race promises.

\* The addresses that accept in time, and when the first of them can have done so
\* if each is tried one Delay after the one before; when the last has given up.
Good    == {i \in DOMAIN fate : fate[i].answer = "accepts" /\ fate[i].after <= Timeout}
Soonest == Min({(i - 1) * Delay + fate[i].after : i \in Good})
Latest  == Max({(i - 1) * Delay +
                (IF fate[i].answer = "silent" \/ fate[i].after > Timeout THEN Timeout ELSE fate[i].after) :
                  i \in DOMAIN fate})

\* "A dead first record costs one stagger instead of a whole connect timeout": the
\* race is won if and only if some address accepts in time, at the moment at which
\* that is first possible, however the other attempts fail, hang or come second; a
\* lost race ends when the last attempt does.
FirstAnswerWins ==
  [][/\ race = "racing" /\ race' = "won" => Good # {} /\ now = Soonest
     /\ race = "racing" /\ race' = "failed" => Good = {} /\ now = Latest]_raceVars

\* "The losing attempts are dropped as soon as one succeeds": once the race is won
\* the streams to the target are the connection's and those of attempts that are
\* being aborted, however many had succeeded before the first was seen or do so
\* while the set is dropped; when the aborts are through the connection's is the
\* only one.  A race that is lost leaves none.
OneStreamSurvives ==
  /\ race = "won" => open = 1 + aborting.late
  /\ race = "failed" => open = 0
=============================================================================
