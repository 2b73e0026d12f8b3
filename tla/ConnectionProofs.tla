--------------------------- MODULE ConnectionProofs ---------------------------
(***************************************************************************)
(* One TCP connection, for any number of addresses, any latencies, pipe    *)
(* and buffer sizes and any amount of data: the race is won when and only  *)
(* when it can be and leaves one stream, and the relay that follows loses, *)
(* repeats and reorders nothing.                                           *)
(***************************************************************************)
EXTENDS Connection, FiniteSetTheorems, TLAPS

-----------------------------------------------------------------------------
(* The invariant of connect_racing.                                        *)

AttemptStates == {"asleep", "connecting", "stream", "error", "joined"}

\* When attempt i ends if nothing delays it.
Lapse(i) == IF fate[i].answer = "silent" \/ fate[i].after > Timeout THEN Timeout ELSE fate[i].after
End(i)   == (i - 1) * Delay + Lapse(i)

RaceType ==
  /\ now \in Nat /\ open \in Nat /\ aborting \in [due : Nat, late : Nat]
  /\ race = "racing" => \E n \in Nat \ {0} : fate \in [1..n -> Fates] /\ attempt \in [1..n -> AttemptStates]

\* An attempt is never behind its time, and is judged as its address deserves.
OnTime(i) ==
  /\ attempt[i] = "asleep" => now <= Stagger(i)
  /\ attempt[i] = "connecting" => Stagger(i) <= now /\ now <= End(i)
  /\ attempt[i] = "stream" => now = End(i) /\ i \in Good
  /\ attempt[i] = "error" => now = End(i) /\ i \notin Good
  /\ attempt[i] = "joined" => now >= End(i) /\ i \notin Good

\* The streams are those of the attempts that have ended with one.
Streams == {i \in DOMAIN attempt : attempt[i] = "stream"}

StreamsHeld ==
  /\ race = "resolve" => open = 0 /\ now = 0
  /\ race = "racing" => open = Cardinality(Streams)
  /\ race # "racing" => attempt = <<>>
  /\ race # "won" => aborting.due = 0 /\ aborting.late = 0

RaceInv ==
  /\ race \in {"resolve", "racing", "won", "failed"}
  /\ RaceType /\ StreamsHeld /\ OneStreamSurvives
  /\ race = "racing" => \A i \in DOMAIN attempt : OnTime(i)

-----------------------------------------------------------------------------
(* The invariant of the relay.                                             *)

\* What is in a pipe is what the write loop has left, and a direction that is done
\* has passed everything on.
PipeInv ==
  \A d \in Dir :
    /\ pc[d] = "write" => left[d] = pipe[d]
    /\ pc[d] \in {"read", "ok"} => pipe[d] = 0
    /\ shut[Dst(d)] => pc[d] = "ok" /\ fin[Src(d)] /\ rbuf[Src(d)] = 0

RelayInv == TypeOK /\ BytesConserved /\ PipeInv

-----------------------------------------------------------------------------
(* connect_racing.                                                         *)

\* The times of an attempt.
LEMMA Times ==
  ASSUME RaceInv, race = "racing", NEW i \in DOMAIN attempt
  PROVE  /\ i \in Nat /\ i >= 1 /\ i \in DOMAIN fate
         /\ fate[i].answer \in {"accepts", "refuses", "silent"} /\ fate[i].after \in Nat
         /\ Stagger(i) \in Nat /\ Timeout \in Nat /\ now \in Nat
         /\ Lapse(i) \in Nat /\ Lapse(i) <= Timeout
         /\ End(i) = Stagger(i) + Lapse(i)
<1>1. PICK n \in Nat \ {0} : fate \in [1..n -> Fates] /\ attempt \in [1..n -> AttemptStates]
  BY Zenon DEF RaceInv, RaceType
<1>2. i \in Nat /\ i >= 1 /\ i \in DOMAIN fate /\ fate[i] \in Fates
  BY <1>1
<1>3. fate[i].answer \in {"accepts", "refuses", "silent"} /\ fate[i].after \in Nat
  <2>1. CASE fate[i] \in [answer : {"accepts", "refuses"}, after : Latency]
    BY <2>1, RacingAssumption, Zenon
  <2>2. CASE fate[i] = [answer |-> "silent", after |-> 0]
    BY <2>2
  <2>. QED
    BY <1>2, <2>1, <2>2, Zenon DEF Fates
<1>4. Stagger(i) \in Nat
  <2>1. \A a, b \in Nat : a * b \in Nat
    OBVIOUS
  <2>2. i - 1 \in Nat /\ Delay \in Nat
    BY <1>2, RacingAssumption
  <2>. QED
    BY <2>1, <2>2, Zenon DEF Stagger
<1>5. Timeout \in Nat
  BY RacingAssumption, Zenon
<1>6. Lapse(i) \in Nat /\ Lapse(i) <= Timeout
  BY <1>3, <1>5 DEF Lapse
<1>. QED
  BY <1>2, <1>3, <1>4, <1>5, <1>6, Zenon DEF End, Stagger, RaceInv, RaceType

\* All attempts are over the addresses that were resolved.
LEMMA SameDomain ==
  ASSUME RaceInv, race = "racing"
  PROVE  DOMAIN fate = DOMAIN attempt /\ \A i \in DOMAIN attempt : attempt[i] \in AttemptStates
<1>. QED
  BY Zenon DEF RaceInv, RaceType

\* An address that accepts in time is good, and End is when it does.
LEMMA GoodTimes ==
  ASSUME RaceInv, race = "racing", NEW i \in DOMAIN attempt
  PROVE  /\ i \in Good <=> fate[i].answer = "accepts" /\ fate[i].after <= Timeout
         /\ i \in Good => End(i) = (i - 1) * Delay + fate[i].after
<1>1. i \in Good <=> fate[i].answer = "accepts" /\ fate[i].after <= Timeout
  BY Times, Zenon DEF Good
<1>2. i \in Good => Lapse(i) = fate[i].after
  BY <1>1, Times DEF Lapse
<1>. QED
  BY <1>1, <1>2, Zenon DEF End

\* No attempt outlives the race.
LEMMA NoAttemptLeft == RaceInv /\ race # "racing" => attempt = <<>> /\ DOMAIN attempt = {}
<1>. QED
  BY DEF RaceInv, StreamsHeld

\* There are finitely many streams.
LEMMA FiniteStreams ==
  ASSUME RaceInv, race = "racing"
  PROVE  IsFiniteSet(Streams) /\ Cardinality(Streams) \in Nat
<1>1. PICK n \in Nat \ {0} : attempt \in [1..n -> AttemptStates]
  BY Zenon DEF RaceInv, RaceType
<1>2. IsFiniteSet(1..n)
  BY FS_Interval
<1>3. Streams \in SUBSET (1..n)
  BY <1>1, Zenon DEF Streams
<1>. QED
  BY <1>2, <1>3, FS_Subset, FS_CardinalityType, Zenon

\* Attempt i goes to state a while the race goes on.
LEMMA AttemptMoves ==
  ASSUME RaceInv, race = "racing", NEW i \in DOMAIN attempt, NEW a \in AttemptStates,
         attempt' = [attempt EXCEPT ![i] = a], UNCHANGED <<race, fate, aborting, now>>,
         attempt[i] # "stream", open' = IF a = "stream" THEN open + 1 ELSE open,
         a # "asleep",
         a = "connecting" => Stagger(i) <= now /\ now <= End(i),
         a = "stream" => now = End(i) /\ i \in Good,
         a = "error" => now = End(i) /\ i \notin Good,
         a = "joined" => now >= End(i) /\ i \notin Good
  PROVE  RaceInv'
<1>1. /\ DOMAIN attempt' = DOMAIN attempt /\ attempt'[i] = a
      /\ \A k \in DOMAIN attempt : k # i => attempt'[k] = attempt[k]
  BY Zenon
<1>2. RaceType'
  <2>1. PICK n \in Nat \ {0} : fate \in [1..n -> Fates] /\ attempt \in [1..n -> AttemptStates]
    BY Zenon DEF RaceInv, RaceType
  <2>2. attempt' \in [1..n -> AttemptStates] /\ fate' \in [1..n -> Fates]
    BY <2>1, Zenon
  <2>3. now' \in Nat /\ aborting' \in [due : Nat, late : Nat]
    BY Zenon DEF RaceInv, RaceType
  <2>4. open' \in Nat
    BY DEF RaceInv, RaceType
  <2>. QED
    BY <2>1, <2>2, <2>3, <2>4, Zenon DEF RaceType
<1>3. StreamsHeld' /\ OneStreamSurvives'
  <2>1. IsFiniteSet(Streams) /\ open = Cardinality(Streams) /\ i \notin Streams
    BY FiniteStreams, Zenon DEF RaceInv, StreamsHeld, Streams
  <2>2. open' = Cardinality(Streams')
    <3>1. CASE a = "stream"
      <4>1. Streams' = Streams \cup {i}
        BY <1>1, <3>1, Zenon DEF Streams
      <4>. QED
        BY <2>1, <3>1, <4>1, FS_AddElement, Zenon
    <3>2. CASE a # "stream"
      <4>1. Streams' = Streams
        BY <1>1, <2>1, <3>2, Zenon DEF Streams
      <4>. QED
        BY <2>1, <3>2, <4>1, Zenon
    <3>. QED
      BY <3>1, <3>2, Zenon
  <2>. QED
    BY <2>2, Zenon DEF RaceInv, StreamsHeld, OneStreamSurvives
<1>4. \A k \in DOMAIN attempt : OnTime(k)'
  <2>. SUFFICES ASSUME NEW k \in DOMAIN attempt PROVE OnTime(k)'
    BY Zenon
  <2>1. Good' = Good /\ End(k)' = End(k) /\ now' = now
    BY Zenon DEF Good, End, Lapse
  <2>2. CASE k = i
    BY <1>1, <2>1, <2>2, Zenon DEF OnTime
  <2>3. CASE k # i
    BY <1>1, <2>1, <2>3, Zenon DEF RaceInv, OnTime
  <2>. QED
    BY <2>2, <2>3, Zenon
<1>. QED
  BY <1>1, <1>2, <1>3, <1>4, Zenon DEF RaceInv

\* The race is judged fairly: what FirstAnswerWins says of a step.
JudgedFairly ==
  /\ race = "racing" /\ race' = "won" => Good # {} /\ now = Soonest
  /\ race = "racing" /\ race' = "failed" => Good = {} /\ now = Latest

\* An attempt starts on time.
LEMMA StartsStep ==
  ASSUME RaceInv, race = "racing", NEW i \in DOMAIN attempt, AttemptStarts(i)
  PROVE  RaceInv' /\ JudgedFairly
<1>1. /\ attempt[i] = "asleep" /\ now >= Stagger(i)
      /\ attempt' = [attempt EXCEPT ![i] = "connecting"]
      /\ UNCHANGED <<race, fate, aborting, open, now>>
  BY Zenon DEF AttemptStarts, Wakes
<1>2. now <= Stagger(i)
  BY <1>1, Zenon DEF RaceInv, OnTime
<1>3. Stagger(i) <= now /\ now <= End(i)
  BY <1>1, <1>2, Times
<1>5. RaceInv'
  BY <1>1, <1>3, AttemptMoves, Zenon DEF AttemptStates
<1>. QED
  BY <1>1, <1>5, Zenon DEF JudgedFairly

\* An attempt ends when it should, and as its address deserves.
LEMMA EndsStep ==
  ASSUME RaceInv, race = "racing", NEW i \in DOMAIN attempt, AttemptEnds(i)
  PROVE  RaceInv' /\ JudgedFairly
<1>1. /\ attempt[i] = "connecting" /\ (Answered(i) \/ now >= Stagger(i) + Timeout)
      /\ UNCHANGED <<race, fate, aborting, now>>
  BY Zenon DEF AttemptEnds, Concludes
<1>2. /\ fate[i].answer \in {"accepts", "refuses", "silent"} /\ fate[i].after \in Nat
      /\ Stagger(i) \in Nat /\ Timeout \in Nat /\ now \in Nat
      /\ Lapse(i) \in Nat /\ Lapse(i) <= Timeout /\ End(i) = Stagger(i) + Lapse(i)
  BY Times, Zenon
<1>3. now <= End(i)
  BY <1>1, Zenon DEF RaceInv, OnTime
<1>4. now = End(i)
  <2>1. CASE Answered(i)
    BY <1>2, <1>3, <2>1 DEF Answered, Lapse
  <2>2. CASE now >= Stagger(i) + Timeout
    BY <1>2, <1>3, <2>2
  <2>. QED
    BY <1>1, <2>1, <2>2, Zenon
<1>5. i \in Good <=> Accepted(i)
  <2>1. i \in Good => Lapse(i) = fate[i].after
    BY <1>2, GoodTimes DEF Lapse
  <2>. QED
    BY <1>2, <1>4, <2>1, GoodTimes DEF Answered, Accepted
<1>6. RaceInv'
  <2>1. CASE Accepted(i)
    <3>1. attempt' = [attempt EXCEPT ![i] = "stream"] /\ open' = open + 1
      BY <2>1, Zenon DEF AttemptEnds
    <3>. QED
      BY <1>1, <1>4, <1>5, <2>1, <3>1, AttemptMoves, Zenon DEF AttemptStates
  <2>2. CASE ~Accepted(i)
    <3>1. attempt' = [attempt EXCEPT ![i] = "error"] /\ open' = open
      BY <2>2, Zenon DEF AttemptEnds
    <3>. QED
      BY <1>1, <1>4, <1>5, <2>2, <3>1, AttemptMoves, Zenon DEF AttemptStates
  <2>. QED
    BY <2>1, <2>2, Zenon
<1>. QED
  BY <1>1, <1>6, Zenon DEF JudgedFairly

\* The first stream to be joined is the first there could be.
LEMMA WonStep ==
  ASSUME RaceInv, race = "racing", NEW i \in DOMAIN attempt, JoinStream(i)
  PROVE  RaceInv' /\ JudgedFairly
<1>. DEFINE due == {k \in DOMAIN attempt : attempt[k] \in {"asleep", "connecting"} /\ Accepted(k)}
<1>1. /\ attempt[i] = "stream" /\ race' = "won" /\ attempt' = <<>> /\ now' = 0
      /\ open' = open - Cardinality({k \in DOMAIN attempt \ {i} : attempt[k] = "stream"})
      /\ aborting' = [aborting EXCEPT !.due = Cardinality(due)]
  BY Zenon DEF JoinStream, DropSet
<1>2. now = End(i) /\ i \in Good
  BY <1>1, Zenon DEF RaceInv, OnTime
<1>3. ASSUME NEW k \in Good PROVE now <= (k - 1) * Delay + fate[k].after
  <2>1. k \in DOMAIN attempt /\ OnTime(k) /\ attempt[k] \in AttemptStates
    BY SameDomain, Zenon DEF Good, RaceInv
  <2>2. End(k) = (k - 1) * Delay + fate[k].after
    BY <2>1, GoodTimes, Zenon
  <2>3. now <= End(k)
    <3>1. attempt[k] \in {"asleep", "connecting", "stream"}
      BY <2>1, Zenon DEF OnTime, AttemptStates
    <3>2. Stagger(k) \in Nat /\ Lapse(k) \in Nat /\ now \in Nat /\ End(k) = Stagger(k) + Lapse(k)
      BY <2>1, Times, Zenon
    <3>. QED
      BY <2>1, <3>1, <3>2 DEF OnTime
  <2>. QED
    BY <2>2, <2>3, Zenon
<1>4. now = Soonest
  <2>. DEFINE S == {(k - 1) * Delay + fate[k].after : k \in Good}
  <2>1. now \in S
    BY <1>2, GoodTimes, Zenon
  <2>2. \A y \in S : now <= y
    BY <1>3, Zenon
  <2>3. now \in Nat /\ \A y \in S : y \in Int
    <3>1. ASSUME NEW k \in Good PROVE (k - 1) * Delay + fate[k].after \in Int
      <4>1. k \in DOMAIN attempt
        BY SameDomain, Zenon DEF Good
      <4>2. End(k) \in Int /\ End(k) = (k - 1) * Delay + fate[k].after
        BY <4>1, Times, GoodTimes
      <4>. QED
        BY <4>2, Zenon
    <3>. QED
      BY <3>1, Zenon DEF RaceInv, RaceType
  <2>. HIDE DEF S
  <2>4. \A x \in S : (\A y \in S : x <= y) => x = now
    BY <2>1, <2>2, <2>3
  <2>5. Min(S) = now
    BY <2>1, <2>2, <2>4, Zenon DEF Min
  <2>. QED
    BY <2>5, Zenon DEF S, Soonest
<1>5. open' = 1
  <2>1. IsFiniteSet(Streams) /\ Cardinality(Streams) \in Nat /\ open = Cardinality(Streams) /\ i \in Streams
    BY <1>1, FiniteStreams, Zenon DEF RaceInv, StreamsHeld, Streams
  <2>2. {k \in DOMAIN attempt \ {i} : attempt[k] = "stream"} = Streams \ {i}
    BY Zenon DEF Streams
  <2>3. Cardinality(Streams \ {i}) = Cardinality(Streams) - 1
    BY <2>1, FS_RemoveElement, Zenon
  <2>4. open' = Cardinality(Streams) - Cardinality(Streams \ {i})
    BY <1>1, <2>1, <2>2, Zenon
  <2>. QED
    BY <2>1, <2>3, <2>4
<1>6. Cardinality(due) \in Nat
  <2>1. PICK n \in Nat \ {0} : attempt \in [1..n -> AttemptStates]
    BY Zenon DEF RaceInv, RaceType
  <2>2. IsFiniteSet(1..n)
    BY FS_Interval
  <2>3. due \in SUBSET (1..n)
    BY <2>1, Zenon
  <2>. QED
    BY <2>2, <2>3, FS_Subset, FS_CardinalityType, Zenon
<1>. HIDE DEF due
<1>7. aborting' \in [due : Nat, late : Nat] /\ aborting'.late = 0
  BY <1>1, <1>6 DEF RaceInv, RaceType, StreamsHeld
<1>8. RaceInv'
  <2>1. OneStreamSurvives'
    BY <1>1, <1>5, <1>7 DEF OneStreamSurvives
  <2>2. RaceType'
    BY <1>1, <1>5, <1>7 DEF RaceType
  <2>3. StreamsHeld'
    BY <1>1, Zenon DEF StreamsHeld
  <2>. QED
    BY <1>1, <2>1, <2>2, <2>3, Zenon DEF RaceInv
<1>. QED
  BY <1>1, <1>2, <1>4, <1>8, Zenon DEF JudgedFairly

\* Aborted attempts may connect, and are dropped with what they hold.
LEMMA AbortStep ==
  ASSUME RaceInv, ConnectsLate \/ AbortTakesEffect
  PROVE  RaceInv' /\ JudgedFairly
<1>1. aborting \in [due : Nat, late : Nat] /\ open \in Nat
  BY Zenon DEF RaceInv, RaceType
<1>2. race = "won" /\ UNCHANGED <<race, fate, attempt, now>>
  BY <1>1 DEF RaceInv, StreamsHeld, ConnectsLate, AbortTakesEffect
<1>3. open = 1 + aborting.late
  BY <1>2, Zenon DEF RaceInv, OneStreamSurvives
<1>4. aborting' \in [due : Nat, late : Nat] /\ open' = 1 + aborting'.late
  BY <1>1, <1>3 DEF ConnectsLate, AbortTakesEffect
<1>5. open' \in Nat
  BY <1>4
<1>. QED
  BY <1>2, <1>4, <1>5, Zenon DEF RaceInv, RaceType, StreamsHeld, OneStreamSurvives, JudgedFairly

\* An error is put aside; the last one ends a race nobody could have won.
LEMMA LostStep ==
  ASSUME RaceInv, race = "racing", NEW i \in DOMAIN attempt, JoinError(i)
  PROVE  RaceInv' /\ JudgedFairly
<1>1. attempt[i] = "error" /\ UNCHANGED <<aborting, open>> /\ open \in Nat
  BY Zenon DEF JoinError, RaceInv, RaceType
<1>2. now = End(i) /\ i \notin Good
  BY <1>1, Zenon DEF RaceInv, OnTime
<1>3. CASE \E k \in DOMAIN attempt \ {i} : attempt[k] # "joined"
  <2>1. attempt' = [attempt EXCEPT ![i] = "joined"] /\ UNCHANGED <<race, fate, now>>
    BY <1>3, Zenon DEF JoinError
  <2>2. now >= End(i)
    BY <1>2, Times
  <2>3. RaceInv'
    BY <1>1, <1>2, <2>1, <2>2, AttemptMoves, Zenon DEF AttemptStates
  <2>. QED
    BY <2>1, <2>3, Zenon DEF JudgedFairly
<1>4. CASE \A k \in DOMAIN attempt \ {i} : attempt[k] = "joined"
  <2>1. race' = "failed" /\ attempt' = <<>> /\ fate' = <<>> /\ now' = 0
    BY <1>4, Zenon DEF JoinError
  <2>2. open = 0
    <3>1. ~\E k \in DOMAIN attempt : attempt[k] = "stream"
      BY <1>1, <1>4, Zenon
    <3>. QED
      BY <3>1, FS_EmptySet, Zenon DEF RaceInv, StreamsHeld, Streams
  <2>3. RaceInv'
    BY <1>1, <2>1, <2>2, Zenon DEF RaceInv, RaceType, StreamsHeld, OneStreamSurvives
  <2>4. ASSUME NEW k \in DOMAIN attempt PROVE k \notin Good /\ End(k) <= now
    <3>1. CASE k = i
      BY <1>2, <3>1, Times
    <3>2. CASE k # i
      BY <1>4, <3>2, Times, Zenon DEF RaceInv, OnTime
    <3>. QED
      BY <3>1, <3>2, Zenon
  <2>5. Good = {}
    BY <2>4, SameDomain, Zenon DEF Good
  <2>6. now = Latest
    <3>. DEFINE S == {(k - 1) * Delay +
                      (IF fate[k].answer = "silent" \/ fate[k].after > Timeout THEN Timeout ELSE fate[k].after) :
                        k \in DOMAIN fate}
    <3>1. S = {End(k) : k \in DOMAIN attempt}
      BY SameDomain, Zenon DEF End, Lapse
    <3>2. now \in S /\ \A y \in S : y \in Int /\ now >= y
      BY <1>2, <2>4, <3>1, Times
    <3>. HIDE DEF S
    <3>3. \A x \in S : (\A y \in S : x >= y) => x = now
      BY <3>2
    <3>4. Max(S) = now
      BY <3>2, <3>3, Zenon DEF Max
    <3>. QED
      BY <3>4, Zenon DEF S, Latest
  <2>. QED
    BY <2>1, <2>3, <2>5, <2>6, Zenon DEF JudgedFairly
<1>. QED
  BY <1>3, <1>4, Zenon

\* Time passes only when nothing is due.
LEMMA TickStep ==
  ASSUME RaceInv, RaceTick
  PROVE  RaceInv' /\ JudgedFairly
<1>1. now' = now + 1 /\ UNCHANGED <<race, fate, attempt, aborting, open>> /\ race = "racing"
  BY Zenon DEF RaceTick
<1>2. RaceType'
  BY <1>1 DEF RaceInv, RaceType
<1>3. ASSUME NEW k \in DOMAIN attempt PROVE OnTime(k)'
  <2>0. /\ fate[k].answer \in {"accepts", "refuses", "silent"} /\ fate[k].after \in Nat
        /\ Stagger(k) \in Nat /\ Timeout \in Nat /\ now \in Nat
        /\ Lapse(k) \in Nat /\ End(k) = Stagger(k) + Lapse(k)
    BY <1>1, Times, Zenon
  <2>1. ~Due(k) /\ OnTime(k)
    BY <1>1, Zenon DEF RaceTick, RaceInv
  <2>2. Good' = Good /\ End(k)' = End(k)
    BY <1>1, Zenon DEF Good, End, Lapse
  <2>3. attempt[k] = "asleep" => now + 1 <= Stagger(k)
    BY <2>0, <2>1 DEF Due, Wakes
  <2>4. attempt[k] = "connecting" => now + 1 <= End(k)
    BY <2>0, <2>1 DEF Due, Concludes, Answered, Lapse
  <2>5. attempt[k] \notin {"stream", "error"}
    BY <1>1, <2>1, Zenon DEF Due
  <2>. QED
    BY <1>1, <2>0, <2>1, <2>2, <2>3, <2>4, <2>5 DEF OnTime
<1>4. StreamsHeld' /\ OneStreamSurvives'
  BY <1>1, Zenon DEF RaceInv, StreamsHeld, Streams, OneStreamSurvives
<1>. QED
  BY <1>1, <1>2, <1>3, <1>4, Zenon DEF RaceInv, JudgedFairly

\* The addresses are known and their attempts spawned, or there are none.
LEMMA ResolveStep ==
  ASSUME RaceInv, Resolves \/ Unresolved
  PROVE  RaceInv' /\ JudgedFairly
<1>1. /\ race = "resolve" /\ UNCHANGED <<aborting, open, now>> /\ open = 0 /\ now = 0
      /\ aborting \in [due : Nat, late : Nat] /\ aborting.due = 0 /\ aborting.late = 0
  BY Zenon DEF Resolves, Unresolved, RaceInv, RaceType, StreamsHeld
<1>2. CASE Unresolved
  BY <1>1, <1>2, Zenon DEF Unresolved, RaceInv, RaceType, StreamsHeld, OneStreamSurvives, JudgedFairly
<1>3. CASE Resolves
  <2>1. PICK n \in 1..MaxAddrs : \E f \in [1..n -> Fates] :
          fate' = f /\ attempt' = [i \in 1..n |-> "asleep"]
    BY <1>3, Zenon DEF Resolves
  <2>2. /\ n \in Nat \ {0} /\ race' = "racing"
        /\ fate' \in [1..n -> Fates] /\ attempt' \in [1..n -> AttemptStates]
        /\ DOMAIN attempt' = 1..n
    BY <1>3, <2>1, RacingAssumption DEF Resolves, AttemptStates
  <2>3. RaceType'
    BY <1>1, <2>2, Zenon DEF RaceType
  <2>4. ASSUME NEW i \in 1..n PROVE OnTime(i)'
    <3>1. attempt'[i] = "asleep" /\ now' = 0
      BY <1>1, <2>1, Zenon
    <3>2. Stagger(i) >= 0
      <4>1. \A a, b \in Nat : a * b >= 0
        OBVIOUS
      <4>2. i - 1 \in Nat /\ Delay \in Nat
        BY RacingAssumption
      <4>. QED
        BY <4>1, <4>2, Zenon DEF Stagger
    <3>. QED
      BY <3>1, <3>2, Zenon DEF OnTime
  <2>5. StreamsHeld' /\ OneStreamSurvives'
    <3>1. Streams' = {}
      BY <2>1, Zenon DEF Streams
    <3>. QED
      BY <1>1, <2>2, <3>1, FS_EmptySet DEF StreamsHeld, OneStreamSurvives
  <2>. QED
    BY <1>1, <2>2, <2>3, <2>4, <2>5, Zenon DEF RaceInv, JudgedFairly
<1>. QED
  BY <1>2, <1>3, Zenon

\* Every step of the race.
LEMMA RaceStep ==
  ASSUME RaceInv, RaceNext
  PROVE  RaceInv' /\ JudgedFairly
<1>1. ASSUME NEW i \in DOMAIN attempt,
             AttemptStarts(i) \/ AttemptEnds(i) \/ JoinStream(i) \/ JoinError(i)
      PROVE  RaceInv' /\ JudgedFairly
  <2>1. race = "racing"
    BY NoAttemptLeft, Zenon
  <2>. QED
    BY <1>1, <2>1, StartsStep, EndsStep, WonStep, LostStep, Zenon
<1>. QED
  BY <1>1, ResolveStep, TickStep, AbortStep, Zenon DEF RaceNext, Prompt

\* A step that leaves the race alone.
LEMMA RaceUntouched == RaceInv /\ UNCHANGED raceVars => RaceInv'
<1>. SUFFICES ASSUME RaceInv, UNCHANGED raceVars PROVE RaceInv'
  BY Zenon
<1>1. UNCHANGED <<race, fate, attempt, aborting, open, now>>
  BY Zenon DEF raceVars
<1>2. RaceType' /\ StreamsHeld' /\ OneStreamSurvives'
  BY <1>1, Zenon DEF RaceInv, RaceType, StreamsHeld, Streams, OneStreamSurvives
<1>3. ASSUME NEW k, OnTime(k) PROVE OnTime(k)'
  BY <1>1, <1>3, Zenon DEF OnTime, End, Lapse, Good
<1>. QED
  BY <1>1, <1>2, <1>3, Zenon DEF RaceInv

-----------------------------------------------------------------------------
(* splice_dir.                                                             *)

\* The two directions share no socket end.
LEMMA SocketEnds ==
  ASSUME NEW d \in Dir
  PROVE  /\ Src(d) \in Side /\ Dst(d) \in Side
         /\ \A e \in Dir : e # d => Src(e) # Src(d) /\ Dst(e) # Dst(d)
<1>. QED
  BY Zenon DEF Dir, Side, Src, Dst

\* What the invariant says of one direction.
Carried(d) ==
  /\ written[Src(d)] = rbuf[Src(d)] + pipe[d] + counted[d]
  /\ pc[d] = "write" => left[d] = pipe[d]
  /\ pc[d] \in {"read", "ok"} => pipe[d] = 0
  /\ shut[Dst(d)] => pc[d] = "ok" /\ fin[Src(d)] /\ rbuf[Src(d)] = 0

\* RelayInv, direction by direction.
LEMMA RelayParts == RelayInv <=> TypeOK /\ \A d \in Dir : Carried(d)
<1>. QED
  BY Zenon DEF RelayInv, BytesConserved, PipeInv, Carried

\* The same in the next state.
LEMMA RelayPartsNext == TypeOK' /\ (\A d \in Dir : Carried(d)') => RelayInv'
<1>. QED
  BY Zenon DEF RelayInv, BytesConserved, PipeInv, Carried

\* The values of one direction.
LEMMA DirTypes ==
  ASSUME TypeOK, NEW d \in Dir
  PROVE  /\ left[d] \in 0..Want /\ pipe[d] \in Nat /\ counted[d] \in Nat
         /\ rbuf[Src(d)] \in 0..BufCap /\ sbuf[Dst(d)] \in 0..BufCap
         /\ written[Src(d)] \in Nat
         /\ Want \in Nat /\ BufCap \in Nat /\ MaxBytes \in Nat
<1>. QED
  BY SocketEnds, SpliceAssumption DEF TypeOK

\* A direction whose values stay as they are.
LEMMA CarriedUntouched ==
  ASSUME NEW e \in Dir, Carried(e),
         written'[Src(e)] = written[Src(e)], rbuf'[Src(e)] = rbuf[Src(e)], fin'[Src(e)] = fin[Src(e)],
         pipe'[e] = pipe[e], counted'[e] = counted[e], left'[e] = left[e], pc'[e] = pc[e],
         shut'[Dst(e)] = shut[Dst(e)]
  PROVE  Carried(e)'
<1>. QED
  BY Zenon DEF Carried

\* splice from the socket into the pipe.
LEMMA ReadStep ==
  ASSUME RelayInv, NEW d \in Dir, NEW n \in 1..Want, Read(d, n)
  PROVE  RelayInv'
<1>0. /\ TypeOK /\ Carried(d) /\ \A e \in Dir : Carried(e)
      /\ rbuf[Src(d)] \in 0..BufCap /\ pipe[d] \in Nat /\ counted[d] \in Nat
      /\ BufCap \in Nat /\ Want \in Nat /\ Src(d) \in Side
  BY RelayParts, DirTypes, SocketEnds, Zenon
<1>1. /\ pc[d] = "read" /\ n <= rbuf[Src(d)]
      /\ rbuf' = [rbuf EXCEPT ![Src(d)] = @ - n] /\ pipe' = [pipe EXCEPT ![d] = @ + n]
      /\ left' = [left EXCEPT ![d] = n] /\ pc' = [pc EXCEPT ![d] = "write"]
      /\ UNCHANGED <<phase, pipes, counted, sbuf, readable, writable, shut, peers>>
  BY Zenon DEF Read, Reading
<1>2. rbuf[Src(d)] - n \in 0..BufCap /\ pipe[d] + n \in Nat /\ n \in 0..Want
  BY <1>0, <1>1
<1>3. TypeOK'
  <2>1. rbuf' \in [Side -> 0..BufCap] /\ pipe' \in [Dir -> Nat]
    BY <1>0, <1>1, <1>2, Zenon DEF TypeOK
  <2>2. left' \in [Dir -> 0..Want] /\ pc' \in [Dir -> {"read", "write", "ok", "err"}]
    BY <1>0, <1>1, <1>2, Zenon DEF TypeOK
  <2>. QED
    BY <1>0, <1>1, <2>1, <2>2, Zenon DEF TypeOK, pipes, peers
<1>4. /\ rbuf'[Src(d)] = rbuf[Src(d)] - n /\ pipe'[d] = pipe[d] + n /\ left'[d] = n /\ pc'[d] = "write"
      /\ \A s \in Side : s # Src(d) => rbuf'[s] = rbuf[s]
      /\ \A e \in Dir : e # d => pipe'[e] = pipe[e] /\ left'[e] = left[e] /\ pc'[e] = pc[e]
  BY <1>0, <1>1, Zenon DEF TypeOK
<1>5. Carried(d)'
  BY <1>0, <1>1, <1>4 DEF Carried, peers
<1>6. ASSUME NEW e \in Dir, e # d PROVE Carried(e)'
  BY <1>0, <1>1, <1>4, <1>6, SocketEnds, CarriedUntouched, Zenon DEF peers
<1>. QED
  BY <1>3, <1>5, <1>6, RelayPartsNext, Zenon

\* splice from the pipe into the socket.
LEMMA WriteStep ==
  ASSUME RelayInv, NEW d \in Dir, NEW n \in 1..Want, Write(d, n)
  PROVE  RelayInv'
<1>0. /\ TypeOK /\ Carried(d) /\ \A e \in Dir : Carried(e)
      /\ sbuf[Dst(d)] \in 0..BufCap /\ pipe[d] \in Nat /\ counted[d] \in Nat /\ left[d] \in 0..Want
      /\ rbuf[Src(d)] \in 0..BufCap
      /\ BufCap \in Nat /\ Want \in Nat /\ Dst(d) \in Side
  BY RelayParts, DirTypes, SocketEnds, Zenon
<1>1. /\ pc[d] = "write" /\ n <= left[d] /\ n <= BufCap - sbuf[Dst(d)]
      /\ pipe' = [pipe EXCEPT ![d] = @ - n] /\ sbuf' = [sbuf EXCEPT ![Dst(d)] = @ + n]
      /\ left' = [left EXCEPT ![d] = @ - n] /\ counted' = [counted EXCEPT ![d] = @ + n]
      /\ pc' = [pc EXCEPT ![d] = IF n = left[d] THEN "read" ELSE @]
      /\ UNCHANGED <<phase, pipes, rbuf, readable, writable, shut, peers>>
  BY Zenon DEF Write, Writing, Space
<1>2. left[d] = pipe[d]
  BY <1>0, <1>1, Zenon DEF Carried
<1>3. /\ sbuf[Dst(d)] + n \in 0..BufCap /\ pipe[d] - n \in Nat /\ left[d] - n \in 0..Want
      /\ counted[d] + n \in Nat
  BY <1>0, <1>1, <1>2
<1>4. TypeOK'
  <2>1. sbuf' \in [Side -> 0..BufCap] /\ pipe' \in [Dir -> Nat]
    BY <1>0, <1>1, <1>3, Zenon DEF TypeOK
  <2>2. left' \in [Dir -> 0..Want] /\ counted' \in [Dir -> Nat]
    BY <1>0, <1>1, <1>3, Zenon DEF TypeOK
  <2>3. pc' \in [Dir -> {"read", "write", "ok", "err"}]
    BY <1>0, <1>1, Zenon DEF TypeOK
  <2>. QED
    BY <1>0, <1>1, <2>1, <2>2, <2>3, Zenon DEF TypeOK, pipes, peers
<1>5. /\ pipe'[d] = pipe[d] - n /\ left'[d] = left[d] - n /\ counted'[d] = counted[d] + n
      /\ pc'[d] = (IF n = left[d] THEN "read" ELSE "write")
      /\ \A e \in Dir : e # d => /\ pipe'[e] = pipe[e] /\ left'[e] = left[e]
                                 /\ counted'[e] = counted[e] /\ pc'[e] = pc[e]
  BY <1>0, <1>1, Zenon DEF TypeOK
<1>6. Carried(d)'
  <2>1. written' = written /\ rbuf' = rbuf /\ shut' = shut /\ fin' = fin
    BY <1>1, Zenon DEF peers
  <2>2. written[Src(d)] = rbuf[Src(d)] + pipe[d] + counted[d] /\ ~shut[Dst(d)]
    BY <1>0, <1>1, Zenon DEF Carried
  <2>3. rbuf[Src(d)] + (pipe[d] - n) + (counted[d] + n) = rbuf[Src(d)] + pipe[d] + counted[d]
    BY <1>0
  <2>4. /\ pc'[d] = "write" => left'[d] = pipe'[d]
        /\ pc'[d] # "ok" /\ (pc'[d] = "read" => pipe'[d] = 0)
    BY <1>0, <1>2, <1>5
  <2>5. written'[Src(d)] = rbuf'[Src(d)] + pipe'[d] + counted'[d]
    BY <1>5, <2>1, <2>2, <2>3, Zenon
  <2>. QED
    BY <2>1, <2>2, <2>4, <2>5, Zenon DEF Carried
<1>7. ASSUME NEW e \in Dir, e # d PROVE Carried(e)'
  BY <1>0, <1>1, <1>5, <1>7, CarriedUntouched, Zenon DEF peers
<1>. QED
  BY <1>4, <1>6, <1>7, RelayPartsNext, Zenon

\* A direction comes to its end, by end of stream or by an error.
LEMMA DirectionEnds ==
  ASSUME RelayInv, NEW d \in Dir, ReadEof(d) \/ ReadFails(d) \/ WriteFails(d)
  PROVE  RelayInv'
<1>0. /\ TypeOK /\ Carried(d) /\ \A e \in Dir : Carried(e) /\ Dst(d) \in Side
      /\ rbuf[Src(d)] \in 0..BufCap /\ pipe[d] \in Nat /\ counted[d] \in Nat
  BY RelayParts, DirTypes, SocketEnds, Zenon
<1>1. UNCHANGED <<phase, pipes, left, pipe, counted, rbuf, sbuf, readable, writable, peers>>
  BY Zenon DEF ReadEof, ReadFails, WriteFails
<1>2. CASE ReadEof(d)
  <2>1. /\ pc[d] = "read" /\ rbuf[Src(d)] = 0 /\ fin[Src(d)]
        /\ pc' = [pc EXCEPT ![d] = "ok"] /\ shut' = [shut EXCEPT ![Dst(d)] = TRUE]
    BY <1>2, Zenon DEF ReadEof, Reading
  <2>2. TypeOK'
    <3>1. pc' \in [Dir -> {"read", "write", "ok", "err"}] /\ shut' \in [Side -> BOOLEAN]
      BY <1>0, <2>1, Zenon DEF TypeOK
    <3>. QED
      BY <1>0, <1>1, <3>1, Zenon DEF TypeOK, pipes, peers
  <2>3. /\ pc'[d] = "ok" /\ \A e \in Dir : e # d => pc'[e] = pc[e]
        /\ \A s \in Side : s # Dst(d) => shut'[s] = shut[s]
    BY <1>0, <2>1, Zenon DEF TypeOK
  <2>4. Carried(d)'
    BY <1>0, <1>1, <2>1, <2>3, Zenon DEF Carried, peers
  <2>5. ASSUME NEW e \in Dir, e # d PROVE Carried(e)'
    BY <1>0, <1>1, <2>3, <2>5, SocketEnds, CarriedUntouched, Zenon DEF peers
  <2>. QED
    BY <2>2, <2>4, <2>5, RelayPartsNext, Zenon
<1>3. CASE ReadFails(d) \/ WriteFails(d)
  <2>1. pc[d] \in {"read", "write"} /\ pc' = [pc EXCEPT ![d] = "err"] /\ UNCHANGED shut
    BY <1>3, Zenon DEF ReadFails, WriteFails, Reading, Writing
  <2>2. TypeOK'
    <3>1. pc' \in [Dir -> {"read", "write", "ok", "err"}]
      BY <1>0, <2>1, Zenon DEF TypeOK
    <3>. QED
      BY <1>0, <1>1, <2>1, <3>1, Zenon DEF TypeOK, pipes, peers
  <2>3. pc'[d] = "err" /\ \A e \in Dir : e # d => pc'[e] = pc[e]
    BY <1>0, <2>1, Zenon DEF TypeOK
  <2>4. Carried(d)'
    BY <1>0, <1>1, <2>1, <2>3, Zenon DEF Carried, peers
  <2>5. ASSUME NEW e \in Dir, e # d PROVE Carried(e)'
    BY <1>0, <1>1, <2>1, <2>3, <2>5, CarriedUntouched, Zenon DEF peers
  <2>. QED
    BY <2>2, <2>4, <2>5, RelayPartsNext, Zenon
<1>. QED
  BY <1>2, <1>3, Zenon

\* A step that moves no byte and ends no stream.
LEMMA NothingCarried ==
  ASSUME RelayInv, TypeOK', UNCHANGED <<pc, left, pipe, counted, rbuf, shut, written>>,
         \A s \in Side : fin[s] => fin'[s]
  PROVE  RelayInv'
<1>1. \A d \in Dir : Carried(d) /\ Src(d) \in Side
  BY RelayParts, SocketEnds, Zenon
<1>2. ASSUME NEW d \in Dir PROVE Carried(d)'
  BY <1>1, Zenon DEF Carried
<1>. QED
  BY <1>2, RelayPartsNext, Zenon

\* EAGAIN, the pipes, the join, and a peer that closes, resets or reads.
LEMMA ReadinessStep ==
  ASSUME RelayInv,
         \/ \E d \in Dir : ReadBlocks(d) \/ WriteBlocks(d)
         \/ \E s \in Side : PeerCloses(s) \/ PeerResets(s) \/ PeerReads(s)
         \/ Pipes_new \/ Join
  PROVE  RelayInv'
<1>0. TypeOK
  BY RelayParts, Zenon
<1>1. UNCHANGED <<pc, left, pipe, counted, rbuf, shut, written>>
  BY Zenon DEF ReadBlocks, WriteBlocks, PeerCloses, PeerResets, PeerReads, Pipes_new, PipesMade, FallBack,
         Join, peers
<1>2. ASSUME NEW d \in Dir, ReadBlocks(d) \/ WriteBlocks(d) PROVE RelayInv'
  <2>1. UNCHANGED <<phase, pipes, sbuf, peers>>
    BY <1>2, Zenon DEF ReadBlocks, WriteBlocks
  <2>2. readable' \in [Side -> BOOLEAN] /\ writable' \in [Side -> BOOLEAN]
    <3>1. (fin[Src(d)] \/ reset[Src(d)]) \in BOOLEAN
      BY Zenon
    <3>2. CASE ReadBlocks(d)
      BY <1>0, <3>1, <3>2, Zenon DEF ReadBlocks, TypeOK
    <3>3. CASE WriteBlocks(d)
      BY <1>0, <3>3, Zenon DEF WriteBlocks, TypeOK
    <3>. QED
      BY <1>2, <3>2, <3>3, Zenon
  <2>3. TypeOK'
    BY <1>0, <1>1, <2>1, <2>2, Zenon DEF TypeOK, pipes, peers
  <2>. QED
    BY <1>1, <2>1, <2>3, NothingCarried, Zenon DEF peers
<1>3. ASSUME NEW s \in Side, PeerCloses(s) \/ PeerResets(s) \/ PeerReads(s) PROVE RelayInv'
  <2>1. /\ UNCHANGED <<phase, pipes>> /\ fin' \in [Side -> BOOLEAN] /\ reset' \in [Side -> BOOLEAN]
        /\ \A x \in Side : fin[x] => fin'[x]
    BY <1>0, <1>3, Zenon DEF PeerCloses, PeerResets, PeerReads, TypeOK, peers
  <2>2. readable' \in [Side -> BOOLEAN] /\ writable' \in [Side -> BOOLEAN]
    BY <1>0, <1>3, Zenon DEF PeerCloses, PeerResets, PeerReads, TypeOK
  <2>3. sbuf' \in [Side -> 0..BufCap]
    <3>1. CASE PeerCloses(s) \/ PeerResets(s)
      BY <1>0, <3>1, Zenon DEF PeerCloses, PeerResets, TypeOK
    <3>2. CASE PeerReads(s)
      <4>1. sbuf[s] \in 0..BufCap /\ sbuf[s] > 0 /\ sbuf' = [sbuf EXCEPT ![s] = @ - 1] /\ BufCap \in Nat
        BY <1>0, <3>2, SpliceAssumption, Zenon DEF PeerReads, TypeOK
      <4>2. sbuf[s] - 1 \in 0..BufCap
        BY <4>1
      <4>. QED
        BY <1>0, <4>1, <4>2, Zenon DEF TypeOK
    <3>. QED
      BY <1>3, <3>1, <3>2, Zenon
  <2>4. TypeOK'
    BY <1>0, <1>1, <2>1, <2>2, <2>3, Zenon DEF TypeOK, pipes
  <2>. QED
    BY <1>1, <2>1, <2>4, NothingCarried, Zenon
<1>4. CASE Pipes_new \/ Join
  <2>1. UNCHANGED <<sbuf, readable, writable, peers>>
    BY <1>4, Zenon DEF Pipes_new, PipesMade, FallBack, Join
  <2>2. phase' \in {"relay", "copy", "closed"} /\ chunk' \in 0..Want /\ cap' \in [Dir -> Nat]
    <3>1. CASE FallBack \/ Join
      BY <1>0, <3>1, Zenon DEF FallBack, Join, TypeOK, pipes
    <3>2. ASSUME NEW a \in Granted, NEW b \in Granted, PipesMade(a, b)
          PROVE  phase' = "relay" /\ chunk' \in 0..Want /\ cap' \in [Dir -> Nat]
      <4>1. a \in Nat /\ b \in Nat /\ Want \in Nat
        BY SpliceAssumption, Zenon
      <4>2. Least(Least(a, b), Want) \in 0..Want
        BY <4>1 DEF Least
      <4>. QED
        BY <3>2, <4>1, <4>2, Zenon DEF PipesMade
    <3>. QED
      BY <1>4, <3>1, <3>2, Zenon DEF Pipes_new
  <2>3. TypeOK'
    BY <1>0, <1>1, <2>1, <2>2, Zenon DEF TypeOK, peers
  <2>. QED
    BY <1>1, <2>1, <2>3, NothingCarried, Zenon DEF peers
<1>. QED
  BY <1>2, <1>3, <1>4, Zenon

\* A peer that has not closed writes a byte.
LEMMA PeerWritesStep ==
  ASSUME RelayInv, NEW s \in Side, PeerWrites(s)
  PROVE  RelayInv'
<1>0. TypeOK /\ \A d \in Dir : Carried(d)
  BY RelayParts, Zenon
<1>1. /\ ~fin[s] /\ written[s] < MaxBytes /\ rbuf[s] < BufCap
      /\ written' = [written EXCEPT ![s] = @ + 1] /\ rbuf' = [rbuf EXCEPT ![s] = @ + 1]
      /\ readable' = [readable EXCEPT ![s] = TRUE]
      /\ UNCHANGED <<phase, pipes, pc, left, pipe, counted, sbuf, writable, shut, fin, reset>>
  BY Zenon DEF PeerWrites
<1>2. written[s] + 1 \in 0..MaxBytes /\ rbuf[s] + 1 \in 0..BufCap
  <2>1. written[s] \in 0..MaxBytes /\ rbuf[s] \in 0..BufCap /\ MaxBytes \in Nat /\ BufCap \in Nat
    BY <1>0, SpliceAssumption, Zenon DEF TypeOK
  <2>. QED
    BY <1>1, <2>1
<1>3. TypeOK'
  <2>1. written' \in [Side -> 0..MaxBytes] /\ rbuf' \in [Side -> 0..BufCap]
    BY <1>0, <1>1, <1>2, Zenon DEF TypeOK
  <2>2. readable' \in [Side -> BOOLEAN]
    BY <1>0, <1>1, Zenon DEF TypeOK
  <2>. QED
    BY <1>0, <1>1, <2>1, <2>2, Zenon DEF TypeOK, pipes
<1>4. /\ written'[s] = written[s] + 1 /\ rbuf'[s] = rbuf[s] + 1
      /\ \A x \in Side : x # s => written'[x] = written[x] /\ rbuf'[x] = rbuf[x]
  BY <1>0, <1>1, Zenon DEF TypeOK
<1>5. ASSUME NEW d \in Dir PROVE Carried(d)'
  <2>0. /\ rbuf[Src(d)] \in 0..BufCap /\ pipe[d] \in Nat /\ counted[d] \in Nat /\ Src(d) \in Side
    BY <1>0, DirTypes, SocketEnds, Zenon
  <2>1. CASE Src(d) = s
    <3>1. written[s] = rbuf[s] + pipe[d] + counted[d] /\ ~shut[Dst(d)]
      BY <1>0, <1>1, <2>1, Zenon DEF Carried
    <3>2. (rbuf[s] + 1) + pipe[d] + counted[d] = (rbuf[s] + pipe[d] + counted[d]) + 1
      BY <2>0, <2>1
    <3>3. written'[Src(d)] = rbuf'[Src(d)] + pipe'[d] + counted'[d]
      BY <1>1, <1>4, <2>1, <3>1, <3>2, Zenon
    <3>. QED
      BY <1>0, <1>1, <3>1, <3>3, Zenon DEF Carried
  <2>2. CASE Src(d) # s
    <3>1. written'[Src(d)] = written[Src(d)] /\ rbuf'[Src(d)] = rbuf[Src(d)]
      BY <1>4, <2>0, <2>2, Zenon
    <3>. QED
      BY <1>0, <1>1, <3>1, CarriedUntouched, Zenon
  <2>. QED
    BY <2>1, <2>2, Zenon
<1>. QED
  BY <1>3, <1>5, RelayPartsNext, Zenon

-----------------------------------------------------------------------------
(* The theorems.                                                           *)

ConnInv == RaceInv /\ RelayInv

\* Nothing has happened yet.
LEMMA InvInit == ConnInit => ConnInv
<1>. SUFFICES ASSUME Init, RaceInit PROVE ConnInv
  BY Zenon DEF ConnInit
<1>1. RaceInv
  BY Zenon DEF RaceInit, RaceInv, RaceType, StreamsHeld, OneStreamSurvives
<1>2. TypeOK
  BY SpliceAssumption DEF Init, TypeOK
<1>3. ASSUME NEW d \in Dir PROVE Carried(d)
  BY SocketEnds DEF Init, Carried
<1>. QED
  BY <1>1, <1>2, <1>3, RelayParts, Zenon DEF ConnInv

\* proxy_connection moves no byte while it connects.
LEMMA ConnectingStep ==
  ASSUME ConnInv, Connecting
  PROVE  ConnInv' /\ JudgedFairly
<1>1. RaceInv' /\ JudgedFairly
  BY RaceStep, Zenon DEF Connecting, ConnInv
<1>2. TypeOK
  BY RelayParts, Zenon DEF ConnInv
<1>3. UNCHANGED <<pipes, pc, left, pipe, counted, rbuf, sbuf, readable, writable, shut, peers>>
  BY Zenon DEF Connecting
<1>4. phase' \in {phase, "closed"}
  BY Zenon DEF Connecting
<1>5. TypeOK'
  BY <1>2, <1>3, <1>4, Zenon DEF TypeOK, pipes, peers
<1>6. RelayInv'
  BY <1>3, <1>5, NothingCarried, Zenon DEF ConnInv, peers
<1>. QED
  BY <1>1, <1>6, Zenon DEF ConnInv

\* The relay and the peers leave the race alone.
LEMMA RelayingStep ==
  ASSUME ConnInv, UNCHANGED raceVars,
         \/ \E s \in Side : Peer(s)
         \/ Pipes_new \/ Join \/ \E d \in Dir : splice_dir(d)
  PROVE  ConnInv'
<1>1. RaceInv'
  BY RaceUntouched, Zenon DEF ConnInv
<1>2. RelayInv
  BY Zenon DEF ConnInv
<1>3. ASSUME NEW d \in Dir, splice_dir(d) PROVE RelayInv'
  BY <1>2, <1>3, ReadStep, WriteStep, DirectionEnds, ReadinessStep, Zenon DEF splice_dir
<1>4. ASSUME NEW s \in Side, Peer(s) PROVE RelayInv'
  BY <1>2, <1>4, PeerWritesStep, ReadinessStep, Zenon DEF Peer
<1>. QED
  BY <1>1, <1>2, <1>3, <1>4, ReadinessStep, Zenon DEF ConnInv

\* Every step keeps the invariant and judges the race fairly.
LEMMA InvStep == ConnInv /\ [ConnNext]_connVars => ConnInv' /\ [JudgedFairly]_raceVars
<1>. SUFFICES ASSUME ConnInv, [ConnNext]_connVars PROVE ConnInv' /\ [JudgedFairly]_raceVars
  BY Zenon
<1>1. CASE Connecting
  BY <1>1, ConnectingStep, Zenon
<1>2. ASSUME NEW s \in Side, PeerActs(s) PROVE ConnInv' /\ UNCHANGED raceVars
  BY <1>2, RelayingStep, Zenon DEF PeerActs
<1>3. CASE Relaying(Pipes_new) \/ Relaying(Join) \/ \E d \in Dir : Relaying(splice_dir(d))
  BY <1>3, RelayingStep, Zenon DEF Relaying
<1>4. CASE UNCHANGED connVars
  <2>1. UNCHANGED raceVars /\ UNCHANGED vars
    BY <1>4 DEF connVars
  <2>2. TypeOK /\ RelayInv /\ RaceInv
    BY RelayParts DEF ConnInv
  <2>3. TypeOK'
    BY <2>1, <2>2 DEF vars, TypeOK, pipes, peers
  <2>4. RelayInv'
    BY <2>1, <2>2, <2>3, NothingCarried DEF vars, peers
  <2>. QED
    BY <2>1, <2>2, <2>4, RaceUntouched, Zenon DEF ConnInv
<1>. QED
  BY <1>1, <1>2, <1>3, <1>4, Zenon DEF ConnNext

\* ConnInv holds throughout.
THEOREM ConnInvariance == ConnSpec => []ConnInv
<1>. QED
  BY InvInit, InvStep, PTL DEF ConnSpec

\* Every variable of the relay keeps its type: no buffer overflows, and no chunk
\* exceeds what was asked for.
THEOREM TypeCorrect == ConnSpec => []TypeOK
<1>1. ConnInv => TypeOK
  BY DEF ConnInv, RelayInv
<1>. QED
  BY <1>1, ConnInvariance, PTL

\* Whatever the pipe and buffer sizes, and however reads, writes, closes and resets
\* interleave, the relay delivers a prefix of each stream, counts what it delivers
\* and passes an end of stream on only after the last byte.
THEOREM RelayFaithful == ConnSpec => []StreamIntact
<1>1. ConnInv => StreamIntact
  <2>. SUFFICES ASSUME ConnInv PROVE StreamIntact
    OBVIOUS
  <2>1. BytesConserved /\ TypeOK /\ \A d \in Dir : Carried(d)
    BY RelayParts DEF ConnInv, RelayInv
  <2>2. ASSUME NEW d \in Dir, shut[Dst(d)] PROVE fin[Src(d)] /\ counted[d] = written[Src(d)]
    <3>1. pipe[d] = 0 /\ rbuf[Src(d)] = 0 /\ fin[Src(d)] /\ counted[d] \in Nat
      <4>1. Carried(d) /\ counted[d] \in Nat
        BY <2>1, DirTypes
      <4>. QED
        BY <2>2, <4>1 DEF Carried
    <3>. QED
      BY <2>1, <3>1 DEF BytesConserved
  <2>. QED
    BY <2>1, <2>2 DEF StreamIntact, EofComesLast
<1>. QED
  BY <1>1, ConnInvariance, PTL

\* Whatever number of attempts had succeeded by then or are ahead of their abort, a
\* race that is won leaves the connection's stream and those of the attempts still
\* being aborted, and a race that is lost leaves none.
THEOREM RaceLeavesOne == ConnSpec => []OneStreamSurvives
<1>1. ConnInv => OneStreamSurvives
  BY DEF ConnInv, RaceInv
<1>. QED
  BY <1>1, ConnInvariance, PTL

\* The race is won if and only if some address accepts in time, at the earliest
\* moment the staggered starts allow; it is lost when the last attempt has ended.
THEOREM RaceIsFair == ConnSpec => FirstAnswerWins
<1>1. ConnInv /\ [ConnNext]_connVars => [JudgedFairly]_raceVars
  BY InvStep
<1>2. [JudgedFairly]_raceVars =>
        [/\ race = "racing" /\ race' = "won" => Good # {} /\ now = Soonest
         /\ race = "racing" /\ race' = "failed" => Good = {} /\ now = Latest]_raceVars
  BY DEF JudgedFairly
<1>. QED
  BY <1>1, <1>2, ConnInvariance, PTL DEF ConnSpec, FirstAnswerWins
=============================================================================
