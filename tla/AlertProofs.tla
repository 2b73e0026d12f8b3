----------------------------- MODULE AlertProofs -----------------------------
(***************************************************************************)
(* Proofs about the two ends of an alert: the target monitors that raise   *)
(* it, and the notifier that admits, queues and posts it.                  *)
(*                                                                         *)
(* MonitorSpec is run_monitor for either protocol.  AlertsAlternate and    *)
(* GaugeFollowsOutage are inductive with the types; NoFalseAlarm also      *)
(* needs that an outage is never older than the monitor's last sign of     *)
(* life.  RecoveryNeedsEvidence needs that the recorded reply a verdict of *)
(* up rests on was a reply indeed, which the two racing marks put at risk: *)
(* see EvidenceInv.                                                        *)
(*                                                                         *)
(* For the notifier (Spec), the counting invariants need to know when the  *)
(* worker holds an event, and the throttle invariant how an entry's age    *)
(* follows the time since its key was last admitted.                       *)
(***************************************************************************)
EXTENDS UdpMonitor, Notifier, TLAPS

-----------------------------------------------------------------------------
(***************************************************************************)
(* The notifier.                                                           *)
(***************************************************************************)

\* The worker holds an event exactly while process() runs, and sleeps between
\* attempts only when one is left.
HandMatches ==
  /\ worker = "recv" => hand = EmptyHand
  /\ worker \in {"pacing", "posting", "backoff"} => hand.event \in Event
  /\ worker = "backoff" => attempt < MaxAttempts

\* An entry is as old as the last admission of its key, as far as the window
\* goes: prune drops an entry only when its window has passed.
AgesMatch ==
  \A k \in Key : admitAge[k] = IF entries[k].age < Window[k]
                                  THEN entries[k].age ELSE Window[k]

\* TypeOK in parts: control, numbers, and structured values.
ControlType ==
  /\ closed \in BOOLEAN /\ cancel \in BOOLEAN /\ flushing \in BOOLEAN
  /\ worker \in Pcs /\ main \in {"run", "flushing", "returned", "exited"}
NumberType ==
  /\ attempt \in 0..MaxAttempts /\ delay \in Nat
  /\ lastSend \in 0..Spacing /\ grace \in 0..Flush
  /\ raised \in Nat /\ sent \in Nat /\ failed \in Nat /\ dropped \in Nat
  /\ suppressed \in Nat
QueueType == queue \in Seq(Event) /\ Len(queue) <= Capacity
HandType == hand \in [event : Event \cup {NoEvent}, count : Nat]
KeyType == /\ entries \in [Key -> Entry] /\ told \in [Key -> Nat]
           /\ folded \in [Key -> Nat] /\ admitAge \in [Key -> Nat]

NotifierInv == /\ TypeOK /\ HandMatches /\ EveryEventCounted
               /\ FoldedAtMostOnce /\ AgesMatch

\* The stand-ins for no event and no key are no event and no key.
LEMMA Distinct == NoEvent \notin Event /\ NoEvent \notin Key /\ Unkeyed \notin Key
  BY NotifierAssumption, Zenon DEF Event

\* What the assumption on the constants gives the arithmetic of the windows.
LEMMA Numbers ==
  /\ Capacity \in Nat /\ MaxAttempts \in Nat /\ MaxAttempts >= 1
  /\ MaxIdle \in Nat /\ Spacing \in Nat /\ Flush \in Nat
  BY NotifierAssumption

\* TypeOK by its parts.
LEMMA TypeParts ==
  /\ TypeOK = (ControlType /\ NumberType /\ QueueType /\ HandType /\ KeyType)
  /\ TypeOK' = (ControlType' /\ NumberType' /\ QueueType' /\ HandType' /\ KeyType')
BY Zenon DEF TypeOK, ControlType, NumberType, QueueType, HandType, KeyType

-----------------------------------------------------------------------------
(* The throttle's operators.                                               *)

\* prune and admit keep the table of entries well typed.
LEMMA ThrottleTypes ==
  ASSUME entries \in [Key -> Entry]
  PROVE  /\ \A es \in [Key -> Entry] : Pruned(es) \in [Key -> Entry]
         /\ \A k \in Key : Admitted(k) \in [Key -> Entry]
<1>1. Unknown \in Entry /\ [age |-> 0, suppressed |-> 0] \in Entry
  BY NotifierAssumption DEF Unknown, Entry
<1> QED BY <1>1, Zenon DEF Pruned, Admitted

\* What prune leaves of an entry.
LEMMA PrunedEntry ==
  ASSUME NEW es \in [Key -> Entry], NEW k \in Key
  PROVE  \/ Pruned(es)[k] = es[k]
         \/ /\ Pruned(es)[k].age = MaxIdle /\ Pruned(es)[k].suppressed = 0
            /\ es[k].age = MaxIdle
BY NotifierAssumption DEF Pruned, Unknown, Entry

\* What admit leaves of an entry.
LEMMA AdmittedEntry ==
  ASSUME NEW j \in Key, NEW k \in Key, entries \in [Key -> Entry]
  PROVE  /\ j # k => Admitted(j)[k] = entries[k]
         /\ Admitted(k)[k].age = 0
         /\ Admitted(k)[k].suppressed = 0
BY Zenon DEF Admitted

\* A second passing makes an entry older, up to the pruning age.
LEMMA TickEntry ==
  ASSUME NEW e \in Entry
  PROVE  LET t == [e EXCEPT !.age = Older(@, MaxIdle)]
         IN  /\ t \in Entry /\ t.suppressed = e.suppressed
             /\ t.age = Older(e.age, MaxIdle)
BY NotifierAssumption DEF Entry, Older

-----------------------------------------------------------------------------
(* The inductive invariant.                                                *)

\* The notifier starts in NotifierInv.
LEMMA InitInv == Init => NotifierInv
<1> SUFFICES ASSUME Init PROVE NotifierInv
  BY Zenon
<1>1. queue \in Seq(Event) /\ Len(queue) = 0
  BY DEF Init
<1>2. entries \in [Key -> Entry]
  BY NotifierAssumption DEF Init, Unknown, Entry
<1>3. hand \in [event : Event \cup {NoEvent}, count : Nat]
  BY Zenon DEF Init, EmptyHand
<1>10. told \in [Key -> Nat] /\ folded \in [Key -> Nat] /\ admitAge \in [Key -> Nat]
  BY NotifierAssumption, Zenon DEF Init
<1>11. /\ attempt \in 0..MaxAttempts /\ lastSend \in 0..Spacing
       /\ grace \in 0..Flush
       /\ Len(queue) <= Capacity /\ delay \in Nat
       /\ raised \in Nat /\ sent \in Nat /\ failed \in Nat /\ dropped \in Nat
       /\ suppressed \in Nat
  BY <1>1, NotifierAssumption DEF Init
<1>4. TypeOK
  BY <1>1, <1>2, <1>3, <1>10, <1>11, Zenon DEF Init, TypeOK, Pcs
<1>5. HandMatches
  BY Zenon DEF Init, HandMatches
<1>6. EveryEventCounted
  BY <1>1 DEF Init, EveryEventCounted, InHand, EmptyHand
<1>7. ASSUME NEW k \in Key
      PROVE  told[k] = 0 /\ folded[k] = 0 /\ entries[k].suppressed = 0
  BY Zenon DEF Init, Unknown
<1>12. \A k \in Key : hand.event # k
  BY Distinct, Zenon DEF Init, EmptyHand
<1>13. FoldedAtMostOnce
  <2> SUFFICES ASSUME NEW k \in Key
               PROVE  told[k] + entries[k].suppressed
                        + (IF hand.event = k THEN hand.count ELSE 0) <= folded[k]
    BY Zenon DEF FoldedAtMostOnce
  <2>1. told[k] = 0 /\ folded[k] = 0 /\ entries[k].suppressed = 0 /\ hand.event # k
    BY <1>7, <1>12, Zenon
  <2> QED BY <2>1
<1>8. ASSUME NEW k \in Key
      PROVE  entries[k].age = MaxIdle /\ admitAge[k] = Window[k] /\ Window[k] <= MaxIdle
             /\ Window[k] \in Nat /\ MaxIdle \in Nat
  BY NotifierAssumption, Zenon DEF Init, Unknown
<1>9. AgesMatch
  <2> SUFFICES ASSUME NEW k \in Key
               PROVE  admitAge[k] = IF entries[k].age < Window[k]
                                      THEN entries[k].age ELSE Window[k]
    BY Zenon DEF AgesMatch
  <2>1. entries[k].age = MaxIdle /\ admitAge[k] = Window[k] /\ Window[k] <= MaxIdle
        /\ Window[k] \in Nat /\ MaxIdle \in Nat
    BY <1>8, Zenon
  <2> QED BY <2>1
<1> QED BY <1>4, <1>5, <1>6, <1>13, <1>9, Zenon DEF NotifierInv

\* Facts about the head of a queue of events.
LEMMA HeadTail ==
  ASSUME queue \in Seq(Event), queue # <<>>
  PROVE  /\ Head(queue) \in Event /\ Tail(queue) \in Seq(Event)
         /\ Len(Tail(queue)) = Len(queue) - 1 /\ Len(queue) \in Nat
OBVIOUS

\* try_send either queues the event or counts it as dropped.
LEMMA NotifyInv == ASSUME NotifierInv, NEW e \in Event, Notify(e) PROVE NotifierInv'
<1>0. /\ ControlType /\ NumberType /\ QueueType /\ HandType /\ KeyType
      /\ HandMatches /\ EveryEventCounted /\ FoldedAtMostOnce /\ AgesMatch
  BY TypeParts, Zenon DEF NotifierInv
<1>1. Len(queue) \in Nat /\ Append(queue, e) \in Seq(Event)
      /\ Len(Append(queue, e)) = Len(queue) + 1
  BY <1>0 DEF QueueType
<1>2. QueueType'
  <2>1. queue \in Seq(Event) /\ Len(queue) <= Capacity /\ Capacity \in Nat
    BY <1>0, Numbers, Zenon DEF QueueType
  <2>2. CASE Len(queue) < Capacity /\ ~closed
    <3>1. queue' = Append(queue, e)
      BY <2>2, Zenon DEF Notify
    <3> QED BY <1>1, <2>1, <2>2, <3>1 DEF QueueType
  <2>3. CASE ~(Len(queue) < Capacity /\ ~closed)
    <3>1. queue' = queue
      BY <2>3, Zenon DEF Notify
    <3> QED BY <2>1, <3>1, Zenon DEF QueueType
  <2> QED BY <2>2, <2>3, Zenon
<1>3. ControlType' /\ HandType' /\ KeyType'
  BY <1>0, Zenon DEF Notify, ControlType, HandType, KeyType, delivery, history, shutdown
<1>4. NumberType'
  BY <1>0 DEF Notify, NumberType, delivery, history, shutdown
<1>5. HandMatches'
  BY <1>0, Zenon DEF Notify, HandMatches, delivery
<1>6. InHand' = InHand /\ InHand \in Nat
  BY Zenon DEF Notify, InHand, delivery
<1>7. EveryEventCounted'
  <2>1. raised' = raised + 1 /\ sent' = sent /\ failed' = failed
        /\ suppressed' = suppressed
    BY Zenon DEF Notify
  <2>4. \/ Len(queue') = Len(queue) + 1 /\ dropped' = dropped
        \/ Len(queue') = Len(queue) /\ dropped' = dropped + 1
    BY <1>1, Zenon DEF Notify
  <2>2. /\ raised = sent + failed + dropped + suppressed + Len(queue) + InHand
        /\ raised \in Nat /\ sent \in Nat /\ failed \in Nat /\ dropped \in Nat
        /\ suppressed \in Nat /\ Len(queue) \in Nat
    BY <1>0, <1>1, Zenon DEF EveryEventCounted, NumberType
  <2>3. raised + 1 = sent + failed + dropped + suppressed + (Len(queue) + 1) + InHand
        /\ raised + 1 = sent + failed + (dropped + 1) + suppressed + Len(queue) + InHand
    BY <1>6, <2>2
  <2>5. CASE Len(queue') = Len(queue) + 1 /\ dropped' = dropped
    BY <1>6, <2>1, <2>3, <2>5, Zenon DEF EveryEventCounted
  <2>6. CASE Len(queue') = Len(queue) /\ dropped' = dropped + 1
    BY <1>6, <2>1, <2>3, <2>6, Zenon DEF EveryEventCounted
  <2> QED BY <2>4, <2>5, <2>6, Zenon
<1>8. FoldedAtMostOnce' /\ AgesMatch'
  BY <1>0, Zenon DEF Notify, FoldedAtMostOnce, AgesMatch, delivery, history
<1> QED BY <1>2, <1>3, <1>4, <1>5, <1>7, <1>8, TypeParts, Zenon DEF NotifierInv

\* An event within the window of its key adds to the count of the summary.
LEMMA SuppressInv == ASSUME NotifierInv, Suppress PROVE NotifierInv'
<1>0. /\ ControlType /\ NumberType /\ QueueType /\ HandType /\ KeyType
      /\ HandMatches /\ EveryEventCounted /\ FoldedAtMostOnce /\ AgesMatch
  BY TypeParts, Zenon DEF NotifierInv
<1> DEFINE k == Head(queue)
<1>1. queue \in Seq(Event) /\ queue # <<>> /\ k \in Key /\ entries \in [Key -> Entry]
      /\ folded \in [Key -> Nat]
  BY <1>0, Zenon DEF Suppress, Receives, QueueType, KeyType
<1>2. /\ Tail(queue) \in Seq(Event)
      /\ Len(Tail(queue)) = Len(queue) - 1 /\ Len(queue) \in Nat
  BY <1>1, HeadTail, Zenon
<1> HIDE DEF k
<1>3. entries' = [entries EXCEPT ![k] = [entries[k] EXCEPT !.suppressed = @ + 1]]
      /\ folded' = [folded EXCEPT ![k] = @ + 1]
  BY Zenon DEF Suppress, k
<1>4. ASSUME NEW e \in Entry
      PROVE  LET t == [e EXCEPT !.suppressed = @ + 1]
             IN  /\ t \in Entry /\ t.age = e.age
                 /\ t.suppressed = e.suppressed + 1
  BY DEF Entry
<1>5. /\ entries' \in [Key -> Entry] /\ folded' \in [Key -> Nat]
      /\ \A j \in Key : entries'[j].age = entries[j].age
      /\ \A j \in Key : j # k => entries'[j].suppressed = entries[j].suppressed
                                 /\ folded'[j] = folded[j]
      /\ entries'[k].suppressed = entries[k].suppressed + 1
      /\ folded'[k] = folded[k] + 1
  BY <1>1, <1>3, <1>4
<1>6. QueueType' /\ KeyType'
  <2>1. queue' = Tail(queue) /\ UNCHANGED <<told, admitAge>>
    BY Zenon DEF Suppress
  <2>2. QueueType'
    BY <1>0, <1>2, <2>1, Numbers DEF QueueType
  <2>3. KeyType'
    BY <1>0, <1>5, <2>1, Zenon DEF KeyType
  <2> QED BY <2>2, <2>3, Zenon
<1>7. ControlType' /\ NumberType' /\ HandType' /\ HandMatches'
  BY <1>0 DEF Suppress, ControlType, NumberType, HandType, HandMatches, delivery, shutdown
<1>8. InHand' = InHand /\ InHand \in Nat
  BY Zenon DEF Suppress, InHand, delivery
<1>9. EveryEventCounted'
  <2>1. suppressed' = suppressed + 1 /\ queue' = Tail(queue)
        /\ UNCHANGED <<raised, sent, failed, dropped>>
    BY Zenon DEF Suppress
  <2> QED BY <1>0, <1>2, <1>8, <2>1 DEF EveryEventCounted, NumberType
<1>10. FoldedAtMostOnce'
  <2> SUFFICES ASSUME NEW j \in Key
               PROVE  told[j] + entries'[j].suppressed
                        + (IF hand.event = j THEN hand.count ELSE 0) <= folded'[j]
    BY Zenon DEF Suppress, FoldedAtMostOnce, delivery
  <2>1. told[j] + entries[j].suppressed
          + (IF hand.event = j THEN hand.count ELSE 0) <= folded[j]
    BY <1>0, Zenon DEF FoldedAtMostOnce
  <2>2. /\ entries[j].suppressed \in Nat /\ folded[j] \in Nat /\ told[j] \in Nat
        /\ hand.count \in Nat
    BY <1>0, Zenon DEF KeyType, Entry, HandType
  <2> QED BY <1>5, <2>1, <2>2
<1>11. AgesMatch'
  BY <1>0, <1>5, Zenon DEF Suppress, AgesMatch
<1> QED BY <1>6, <1>7, <1>9, <1>10, <1>11, TypeParts, Zenon DEF NotifierInv

\* What an admission does to the throttle, for a keyed event and for another.
LEMMA AdmitEntries ==
  ASSUME entries \in [Key -> Entry], admitAge \in [Key -> Nat], Admit, Head(queue) \in Event
  PROVE  /\ entries' \in [Key -> Entry] /\ admitAge' \in [Key -> Nat]
         /\ hand' \in [event : Event, count : Nat] /\ hand'.event = Head(queue)
         /\ \A k \in Key :
              /\ k = Head(queue) =>
                   /\ entries'[k].age = 0 /\ entries'[k].suppressed = 0
                   /\ admitAge'[k] = 0 /\ hand'.count = entries[k].suppressed
              /\ k # Head(queue) =>
                   /\ admitAge'[k] = admitAge[k]
                   /\ \/ entries'[k] = entries[k]
                      \/ /\ entries'[k].age = MaxIdle /\ entries'[k].suppressed = 0
                         /\ entries[k].age = MaxIdle
<1> DEFINE e == Head(queue)
<1>1. ASSUME NEW k \in Key PROVE entries[k].suppressed \in Nat
  BY Zenon DEF Entry
<1>2. CASE /\ e \in Key
           /\ hand' = [event |-> e, count |-> entries[e].suppressed]
           /\ entries' = Pruned(Admitted(e)) /\ admitAge' = [admitAge EXCEPT ![e] = 0]
  <2>1. Admitted(e) \in [Key -> Entry] /\ Pruned(Admitted(e)) \in [Key -> Entry]
    BY <1>2, ThrottleTypes, Zenon
  <2>2. ASSUME NEW k \in Key
        PROVE  /\ \/ entries'[k] = Admitted(e)[k]
                  \/ /\ entries'[k].age = MaxIdle /\ entries'[k].suppressed = 0
                     /\ Admitted(e)[k].age = MaxIdle
               /\ e # k => Admitted(e)[k] = entries[k]
               /\ Admitted(e)[e].age = 0 /\ Admitted(e)[e].suppressed = 0
    BY <1>2, <2>1, PrunedEntry, AdmittedEntry, Zenon
  <2> QED BY <1>1, <1>2, <2>1, <2>2, Zenon
<1>3. CASE /\ e = Unkeyed /\ hand' = [event |-> e, count |-> 0]
           /\ entries' = Pruned(entries) /\ UNCHANGED admitAge
  <2>1. Pruned(entries) \in [Key -> Entry]
    BY ThrottleTypes, Zenon
  <2> QED BY <1>3, <2>1, PrunedEntry, Distinct, Zenon
<1> QED BY <1>2, <1>3, Zenon DEF Admit

\* An event let through opens its window and evicts what has expired.
LEMMA AdmitInv == ASSUME NotifierInv, Admit PROVE NotifierInv'
<1>0. /\ ControlType /\ NumberType /\ QueueType /\ HandType /\ KeyType
      /\ HandMatches /\ EveryEventCounted /\ FoldedAtMostOnce /\ AgesMatch
  BY TypeParts, Zenon DEF NotifierInv
<1> DEFINE e == Head(queue)
<1>1. /\ queue \in Seq(Event) /\ queue # <<>> /\ entries \in [Key -> Entry]
      /\ hand.event = NoEvent /\ admitAge \in [Key -> Nat]
  BY <1>0 DEF Admit, Receives, QueueType, KeyType, HandMatches, EmptyHand
<1>2. /\ e \in Event /\ Tail(queue) \in Seq(Event)
      /\ Len(Tail(queue)) = Len(queue) - 1 /\ Len(queue) \in Nat
  BY <1>1, HeadTail, Zenon
<1>3. /\ entries' \in [Key -> Entry] /\ admitAge' \in [Key -> Nat]
      /\ hand' \in [event : Event, count : Nat] /\ hand'.event = e
  BY <1>1, <1>2, AdmitEntries, Zenon
<1>4. queue' = Tail(queue) /\ worker' = "pacing"
      /\ UNCHANGED <<closed, cancel, flushing, attempt, delay, lastSend, counters,
                     told, folded, shutdown>>
  BY Zenon DEF Admit
<1>5. KeyType' /\ QueueType' /\ HandType'
  BY <1>0, <1>2, <1>3, <1>4, Numbers DEF KeyType, QueueType, HandType
<1>6. ControlType' /\ NumberType' /\ HandMatches'
  BY <1>0, <1>3, <1>4, Zenon DEF ControlType, NumberType, HandMatches, Pcs, shutdown, counters
<1>7. EveryEventCounted'
  <2>1. InHand = 0 /\ InHand' = 1
    BY <1>1, <1>3, Distinct, Zenon DEF InHand
  <2> QED BY <1>0, <1>2, <1>4, <2>1 DEF EveryEventCounted, counters, NumberType
<1>8. ASSUME NEW k \in Key
      PROVE  /\ told[k] + entries'[k].suppressed
                  + (IF hand'.event = k THEN hand'.count ELSE 0) <= folded[k]
             /\ admitAge'[k] = IF entries'[k].age < Window[k]
                                 THEN entries'[k].age ELSE Window[k]
  <2>1. /\ k = e => /\ entries'[k].age = 0 /\ entries'[k].suppressed = 0
                    /\ admitAge'[k] = 0 /\ hand'.count = entries[k].suppressed
        /\ k # e => /\ admitAge'[k] = admitAge[k]
                    /\ \/ entries'[k] = entries[k]
                       \/ /\ entries'[k].age = MaxIdle /\ entries'[k].suppressed = 0
                          /\ entries[k].age = MaxIdle
    BY <1>1, <1>2, AdmitEntries, Zenon
  <2>3. /\ Window[k] \in Nat /\ Window[k] <= MaxIdle /\ MaxIdle \in Nat
        /\ entries[k].suppressed \in Nat /\ told[k] \in Nat /\ folded[k] \in Nat
        /\ entries[k].age \in Nat
    BY <1>0, NotifierAssumption DEF KeyType, Entry
  <2>2. /\ told[k] + entries[k].suppressed <= folded[k]
        /\ admitAge[k] = IF entries[k].age < Window[k] THEN entries[k].age ELSE Window[k]
    <3>1. told[k] + entries[k].suppressed
            + (IF hand.event = k THEN hand.count ELSE 0) <= folded[k]
      BY <1>0, Zenon DEF FoldedAtMostOnce
    <3>2. hand.event # k
      BY <1>1, Distinct, Zenon
    <3> QED BY <1>0, <2>3, <3>1, <3>2 DEF AgesMatch
  <2> QED BY <1>3, <2>1, <2>2, <2>3
<1>9. FoldedAtMostOnce' /\ AgesMatch'
  BY <1>4, <1>8, Zenon DEF FoldedAtMostOnce, AgesMatch
<1> QED BY <1>5, <1>6, <1>7, <1>9, TypeParts, Zenon DEF NotifierInv

\* process() returns: the hand is empty again.
LEMMA DeliveryInv ==
  ASSUME NotifierInv, Delivered \/ Refused PROVE NotifierInv'
<1>0. /\ ControlType /\ NumberType /\ QueueType /\ HandType /\ KeyType
      /\ HandMatches /\ EveryEventCounted /\ FoldedAtMostOnce /\ AgesMatch
  BY TypeParts, Zenon DEF NotifierInv
<1>1. /\ worker = "posting" /\ hand.event \in Event /\ hand.event # NoEvent
      /\ hand.count \in Nat /\ Len(queue) \in Nat
  BY <1>0, Distinct DEF Delivered, Refused, HandMatches, HandType, QueueType
<1>2. /\ hand' \in [event : Event \cup {NoEvent}, count : Nat]
      /\ hand'.event = NoEvent /\ hand' = EmptyHand /\ worker' = "recv"
      /\ attempt' = 0 /\ delay' = 0
  BY DEF Delivered, Refused, Done, EmptyHand
<1>3. told' \in [Key -> Nat]
  <2>1. \A k \in Key : told[k] + hand.count \in Nat
    BY <1>0, <1>1 DEF KeyType
  <2> QED BY <1>0, <2>1, Zenon DEF Delivered, Refused, KeyType, history
<1>9. ControlType' /\ QueueType' /\ HandType' /\ KeyType'
  BY <1>0, <1>2, <1>3, Zenon DEF Delivered, Refused, ControlType, QueueType, HandType, KeyType,
     Pcs, shutdown, history
<1>4. NumberType'
  BY <1>0, <1>2, Numbers DEF Delivered, Refused, NumberType, shutdown, history
<1>5. HandMatches'
  BY <1>2, Zenon DEF HandMatches
<1>6. EveryEventCounted'
  <2>1. InHand = 1 /\ InHand' = 0
    BY <1>1, <1>2, Zenon DEF InHand
  <2>2. /\ raised' = raised /\ dropped' = dropped /\ suppressed' = suppressed
        /\ queue' = queue
        /\ \/ sent' = sent + 1 /\ failed' = failed
           \/ sent' = sent /\ failed' = failed + 1
    BY Zenon DEF Delivered, Refused
  <2>3. /\ raised = sent + failed + dropped + suppressed + Len(queue) + InHand
        /\ raised \in Nat /\ sent \in Nat /\ failed \in Nat /\ dropped \in Nat
        /\ suppressed \in Nat /\ Len(queue) \in Nat
    BY <1>0, <1>1, Zenon DEF EveryEventCounted, NumberType
  <2>4. raised' = sent' + failed' + dropped' + suppressed' + Len(queue') + InHand'
    BY <2>1, <2>2, <2>3
  <2> QED BY <2>4, Zenon DEF EveryEventCounted
<1>7. FoldedAtMostOnce'
  <2> SUFFICES ASSUME NEW k \in Key
               PROVE  told'[k] + entries'[k].suppressed
                        + (IF hand'.event = k THEN hand'.count ELSE 0) <= folded'[k]
    BY Zenon DEF FoldedAtMostOnce
  <2>1. /\ told[k] \in Nat /\ entries[k].suppressed \in Nat /\ folded[k] \in Nat
        /\ entries' = entries /\ folded' = folded /\ hand'.event # k
    BY <1>0, <1>2, Distinct, Zenon DEF KeyType, Entry, Delivered, Refused, history
  <2>2. told'[k] = told[k] \/ (hand.event = k /\ told'[k] = told[k] + hand.count)
    BY <1>0, <1>1, Zenon DEF Delivered, Refused, KeyType, history
  <2>3. told[k] + entries[k].suppressed
          + (IF hand.event = k THEN hand.count ELSE 0) <= folded[k]
    BY <1>0, Zenon DEF FoldedAtMostOnce
  <2> QED BY <1>1, <2>1, <2>2, <2>3
<1>8. AgesMatch'
  BY <1>0, Zenon DEF Delivered, Refused, AgesMatch, history
<1> QED BY <1>4, <1>5, <1>6, <1>7, <1>8, <1>9, TypeParts, Zenon DEF NotifierInv

\* Time ages every window by one.
LEMMA TickInv == ASSUME NotifierInv, Tick PROVE NotifierInv'
<1>0. /\ ControlType /\ NumberType /\ QueueType /\ HandType /\ KeyType
      /\ HandMatches /\ EveryEventCounted /\ FoldedAtMostOnce /\ AgesMatch
  BY TypeParts, Zenon DEF NotifierInv
<1>1. \A k \in Key :
        /\ entries'[k] \in Entry /\ entries[k] \in Entry
        /\ entries'[k].suppressed = entries[k].suppressed
        /\ entries'[k].age = Older(entries[k].age, MaxIdle)
  <2> SUFFICES ASSUME NEW k \in Key
               PROVE  /\ entries'[k] \in Entry /\ entries[k] \in Entry
                      /\ entries'[k].suppressed = entries[k].suppressed
                      /\ entries'[k].age = Older(entries[k].age, MaxIdle)
    BY Zenon
  <2>1. entries'[k] = [entries[k] EXCEPT !.age = Older(@, MaxIdle)]
    BY Zenon DEF Tick
  <2>2. entries[k] \in Entry
    BY <1>0, Zenon DEF KeyType
  <2> QED BY <2>1, <2>2, TickEntry, Zenon
<1>2. entries' \in [Key -> Entry]
  BY <1>1, Zenon DEF Tick
<1>3. \A k \in Key : admitAge'[k] = Older(admitAge[k], Window[k])
      /\ admitAge[k] \in Nat /\ Window[k] \in Nat /\ Window[k] <= MaxIdle
      /\ MaxIdle \in Nat
  BY <1>0, NotifierAssumption, Zenon DEF Tick, KeyType
<1>4. admitAge' \in [Key -> Nat]
  <2>1. \A k \in Key : Older(admitAge[k], Window[k]) \in Nat
    BY <1>3 DEF Older
  <2> QED BY <2>1, Zenon DEF Tick
<1>5. /\ delay' \in Nat /\ grace' \in 0..Flush
      /\ lastSend' \in 0..Spacing
  BY <1>0, Numbers DEF Tick, NumberType, Older
<1>6. ControlType' /\ NumberType' /\ QueueType' /\ HandType' /\ KeyType'
  <2>1. UNCHANGED <<queue, closed, cancel, worker, flushing, hand, attempt, counters,
                    told, folded, main>>
    BY Zenon DEF Tick
  <2>2. ControlType' /\ HandType' /\ QueueType'
    BY <1>0, <2>1, Zenon DEF ControlType, HandType, QueueType
  <2>3. NumberType'
    BY <1>0, <1>5, <2>1, Zenon DEF NumberType, counters
  <2>4. KeyType'
    BY <1>0, <1>2, <1>4, <2>1, Zenon DEF KeyType
  <2> QED BY <2>2, <2>3, <2>4, Zenon
<1>7. HandMatches' /\ EveryEventCounted'
  BY <1>0, Zenon DEF Tick, HandMatches, EveryEventCounted, InHand, counters
<1>8. FoldedAtMostOnce'
  BY <1>0, <1>1, Zenon DEF Tick, FoldedAtMostOnce
<1>9. AgesMatch'
  <2> SUFFICES ASSUME NEW k \in Key
               PROVE  admitAge'[k] = IF entries'[k].age < Window[k]
                                         THEN entries'[k].age ELSE Window[k]
    BY Zenon DEF AgesMatch
  <2>1. entries[k].age \in 0..MaxIdle
    BY <1>1, Zenon DEF Entry
  <2>2. admitAge[k] = IF entries[k].age < Window[k] THEN entries[k].age ELSE Window[k]
    BY <1>0, Zenon DEF AgesMatch
  <2> QED BY <1>1, <1>3, <2>1, <2>2 DEF Older
<1> QED BY <1>6, <1>7, <1>8, <1>9, TypeParts, Zenon DEF NotifierInv

\* The steps of deliver that end nothing, and those of the flush.
DeliverStep == Post \/ RetryLater \/ Retry
FlushStep == CloseQueue \/ FlushEnds
EndStep == ShutdownBegins \/ ShutdownFlushed \/ ShutdownExpires \/ Exit \/ UNCHANGED vars

\* These steps change neither entries nor what is counted.
LEMMA OtherInv ==
  ASSUME NotifierInv, DeliverStep \/ FlushStep \/ EndStep
  PROVE  NotifierInv'
<1>0. /\ ControlType /\ NumberType /\ QueueType /\ HandType /\ KeyType
      /\ HandMatches /\ EveryEventCounted /\ FoldedAtMostOnce /\ AgesMatch
  BY TypeParts, Zenon DEF NotifierInv
<1> USE DEF delivery, history, shutdown, counters, vars
<1>1. UNCHANGED <<queue, hand, counters, entries, told, folded, admitAge>>
  <2>1. CASE DeliverStep
    BY <2>1, Zenon DEF DeliverStep, Post, RetryLater, Retry
  <2>2. CASE FlushStep
    BY <2>2, Zenon DEF FlushStep, CloseQueue, FlushEnds
  <2>3. CASE EndStep
    BY <2>3, Zenon DEF EndStep, ShutdownBegins, ShutdownFlushed, ShutdownExpires, Exit
  <2> QED BY <2>1, <2>2, <2>3, Zenon
<1>2. EveryEventCounted' /\ FoldedAtMostOnce' /\ AgesMatch'
  <2>1. EveryEventCounted'
    BY <1>0, <1>1, Zenon DEF EveryEventCounted, InHand
  <2>2. FoldedAtMostOnce'
    BY <1>0, <1>1 DEF FoldedAtMostOnce
  <2>3. AgesMatch'
    BY <1>0, <1>1, Zenon DEF AgesMatch
  <2> QED BY <2>1, <2>2, <2>3, Zenon
<1>3. HandMatches'
  <2> USE <1>0, <1>1 DEF HandMatches
  <2>1. CASE DeliverStep
    BY <2>1, Zenon DEF DeliverStep, Post, RetryLater, Retry
  <2>2. CASE FlushStep
    BY <2>2, Zenon DEF FlushStep, CloseQueue, FlushEnds
  <2>3. CASE EndStep
    BY <2>3, Zenon DEF EndStep, ShutdownBegins, ShutdownFlushed, ShutdownExpires, Exit
  <2> QED BY <2>1, <2>2, <2>3, Zenon
<1>4. /\ attempt' \in 0..MaxAttempts /\ delay' \in Nat /\ grace' \in 0..Flush
      /\ lastSend' \in 0..Spacing
  <2>0. /\ attempt \in 0..MaxAttempts /\ (worker = "backoff" => attempt < MaxAttempts)
        /\ grace \in 0..Flush /\ lastSend \in 0..Spacing /\ delay \in Nat
        /\ Delays \subseteq Nat
    BY <1>0, NotifierAssumption, Zenon DEF NumberType, HandMatches
  <2>1. CASE Post
    BY <2>0, <2>1, Numbers DEF Post
  <2>2. CASE RetryLater
    BY <2>0, <2>2, Zenon DEF RetryLater
  <2>3. CASE Retry
    BY <2>0, <2>3, Numbers DEF Retry
  <2>4. CASE FlushStep
    BY <2>0, <2>4, Zenon DEF FlushStep, CloseQueue, FlushEnds
  <2>5. CASE EndStep
    <3>1. (grace' = grace \/ grace' = Flush) /\ UNCHANGED delivery
      BY <2>5, Zenon DEF EndStep, ShutdownBegins, ShutdownFlushed, ShutdownExpires, Exit
    <3> QED BY <2>0, <3>1, Numbers
  <2> QED BY <2>1, <2>2, <2>3, <2>4, <2>5, Zenon DEF DeliverStep
<1>5. /\ closed' \in BOOLEAN /\ cancel' \in BOOLEAN /\ flushing' \in BOOLEAN
      /\ worker' \in Pcs /\ main' \in {"run", "flushing", "returned", "exited"}
  <2> USE <1>0 DEF ControlType, Pcs
  <2>1. CASE DeliverStep
    BY <2>1, Zenon DEF DeliverStep, Post, RetryLater, Retry
  <2>2. CASE FlushStep
    BY <2>2, Zenon DEF FlushStep, CloseQueue, FlushEnds
  <2>3. CASE EndStep
    BY <2>3, Zenon DEF EndStep, ShutdownBegins, ShutdownFlushed, ShutdownExpires, Exit
  <2> QED BY <2>1, <2>2, <2>3, Zenon
<1>6. ControlType' /\ NumberType' /\ QueueType' /\ HandType' /\ KeyType'
  BY <1>0, <1>1, <1>4, <1>5, Zenon
     DEF ControlType, NumberType, QueueType, HandType, KeyType
<1> QED BY <1>2, <1>3, <1>6, TypeParts, Zenon DEF NotifierInv

\* NotifierInv is preserved by every step.
THEOREM NotifierInvariance == Spec => []NotifierInv
<1>1. NotifierInv /\ [Next]_vars => NotifierInv'
  BY NotifyInv, SuppressInv, AdmitInv, DeliveryInv, TickInv, OtherInv, Zenon
     DEF Next, Worker, DeliverStep, FlushStep, EndStep
<1> QED BY InitInv, <1>1, PTL DEF Spec

-----------------------------------------------------------------------------
(* What follows for every set of keys, every window and every capacity.    *)

\* Every variable keeps its type, and no message is tried more than
\* MAX_ATTEMPTS times.
THEOREM TypeCorrect == Spec => []TypeOK
<1>1. NotifierInv => TypeOK
  BY Zenon DEF NotifierInv
<1> QED BY NotifierInvariance, <1>1, PTL

\* No event disappears uncounted between notify() and the webhook.
THEOREM NoEventLost == Spec => []EveryEventCounted
<1>1. NotifierInv => EveryEventCounted
  BY Zenon DEF NotifierInv
<1> QED BY NotifierInvariance, <1>1, PTL

\* A suppressed repeat is mentioned in at most one message.
THEOREM NoRepeatToldTwice == Spec => []FoldedAtMostOnce
<1>1. NotifierInv => FoldedAtMostOnce
  BY Zenon DEF NotifierInv
<1> QED BY NotifierInvariance, <1>1, PTL

\* admit opens a window for its key, and neither time nor prune closes it early.
THEOREM WindowsHold == Spec => OneMessagePerWindow
<1>1. NotifierInv /\ [Next]_vars
        => [\A k \in Key : hand.event # k /\ hand'.event = k
                             => admitAge[k] >= Window[k]]_vars
  <2> SUFFICES ASSUME NotifierInv, Next, NEW k \in Key, hand.event # k, hand'.event = k
               PROVE  admitAge[k] >= Window[k]
    BY Zenon
  <2>1. ~(\E e \in Event : Notify(e)) /\ ~Suppress /\ ~Post /\ ~RetryLater /\ ~Retry
        /\ ~CloseQueue /\ ~FlushEnds /\ ~ShutdownBegins /\ ~ShutdownFlushed
        /\ ~ShutdownExpires /\ ~Exit /\ ~Tick
    BY Zenon DEF Notify, Suppress, Post, RetryLater, Retry, CloseQueue, FlushEnds,
           ShutdownBegins, ShutdownFlushed, ShutdownExpires, Exit, Tick, delivery
  <2>2. ~Delivered /\ ~Refused
    BY Distinct DEF Delivered, Refused, Done, EmptyHand
  <2>3. Admit
    BY <2>1, <2>2, Zenon DEF Next, Worker
  <2>4. k = Head(queue) /\ ~Suppresses(k)
    <3>1. hand'.event = Head(queue) /\ (Head(queue) \in Key => ~Suppresses(Head(queue)))
      <4>1. \/ /\ ~Suppresses(Head(queue))
               /\ hand' = [event |-> Head(queue), count |-> entries[Head(queue)].suppressed]
            \/ Head(queue) = Unkeyed /\ hand' = [event |-> Head(queue), count |-> 0]
        BY <2>3, Zenon DEF Admit
      <4> QED BY <4>1, Distinct
    <3> QED BY <3>1, Zenon
  <2>5. entries[k].age \in Nat /\ Window[k] \in Nat
    <3>1. entries \in [Key -> Entry] /\ Window \in [Key -> Nat]
      BY NotifierAssumption, Zenon DEF NotifierInv, TypeOK
    <3> QED BY <3>1 DEF Entry
  <2>6. admitAge[k] = IF entries[k].age < Window[k] THEN entries[k].age ELSE Window[k]
    BY Zenon DEF NotifierInv, AgesMatch
  <2> QED BY <2>4, <2>5, <2>6 DEF Suppresses
<1> QED BY NotifierInvariance, <1>1, PTL DEF Spec, OneMessagePerWindow

\* What shutdown relies on: the flush starts by closing the queue, so that a
\* worker that has ended on its own leaves a queue nothing can enter any more.
FlushInv ==
  /\ flushing => closed
  /\ worker = "ended" /\ main # "exited"
       => flushing /\ queue = <<>> /\ hand = EmptyHand
  /\ main = "returned" => grace = 0 \/ worker = "ended"

\* FlushInv is preserved by every step.
LEMMA FlushInvStep == ASSUME NotifierInv, FlushInv, [Next]_vars PROVE FlushInv'
<1>0. (worker = "recv" => hand = EmptyHand) /\ closed \in BOOLEAN /\ flushing \in BOOLEAN
  BY Zenon DEF NotifierInv, HandMatches, TypeOK
<1> USE DEF delivery, history, shutdown, counters, FlushInv
<1>1. CASE \E e \in Event : Notify(e)
  <2>1. UNCHANGED <<closed, worker, flushing, hand, main, grace>>
        /\ (closed => queue' = queue)
    BY <1>1, Zenon DEF Notify
  <2> QED BY <2>1, Zenon
<1>2. CASE Suppress
  <2>1. UNCHANGED <<closed, worker, flushing, hand, main, grace>> /\ worker = "recv"
    BY <1>2 DEF Suppress, Receives
  <2> QED BY <2>1, Zenon
<1>3. CASE Admit
  <2>1. UNCHANGED <<closed, flushing, main, grace>> /\ worker = "recv" /\ worker' = "pacing"
    BY <1>3, Zenon DEF Admit, Receives
  <2> QED BY <2>1, Zenon
<1>4. CASE Post \/ RetryLater \/ Retry
  <2>1. UNCHANGED <<closed, flushing, main, grace>>
        /\ worker # "ended" /\ worker' \in {"posting", "backoff"}
    BY <1>4, Zenon DEF Post, RetryLater, Retry
  <2> QED BY <2>1, Zenon
<1>5. CASE Delivered \/ Refused
  <2>1. UNCHANGED <<closed, flushing, main, grace>> /\ worker = "posting" /\ worker' = "recv"
    BY <1>5, Zenon DEF Delivered, Refused, Done
  <2> QED BY <2>1, Zenon
<1>6. CASE CloseQueue \/ FlushEnds
  <2>1. CASE CloseQueue
    BY <2>1, Zenon DEF CloseQueue
  <2>2. CASE FlushEnds
    BY <1>0, <2>2, Zenon DEF FlushEnds
  <2> QED BY <1>6, <2>1, <2>2, Zenon
<1>7. CASE ShutdownBegins \/ ShutdownFlushed \/ ShutdownExpires
  BY <1>7 DEF ShutdownBegins, ShutdownFlushed, ShutdownExpires
<1>8. CASE Exit
  BY <1>8, Zenon DEF Exit
<1>9. CASE Tick
  <2>1. UNCHANGED <<closed, flushing, main, worker, queue, hand>>
        /\ (grace = 0 => grace' = 0)
    BY <1>9 DEF Tick
  <2> QED BY <2>1, Zenon
<1>10. CASE UNCHANGED vars
  BY <1>10, Zenon DEF vars
<1> QED BY <1>1, <1>2, <1>3, <1>4, <1>5, <1>6, <1>7, <1>8, <1>9, <1>10, Zenon DEF Next, Worker

\* shutdown gives the alerts queued before it the whole flush window, however
\* its deadline, the worker and the producers interleave.
THEOREM FlushWindowKept == Spec => []FlushHonoured
<1>1. Init => FlushInv
  BY Zenon DEF Init, FlushInv
<1>2. NotifierInv /\ FlushInv /\ [Next]_vars => FlushInv'
  BY FlushInvStep, Zenon
<1>3. FlushInv => FlushHonoured
  BY Zenon DEF FlushInv, FlushHonoured
<1> QED BY NotifierInvariance, <1>1, <1>2, <1>3, PTL DEF Spec

\* Once shutdown has returned before its deadline, the counters account for every
\* event ever raised: none is left in the queue or in the worker's hands.
FlushedMeansCounted ==
  main = "returned" /\ grace # 0 => raised = sent + failed + dropped + suppressed

\* A shutdown that returns early leaves an exact account of all alerts, those
\* raised while it waited included.
THEOREM CleanShutdownCounts == Spec => []FlushedMeansCounted
<1>1. NotifierInv /\ FlushHonoured => FlushedMeansCounted
  <2> SUFFICES ASSUME NotifierInv, FlushHonoured, main = "returned", grace # 0
               PROVE  raised = sent + failed + dropped + suppressed
    BY Zenon DEF FlushedMeansCounted
  <2>1. Len(queue) = 0 /\ InHand = 0
    BY DEF FlushHonoured, EmptyHand, InHand
  <2>2. raised = sent + failed + dropped + suppressed + Len(queue) + InHand
    BY Zenon DEF NotifierInv, EveryEventCounted
  <2>3. sent \in Nat /\ failed \in Nat /\ dropped \in Nat /\ suppressed \in Nat
    BY Zenon DEF NotifierInv, TypeOK
  <2> QED BY <2>1, <2>2, <2>3
<1> QED BY NotifierInvariance, FlushWindowKept, <1>1, PTL

\* The suppressed repeats of a key that the operator was told of or may still be.
Accounted(k) ==
  told[k] + entries[k].suppressed + (IF hand.event = k THEN hand.count ELSE 0)

\* Repeats drop out of the account in two ways only: the message that carries their
\* count is finally refused, or another key's admission prunes an entry that has
\* been idle for MaxIdle.
RepeatsLostOnly ==
  [][\A k \in Key :
       Accounted(k)' + folded[k] # Accounted(k) + folded'[k] =>
         \/ Refused /\ hand.event = k
         \/ Admit /\ Head(queue) # k /\ entries[k].age = MaxIdle]_vars

\* SuppressedNeverLost fails, but only through a refused message or a pruned entry:
\* neither a retry, the flush, nor time passing loses a count.
THEOREM RepeatsLostKnowably == Spec => RepeatsLostOnly
<1> DEFINE Kept(k) == \/ Accounted(k)' + folded[k] = Accounted(k) + folded'[k]
                      \/ Refused /\ hand.event = k
                      \/ Admit /\ Head(queue) # k /\ entries[k].age = MaxIdle
<1>1. ASSUME NotifierInv, Next, NEW k \in Key PROVE Kept(k)
  <2>0. /\ queue \in Seq(Event) /\ entries \in [Key -> Entry] /\ admitAge \in [Key -> Nat]
        /\ hand \in [event : Event \cup {NoEvent}, count : Nat]
        /\ told \in [Key -> Nat] /\ folded \in [Key -> Nat] /\ HandMatches
    BY <1>1, Zenon DEF NotifierInv, TypeOK
  <2>1. /\ told[k] \in Nat /\ folded[k] \in Nat /\ hand.count \in Nat
        /\ entries[k].suppressed \in Nat
    BY <2>0, Zenon DEF Entry
  <2>2. CASE /\ hand' = hand /\ told' = told /\ folded' = folded
             /\ entries'[k].suppressed = entries[k].suppressed
    BY <2>2, Zenon DEF Accounted
  <2>3. CASE Suppress
    <3>1. /\ UNCHANGED <<hand, told>>
          /\ entries' = [entries EXCEPT ![Head(queue)].suppressed = @ + 1]
          /\ folded' = [folded EXCEPT ![Head(queue)] = @ + 1]
      BY <2>3, Zenon DEF Suppress, delivery
    <3>2. \/ entries'[k].suppressed = entries[k].suppressed /\ folded'[k] = folded[k]
          \/ entries'[k].suppressed = entries[k].suppressed + 1 /\ folded'[k] = folded[k] + 1
      BY <2>0, <3>1, Zenon DEF Entry
    <3> QED BY <2>1, <3>1, <3>2 DEF Accounted
  <2>4. CASE Admit
    <3>1. hand = EmptyHand /\ Head(queue) \in Event
      BY <2>0, <2>4, HeadTail, Zenon DEF Admit, Receives, HandMatches
    <3>2. hand.event # k
      BY <3>1, Distinct DEF EmptyHand
    <3>3. /\ hand'.event = Head(queue)
          /\ k = Head(queue) => entries'[k].suppressed = 0 /\ hand'.count = entries[k].suppressed
          /\ k # Head(queue) => entries'[k] = entries[k] \/ entries[k].age = MaxIdle
      BY <2>0, <2>4, <3>1, AdmitEntries, Zenon
    <3>4. told' = told /\ folded' = folded
      BY <2>4, Zenon DEF Admit
    <3>5. CASE k = Head(queue)
      BY <2>1, <3>2, <3>3, <3>4, <3>5 DEF Accounted
    <3>6. CASE k # Head(queue)
      BY <2>1, <2>4, <3>2, <3>3, <3>4, <3>6 DEF Accounted
    <3> QED BY <3>5, <3>6, Zenon
  <2>5. CASE Delivered
    <3>1. /\ hand' = EmptyHand /\ entries' = entries /\ folded' = folded
          /\ told' = IF hand.event \in Key THEN [told EXCEPT ![hand.event] = @ + hand.count] ELSE told
      BY <2>5, Zenon DEF Delivered, Done
    <3>2. hand'.event # k
      BY <3>1, Distinct DEF EmptyHand
    <3>3. told'[k] = IF hand.event = k THEN told[k] + hand.count ELSE told[k]
      BY <2>0, <3>1, Zenon
    <3> QED BY <2>1, <3>1, <3>2, <3>3 DEF Accounted
  <2>6. CASE Refused
    <3>1. hand' = EmptyHand /\ UNCHANGED <<entries, told, folded>>
      BY <2>6, Zenon DEF Refused, Done, history
    <3>2. hand'.event # k
      BY <3>1, Distinct DEF EmptyHand
    <3> QED BY <2>6, <3>1, <3>2, Zenon DEF Accounted
  <2>7. CASE Tick
    <3>1. entries'[k].suppressed = entries[k].suppressed
      BY <2>0, <2>7, TickEntry, Zenon DEF Tick
    <3> QED BY <2>2, <2>7, <3>1, Zenon DEF Tick
  <2>8. CASE \E e \in Event : Notify(e)
    BY <2>2, <2>8, Zenon DEF Notify, delivery, history
  <2>9. CASE Post \/ RetryLater \/ Retry \/ CloseQueue \/ FlushEnds
    BY <2>2, <2>9, Zenon DEF Post, RetryLater, Retry, CloseQueue, FlushEnds, delivery, history
  <2>10. CASE ShutdownBegins \/ ShutdownFlushed \/ ShutdownExpires \/ Exit
    BY <2>2, <2>10, Zenon DEF ShutdownBegins, ShutdownFlushed, ShutdownExpires, Exit, delivery, history
  <2> QED BY <1>1, <2>3, <2>4, <2>5, <2>6, <2>7, <2>8, <2>9, <2>10, Zenon DEF Next, Worker
<1>2. NotifierInv /\ [Next]_vars =>
        [\A k \in Key :
           Accounted(k)' + folded[k] # Accounted(k) + folded'[k] =>
             \/ Refused /\ hand.event = k
             \/ Admit /\ Head(queue) # k /\ entries[k].age = MaxIdle]_vars
  BY <1>1, Zenon
<1> QED BY NotifierInvariance, <1>2, PTL DEF Spec, RepeatsLostOnly

-----------------------------------------------------------------------------
(***************************************************************************)
(* The monitors.                                                           *)
(***************************************************************************)

\* An outage began after the monitor last saw the target reachable.
OutageWithinQuiet == outage # "none" => downAge <= quiet

MonitorInv ==
  MonitorTypeOK /\ AlertsAlternate /\ GaugeFollowsOutage /\ OutageWithinQuiet

\* The part of MonitorTypeOK that record_up, record_down and the clock change.
VerdictType ==
  /\ outage \in {"none", "watching", "alerted"} /\ downAge \in 0..MaxAge
  /\ gauge \in {"unknown", "up", "down"} /\ quiet \in 0..MaxAge
  /\ alerts \in Nat

VerdictInv ==
  VerdictType /\ AlertsAlternate /\ GaugeFollowsOutage /\ OutageWithinQuiet

\* The rest of MonitorTypeOK.
RestType ==
  /\ target \in Targets /\ dns \in Answer /\ threshold \in Thresholds
  /\ cancelled \in BOOLEAN /\ changes \in 0..MaxChanges
  /\ pc \in MonitorPcs /\ waited \in 0..MaxAge /\ sinceProbe \in 0..KickSpacing
  /\ found \in Answer \cup {NoAnswer}
  /\ pc = "connect" => found \in Answer
  /\ okAge \in 0..MaxAge /\ kick \in BOOLEAN
  /\ lastAddrs \in Answer \cup {NoAnswer}
  /\ conn \in [Conn -> {"idle", "connecting"}]
  /\ dnsAlerts \in Nat

\* MonitorInv by its parts.
LEMMA InvParts ==
  /\ MonitorInv <=> RestType /\ VerdictInv
  /\ MonitorInv' <=> RestType' /\ VerdictInv'
BY Zenon DEF MonitorInv, MonitorTypeOK, RestType, VerdictInv, VerdictType

\* What the assumption on the constants gives the arithmetic of the ages.
LEMMA Bounds == /\ MaxAge \in Nat /\ KickSpacing \in Nat
                /\ \A t \in Thresholds : t \in 0..MaxAge
BY MonitorAssumption, Zenon

-----------------------------------------------------------------------------
(* The verdict.                                                            *)

\* record_up closes the outage and its alert.
LEMMA UpKeepsVerdict == ASSUME VerdictInv, RecordUp PROVE VerdictInv'
BY Bounds DEF VerdictInv, VerdictType, AlertsAlternate, GaugeFollowsOutage,
   OutageWithinQuiet, RecordUp

\* record_down opens an outage or goes on with it, with at most one alert.
LEMMA DownKeepsVerdict == ASSUME VerdictInv, RecordDown PROVE VerdictInv'
BY Bounds DEF VerdictInv, VerdictType, AlertsAlternate, GaugeFollowsOutage,
   OutageWithinQuiet, RecordDown

\* A second passing makes outage and silence older together.
LEMMA TickKeepsVerdict == ASSUME VerdictInv, ClockTick PROVE VerdictInv'
BY Bounds DEF VerdictInv, VerdictType, AlertsAlternate, GaugeFollowsOutage,
   OutageWithinQuiet, ClockTick, Later

\* Only a report or a clear moves the verdict.
LEMMA SameVerdict == ASSUME VerdictInv, UNCHANGED verdict PROVE VerdictInv'
BY Zenon DEF VerdictInv, VerdictType, AlertsAlternate, GaugeFollowsOutage,
   OutageWithinQuiet, verdict

\* Every step leaves the verdict alone or is one of these three.
LEMMA VerdictSteps ==
  ASSUME [TcpNext]_tcpVars
  PROVE  RecordUp \/ RecordDown \/ ClockTick \/ UNCHANGED verdict
<1>1. ASSUME MonitorTask PROVE RecordUp \/ RecordDown \/ UNCHANGED verdict
  BY <1>1, Zenon DEF MonitorTask, WaitEnds, Kicked, SpacingEnds, SkipProbe, BeginProbe,
     ProbeResolves, ProbeUnresolved, ProbeConnects, Stop
<1>2. ASSUME NEW c \in Conn, Connection(c) PROVE UNCHANGED verdict
  BY <1>2, Zenon DEF Connection, ConnUnresolved, ConnResolves, ConnConnects
<1>3. ASSUME Environment PROVE ClockTick \/ UNCHANGED verdict
  BY <1>3, Zenon DEF Environment, TargetChanges, DnsChanges, ReloadThreshold, Cancel
<1>4. CASE UNCHANGED tcpVars
  BY <1>4, Zenon DEF tcpVars
<1> QED BY <1>1, <1>2, <1>3, <1>4, Zenon DEF TcpNext

-----------------------------------------------------------------------------
(* The rest of the types.                                                  *)

\* Going back to wait_for_tick.
LEMMA WaitsTypes ==
  ASSUME RestType, Waits, UNCHANGED <<world, evidence, conn>>,
         sinceProbe' \in 0..KickSpacing, lastAddrs' \in Answer \cup {NoAnswer},
         dnsAlerts' \in Nat
  PROVE  RestType'
<1>1. /\ pc' \in MonitorPcs /\ pc' # "connect" /\ waited' \in 0..MaxAge
  BY Bounds DEF Waits, MonitorPcs
<1>3. found' \in Answer \cup {NoAnswer}
  BY Zenon DEF Waits
<1>2. /\ UNCHANGED <<target, dns, threshold, cancelled, changes, okAge, kick, conn>>
  BY Zenon DEF world, evidence
<1> QED BY <1>1, <1>2, <1>3, Zenon DEF RestType

\* The monitor task keeps the types of what it writes besides the verdict.
LEMMA MonitorTypes == ASSUME RestType, MonitorTask PROVE RestType'
<1> USE Bounds DEF RestType, MonitorPcs, world, clock, evidence, names
<1>1. CASE WaitEnds
  <2>1. waited' \in 0..MaxAge /\ pc' \in MonitorPcs /\ pc' # "connect"
    BY <1>1 DEF WaitEnds
  <2>. QED
    BY <1>1, <2>1, Zenon DEF WaitEnds
<1>2. CASE Kicked
  <2>1. waited' \in 0..MaxAge /\ pc' \in MonitorPcs /\ pc' # "connect"
    BY <1>2 DEF Kicked
  <2>. QED
    BY <1>2, <2>1, Zenon DEF Kicked
<1>3. CASE SpacingEnds
  BY <1>3, Zenon DEF SpacingEnds
<1>4. CASE SkipProbe
  BY <1>4, WaitsTypes DEF SkipProbe
<1>5. CASE BeginProbe
  BY <1>5 DEF BeginProbe
<1>6. CASE ProbeResolves
  BY <1>6, Zenon DEF ProbeResolves
<1>7. CASE ProbeUnresolved
  BY <1>7, WaitsTypes, Zenon DEF ProbeUnresolved
<1>8. CASE ProbeConnects
  BY <1>8, WaitsTypes DEF ProbeConnects, ObserveAddrs
<1>9. CASE Stop
  BY <1>9, Zenon DEF Stop
<1> QED BY <1>1, <1>2, <1>3, <1>4, <1>5, <1>6, <1>7, <1>8, <1>9 DEF MonitorTask

\* A connection keeps the types of what it writes besides the verdict.
LEMMA ConnTypes == ASSUME RestType, NEW c \in Conn, Connection(c) PROVE RestType'
<1> USE Bounds DEF RestType, world, clock, evidence, names
<1>1. CASE ConnUnresolved(c)
  BY <1>1, Zenon DEF ConnUnresolved
<1>2. CASE ConnResolves(c)
  BY <1>2 DEF ConnResolves, ObserveAddrs
<1>3. CASE ConnConnects(c)
  <2>1. /\ conn' \in [Conn -> {"idle", "connecting"}]
        /\ okAge' \in 0..MaxAge
    BY <1>3 DEF ConnConnects
  <2>2. kick' \in BOOLEAN
    BY <1>3, Zenon DEF ConnConnects
  <2>3. UNCHANGED <<target, dns, threshold, cancelled, changes, waited, sinceProbe,
                    lastAddrs, dnsAlerts, pc, found>>
    BY <1>3, Zenon DEF ConnConnects
  <2> QED BY <2>1, <2>2, <2>3, Zenon
<1> QED BY <1>1, <1>2, <1>3, Zenon DEF Connection

\* Targets, DNS, a reload of the threshold, the token and the clock keep the types.
LEMMA WorldTypes == ASSUME RestType, Environment PROVE RestType'
<1> USE Bounds DEF RestType, world, clock, evidence, names
<1>1. ASSUME NEW t \in Targets, TargetChanges(t) PROVE RestType'
  BY <1>1, Zenon DEF TargetChanges
<1>2. ASSUME NEW a \in Answer, DnsChanges(a) PROVE RestType'
  BY <1>2, MonitorAssumption DEF DnsChanges
<1>3. ASSUME NEW t \in Thresholds, ReloadThreshold(t) PROVE RestType'
  BY <1>3, Zenon DEF ReloadThreshold
<1>4. CASE Cancel
  BY <1>4, Zenon DEF Cancel
<1>5. CASE ClockTick
  BY <1>5 DEF ClockTick, Later, AtMost
<1> QED BY <1>1, <1>2, <1>3, <1>4, <1>5 DEF Environment

-----------------------------------------------------------------------------
(* The initial states.                                                     *)

\* A monitor that has just been spawned satisfies the invariant.
LEMMA MonitorInitInv == TcpInit => MonitorInv
<1> SUFFICES ASSUME TcpInit PROVE MonitorInv
  BY Zenon
<1>1. RestType
  <2>1. /\ changes \in 0..MaxChanges /\ waited \in 0..MaxAge
        /\ sinceProbe \in 0..KickSpacing /\ okAge \in 0..MaxAge /\ dnsAlerts \in Nat
    BY Bounds, MonitorAssumption DEF TcpInit
  <2>2. conn \in [Conn -> {"idle", "connecting"}] /\ pc # "connect" /\ pc \in MonitorPcs
    BY Zenon DEF TcpInit, MonitorPcs
  <2> QED BY <2>1, <2>2, Zenon DEF TcpInit, RestType
<1>2. VerdictInv
  BY Bounds DEF TcpInit, VerdictInv, VerdictType, AlertsAlternate,
     GaugeFollowsOutage, OutageWithinQuiet
<1> QED BY <1>1, <1>2, InvParts, Zenon

-----------------------------------------------------------------------------
(* Either protocol.                                                        *)

\* What stands in ForwarderStats about a UDP target is true: a reply recorded no
\* earlier than the ICMP error was one, a session that is about to record a reply
\* has one of this tick, and so has whoever finds one recorded in this tick.
EvidenceInv ==
  protocol = "udp" =>
    /\ answered => vindicated
    /\ reply.pc # "idle" => replyNow
    /\ okAge = 0 => replyNow
    /\ replyNow => vindicated

IcmpType == icmpAge \in 0..MaxAge /\ answered \in BOOLEAN

SampleType == [ms : BOOLEAN, kind : BOOLEAN, quiet : BOOLEAN, answered : BOOLEAN, recent : BOOLEAN]

\* What a sample that has still to load rest says is true, or was overtaken by an
\* error after the sample had loaded what it says of the last one.
SampleTrue(s, rest) ==
  /\ s \in SampleType
  /\ "ms" \notin rest => /\ s.ms \/ "ms" \notin icmpSet \/ overtaken
                         /\ s.quiet => icmpAge >= Quiet \/ overtaken
  /\ "kind" \notin rest => s.kind \/ "kind" \notin icmpSet \/ overtaken
  /\ "ms" \notin rest \/ "reply" \notin rest => (s.answered => vindicated \/ overtaken)
  /\ "reply" \notin rest => (s.recent => replyNow)

\* A sample is taken without an await, and an error that overtakes it leaves a kick.
SampleInv ==
  protocol = "udp" =>
    /\ pc # "sample" => loading = {} /\ cur = NoSample /\ ~overtaken
    /\ overtaken => icmp # {} \/ kick
    /\ pc = "sample" => SampleTrue(cur, loading)

EitherInv == MonitorInv /\ EvidenceInv /\ IcmpType /\ SampleInv

\* Every step of the UDP monitor, of a session or of the clock leaves the verdict
\* alone or is one of the three.
LEMMA UdpVerdictSteps ==
  ASSUME UdpNext
  PROVE  RecordUp \/ RecordDown \/ ClockTick \/ UNCHANGED verdict
<1>1. ASSUME UdpMonitorTask PROVE RecordUp \/ RecordDown \/ UNCHANGED verdict
  BY <1>1, Zenon DEF UdpMonitorTask, WaitEnds, Kicked, SpacingEnds, Stop, UdpBeginProbe, UdpResolves,
     UdpLoads, UdpJudges
<1>2. ASSUME DataPath PROVE UNCHANGED verdict
  BY <1>2, Zenon DEF DataPath, DrainReply, LoadIcmp, StoreReply, SeeIcmp, StoreIcmp, Send, tcpVars
<1>3. ASSUME UdpWorld PROVE UNCHANGED verdict
  BY <1>3, Zenon DEF UdpWorld, TargetChanges, DnsChanges, ReloadThreshold, Cancel
<1>. QED
  BY <1>1, <1>2, <1>3, Zenon DEF UdpNext, UdpTick

\* The UDP monitor keeps the types of the variables it shares with the TCP one.
LEMMA UdpMonitorTypes == ASSUME RestType, UdpMonitorTask PROVE RestType'
<1>1. CASE WaitEnds \/ Kicked \/ SpacingEnds \/ Stop
  BY <1>1, MonitorTypes, Zenon DEF MonitorTask
<1>2. CASE UdpBeginProbe
  BY <1>2, Bounds DEF UdpBeginProbe, RestType, MonitorPcs, world, evidence, names
<1>3. CASE UdpResolves
  <2>1. lastAddrs' \in Answer \cup {NoAnswer} /\ dnsAlerts' \in Nat
    BY <1>3 DEF UdpResolves, ObserveAddrs, names, RestType
  <2>2. found' \in Answer \cup {NoAnswer} /\ pc' = "sample"
    BY <1>3, Zenon DEF UdpResolves, RestType
  <2>3. pc' \in MonitorPcs /\ pc' # "connect"
    BY <2>2 DEF MonitorPcs
  <2>4. UNCHANGED <<target, dns, threshold, cancelled, changes, waited, sinceProbe, okAge, kick, conn>>
    BY <1>3, Zenon DEF UdpResolves, world, clock, evidence
  <2>. QED
    BY <2>1, <2>2, <2>3, <2>4, Zenon DEF RestType
<1>4. ASSUME NEW f \in Sampled, UdpLoads(f) PROVE RestType'
  BY <1>4, Zenon DEF UdpLoads, Load, RestType, world, clock, evidence, names
<1>5. ASSUME NEW f \in Sampled, UdpJudges(f) PROVE RestType'
  <2>1. lastAddrs' \in Answer \cup {NoAnswer} /\ dnsAlerts' \in Nat
    BY <1>5, Zenon DEF UdpJudges, Load, names, RestType
  <2>2. Waits /\ UNCHANGED <<world, evidence, conn>> /\ sinceProbe' \in 0..KickSpacing
    BY <1>5, Zenon DEF UdpJudges, Load, RestType
  <2>. QED
    BY <2>1, <2>2, WaitsTypes, Zenon
<1>. QED
  BY <1>1, <1>2, <1>3, <1>4, <1>5, Zenon DEF UdpMonitorTask

\* So does the data path.
LEMMA DataPathTypes == ASSUME RestType, DataPath PROVE RestType'
<1> USE Bounds DEF RestType, world, clock, evidence, names
<1>1. CASE DrainReply \/ LoadIcmp \/ SeeIcmp \/ Send
  BY <1>1, Zenon DEF DrainReply, LoadIcmp, SeeIcmp, Send, tcpVars
<1>2. CASE StoreReply
  BY <1>2 DEF StoreReply
<1>3. ASSUME NEW f \in {"ms", "kind"}, StoreIcmp(f) PROVE RestType'
  <2>1. kick' \in BOOLEAN
    BY <1>3, Zenon DEF StoreIcmp
  <2>2. UNCHANGED <<target, dns, threshold, cancelled, changes, waited, sinceProbe, okAge,
                    lastAddrs, dnsAlerts, pc, found, conn>>
    BY <1>3, Zenon DEF StoreIcmp
  <2>. QED
    BY <2>1, <2>2, Zenon
<1>. QED
  BY <1>1, <1>2, <1>3 DEF DataPath

\* Every step for either protocol keeps the types and the verdict.
LEMMA EitherKeepsMonitor ==
  ASSUME MonitorInv, [MonitorNext]_allVars
  PROVE  MonitorInv'
<1>1. RestType /\ VerdictInv
  BY InvParts, Zenon
<1>2. CASE UNCHANGED allVars
  BY <1>1, <1>2, SameVerdict, InvParts
     DEF allVars, tcpVars, RestType, world, clock, evidence, names
<1>3. CASE Tcp(TcpNext)
  <2>1. VerdictInv'
    BY <1>1, <1>3, VerdictSteps, UpKeepsVerdict, DownKeepsVerdict, TickKeepsVerdict, SameVerdict, Zenon
       DEF Tcp
  <2>2. RestType'
    BY <1>1, <1>3, MonitorTypes, ConnTypes, WorldTypes, Zenon DEF Tcp, TcpNext
  <2>. QED
    BY <2>1, <2>2, InvParts, Zenon
<1>4. CASE Udp(UdpNext)
  <2>1. VerdictInv'
    BY <1>1, <1>4, UdpVerdictSteps, UpKeepsVerdict, DownKeepsVerdict, TickKeepsVerdict, SameVerdict, Zenon
       DEF Udp
  <2>2. UdpTick \/ UdpWorld => Environment
    BY Zenon DEF UdpTick, UdpWorld, Environment
  <2>3. RestType'
    BY <1>1, <1>4, <2>2, UdpMonitorTypes, DataPathTypes, WorldTypes, Zenon DEF Udp, UdpNext
  <2>. QED
    BY <2>1, <2>3, InvParts, Zenon
<1>. QED
  BY <1>2, <1>3, <1>4, Zenon DEF MonitorNext

\* A step that neither touches the evidence nor makes a reply look recent.
LEMMA SameEvidence ==
  ASSUME EvidenceInv, UNCHANGED <<protocol, answered, vindicated, reply, replyNow, okAge>>
  PROVE  EvidenceInv'
BY Zenon DEF EvidenceInv

\* The marks and the clock keep the evidence true, however they interleave.
LEMMA EvidenceKept ==
  ASSUME MonitorInv, EvidenceInv, [MonitorNext]_allVars
  PROVE  EvidenceInv'
<1>1. CASE UNCHANGED allVars
  BY <1>1, SameEvidence, Zenon DEF allVars, tcpVars, udpVars, evidenceVars, evidence
<1>2. CASE Tcp(TcpNext)
  BY <1>2, Zenon DEF Tcp, udpVars, EvidenceInv
<1>3. CASE Udp(UdpNext)
  <2>0. protocol = "udp"
    BY <1>3, Zenon DEF Udp
  <2>1. CASE UdpMonitorTask
    BY <2>1, SameEvidence, Zenon DEF UdpMonitorTask, WaitEnds, Kicked, SpacingEnds, Stop, UdpBeginProbe,
       UdpResolves, UdpLoads, UdpJudges, Load, udpVars, evidenceVars, evidence
  <2>2. CASE UdpWorld /\ UNCHANGED udpVars
    BY <2>2, SameEvidence, Zenon DEF UdpWorld, TargetChanges, DnsChanges, ReloadThreshold, Cancel,
       udpVars, evidenceVars, evidence
  <2>3. CASE UdpTick
    <3>1. okAge' # 0
      BY <2>3, Bounds, UdpMonitorAssumption DEF UdpTick, ClockTick, Later, MonitorInv, MonitorTypeOK
    <3>2. reply'.pc = "idle" /\ ~replyNow' /\ UNCHANGED <<protocol, answered, vindicated>>
      BY <2>3, Zenon DEF UdpTick
    <3>. QED
      BY <3>1, <3>2, Zenon DEF EvidenceInv
  <2>4. CASE DataPath
    <3>1. CASE DrainReply
      BY <3>1, Zenon DEF DrainReply, EvidenceInv
    <3>2. CASE LoadIcmp
      <4>1. reply'.pc # "idle" => reply.pc # "idle"
        BY <3>2, Zenon DEF LoadIcmp
      <4>2. UNCHANGED <<protocol, answered, vindicated, replyNow, okAge>>
        BY <3>2, Zenon DEF LoadIcmp, tcpVars, evidence
      <4>. QED
        BY <4>1, <4>2, Zenon DEF EvidenceInv
    <3>3. CASE StoreReply
      <4>1. replyNow /\ vindicated
        BY <2>0, <3>3, Zenon DEF StoreReply, EvidenceInv
      <4>2. replyNow' /\ vindicated'
        BY <3>3, <4>1, Zenon DEF StoreReply
      <4>. QED
        BY <4>2, Zenon DEF EvidenceInv
    <3>4. CASE SeeIcmp \/ Send
      BY <3>4, SameEvidence, Zenon DEF SeeIcmp, Send, tcpVars, evidence
    <3>5. ASSUME NEW f \in {"ms", "kind"}, StoreIcmp(f) PROVE EvidenceInv'
      <4>1. CASE f = "kind"
        BY <3>5, <4>1, SameEvidence, Zenon DEF StoreIcmp
      <4>2. CASE f = "ms"
        <5>1. UNCHANGED <<protocol, reply, replyNow, okAge>>
          BY <3>5 DEF StoreIcmp
        <5>2. (answered' <=> okAge = 0) /\ (vindicated' <=> replyNow)
          BY <3>5, <4>2, Zenon DEF StoreIcmp
        <5>. QED
          BY <5>1, <5>2, Zenon DEF EvidenceInv
      <4>. QED
        BY <4>1, <4>2, Zenon
    <3>. QED
      BY <2>4, <3>1, <3>2, <3>3, <3>4, <3>5, Zenon DEF DataPath
  <2>. QED
    BY <1>3, <2>1, <2>2, <2>3, <2>4, Zenon DEF Udp, UdpNext
<1>. QED
  BY <1>1, <1>2, <1>3, Zenon DEF MonitorNext

\* The age of the ICMP error is an age.
LEMMA IcmpTyped == ASSUME IcmpType, [MonitorNext]_allVars PROVE IcmpType'
<1>1. /\ icmpAge' \in {icmpAge, 0, Later(icmpAge)}
      /\ answered' \in {answered, TRUE, okAge = 0}
  <2>1. CASE UNCHANGED allVars \/ Tcp(TcpNext)
    BY <2>1, Zenon DEF allVars, Tcp, udpVars, evidenceVars
  <2>2. CASE Udp(UdpNext)
    <3>1. CASE UdpMonitorTask
      BY <3>1, Zenon DEF UdpMonitorTask, UdpBeginProbe, UdpResolves, UdpLoads, UdpJudges, Load, udpVars,
         evidenceVars
    <3>2. CASE DataPath
      BY <3>2, Zenon DEF DataPath, DrainReply, LoadIcmp, StoreReply, SeeIcmp, StoreIcmp, Send
    <3>. QED
      BY <2>2, <3>1, <3>2, Zenon DEF Udp, UdpNext, UdpTick, udpVars, evidenceVars
  <2>. QED
    BY <2>1, <2>2, Zenon DEF MonitorNext
<1>2. answered' \in BOOLEAN
  BY <1>1, Zenon DEF IcmpType
<1>3. icmpAge' \in 0..MaxAge
  BY <1>1, Bounds DEF IcmpType, Later
<1>. QED
  BY <1>2, <1>3, Zenon DEF IcmpType

\* Each load makes the sample say one thing more that is true.
LEMMA LoadedTrue ==
  ASSUME protocol = "udp", EvidenceInv, IcmpType, SampleTrue(cur, loading),
         NEW f \in Sampled, f \in loading
  PROVE  SampleTrue(Loaded(f), loading \ {f})
<1> DEFINE s == Loaded(f)
<1>0. cur \in SampleType
  BY Zenon DEF SampleTrue
<1>1. CASE f = "ms"
  <2> DEFINE m == "ms" \in icmpSet
             q == prev /\ icmpAge >= Quiet
             a == IF "reply" \in loading THEN answered ELSE cur.answered
  <2>1. s = [cur EXCEPT !.ms = m, !.quiet = q, !.answered = a]
    BY <1>1 DEF Loaded
  <2>2. m \in BOOLEAN /\ q \in BOOLEAN
    OBVIOUS
  <2>3. a \in BOOLEAN
    BY <1>0 DEF SampleType, IcmpType
  <2>4. /\ s \in SampleType /\ s.kind = cur.kind /\ s.recent = cur.recent
        /\ s.ms = m /\ s.quiet = q /\ s.answered = a
    <3> HIDE DEF m, q, a, s
    <3>. QED
      BY <1>0, <2>1, <2>2, <2>3 DEF SampleType
  <2>. QED
    BY <1>1, <2>4, Zenon DEF SampleTrue, EvidenceInv
<1>2. CASE f = "kind"
  <2> DEFINE k == "kind" \in icmpSet
  <2>1. s = [cur EXCEPT !.kind = k]
    BY <1>2 DEF Loaded
  <2>2. k \in BOOLEAN
    OBVIOUS
  <2>3. /\ s \in SampleType /\ s.ms = cur.ms /\ s.recent = cur.recent /\ s.quiet = cur.quiet
        /\ s.answered = cur.answered /\ s.kind = k
    <3> HIDE DEF k, s
    <3>. QED
      BY <1>0, <2>1, <2>2 DEF SampleType
  <2>. QED
    BY <1>2, <2>3, Zenon DEF SampleTrue
<1>3. CASE f = "reply"
  <2>1. s = [cur EXCEPT !.recent = ("ms" \in loading /\ okAge = 0),
                        !.answered = IF "ms" \in loading THEN answered ELSE @ \/ okAge = 0]
    BY <1>3 DEF Loaded
  <2>2. /\ s.ms = cur.ms /\ s.kind = cur.kind /\ s.quiet = cur.quiet
        /\ s.recent = ("ms" \in loading /\ okAge = 0)
        /\ s.answered = IF "ms" \in loading THEN answered ELSE cur.answered \/ okAge = 0
    BY <1>0, <2>1 DEF SampleType
  <2>3. s \in SampleType
    BY <1>0, <2>1 DEF SampleType, IcmpType
  <2>. QED
    BY <1>3, <2>2, <2>3, Zenon DEF SampleTrue, EvidenceInv
<1>4. CASE f = "sent"
  BY <1>4 DEF Loaded, SampleTrue
<1>. QED
  BY <1>1, <1>2, <1>3, <1>4, Zenon DEF Sampled

\* A step that touches neither the sample nor what it was taken of.
LEMMA SameSample ==
  ASSUME SampleInv,
         UNCHANGED <<protocol, pc, loading, cur, overtaken, icmp, icmpSet, icmpAge, vindicated, replyNow, kick>>
  PROVE  SampleInv'
BY Zenon DEF SampleInv, SampleTrue

\* What the sample says stays true until the verdict.
LEMMA SampleKept ==
  ASSUME EvidenceInv, IcmpType, SampleInv, [MonitorNext]_allVars
  PROVE  SampleInv'
<1>1. CASE UNCHANGED allVars
  BY <1>1, SameSample, Zenon DEF allVars, tcpVars, udpVars, evidenceVars, sampleVars, evidence
<1>2. CASE Tcp(TcpNext)
  BY <1>2, Zenon DEF Tcp, udpVars, SampleInv
<1>3. CASE Udp(UdpNext)
  <2>0. protocol = "udp"
    BY <1>3, Zenon DEF Udp
  <2>1. CASE UdpMonitorTask
    <3>1. ASSUME pc # "sample", pc' # "sample", UNCHANGED udpVars PROVE SampleInv'
      BY <2>0, <3>1, Zenon DEF udpVars, sampleVars, SampleInv
    <3>2. CASE (WaitEnds \/ Kicked \/ SpacingEnds \/ (pc # "sample" /\ Stop)) /\ UNCHANGED udpVars
      <4>1. pc # "sample"
        BY <3>2 DEF WaitEnds, Kicked, SpacingEnds
      <4>2. pc' # "sample"
        BY <3>2 DEF WaitEnds, Kicked, SpacingEnds, Stop
      <4>. QED
        BY <3>1, <3>2, <4>1, <4>2
    <3>3. CASE UdpBeginProbe
      BY <3>1, <3>3 DEF UdpBeginProbe
    <3>4. CASE UdpResolves
      <4>1. pc # "sample" /\ loading' = Sampled /\ UNCHANGED <<protocol, cur, overtaken>>
        BY <3>4 DEF UdpResolves
      <4>2. cur' = NoSample /\ ~overtaken'
        BY <2>0, <4>1, Zenon DEF SampleInv
      <4>3. SampleTrue(cur, loading)'
        BY <4>1, <4>2 DEF SampleTrue, SampleType, NoSample, Sampled
      <4>. QED
        BY <3>4, <4>2, <4>3 DEF UdpResolves, SampleInv
    <3>5. ASSUME NEW f \in Sampled, UdpLoads(f) PROVE SampleInv'
      <4>1. f \in loading /\ loading' = loading \ {f} /\ cur' = Loaded(f)
        BY <3>5, Zenon DEF UdpLoads, Load, Loadable
      <4>2. UNCHANGED <<protocol, pc, overtaken, icmp, icmpSet, icmpAge, vindicated, replyNow, kick>>
        BY <3>5, Zenon DEF UdpLoads, Load, evidence
      <4>3. pc = "sample"
        BY <2>0, <4>1, Zenon DEF SampleInv
      <4>4. SampleTrue(Loaded(f), loading \ {f})
        BY <2>0, <4>1, <4>3, LoadedTrue, Zenon DEF SampleInv
      <4>5. SampleTrue(cur, loading)'
        BY <4>1, <4>2, <4>4, Zenon DEF SampleTrue
      <4>. QED
        BY <2>0, <4>2, <4>3, <4>5, Zenon DEF SampleInv
    <3>6. ASSUME NEW f \in Sampled, UdpJudges(f) PROVE SampleInv'
      <4>1. loading' = {} /\ cur' = NoSample /\ ~overtaken' /\ pc' = "wait"
        BY <3>6 DEF UdpJudges, Load, Waits
      <4>. QED
        BY <4>1 DEF SampleInv
    <3>. QED
      BY <2>1, <3>2, <3>3, <3>4, <3>5, <3>6, Zenon DEF UdpMonitorTask
  <2>2. CASE UdpWorld /\ UNCHANGED udpVars
    BY <2>2, SameSample, Zenon DEF UdpWorld, TargetChanges, DnsChanges, ReloadThreshold, Cancel,
       udpVars, evidenceVars, sampleVars, evidence
  <2>3. CASE UdpTick
    <3>1. pc # "sample"
      BY <2>3 DEF UdpTick
    <3>2. UNCHANGED <<protocol, pc, loading, cur, overtaken>>
      BY <2>3, Zenon DEF UdpTick, ClockTick, sampleVars
    <3>. QED
      BY <2>0, <3>1, <3>2, Zenon DEF SampleInv
  <2>4. CASE DataPath
    <3>1. CASE DrainReply
      <4>1. UNCHANGED <<protocol, pc, loading, cur, overtaken, icmp, icmpSet, icmpAge, kick>>
        BY <3>1, Zenon DEF DrainReply, tcpVars, evidence, sampleVars
      <4>2. vindicated' /\ replyNow'
        BY <3>1, Zenon DEF DrainReply
      <4>. QED
        BY <4>1, <4>2, Zenon DEF SampleInv, SampleTrue
    <3>2. CASE LoadIcmp \/ SeeIcmp \/ Send
      <4>1. UNCHANGED <<protocol, pc, loading, cur, overtaken, icmpSet, icmpAge, vindicated, replyNow, kick>>
        BY <3>2, Zenon DEF LoadIcmp, SeeIcmp, Send, tcpVars, evidence, sampleVars
      <4>2. icmp # {} => icmp' # {}
        BY <3>2, Zenon DEF LoadIcmp, SeeIcmp, Send
      <4>. QED
        BY <4>1, <4>2, Zenon DEF SampleInv, SampleTrue
    <3>3. CASE StoreReply
      BY <3>3, SameSample, Zenon DEF StoreReply, sampleVars
    <3>4. ASSUME NEW f \in {"ms", "kind"}, StoreIcmp(f) PROVE SampleInv'
      <4>1. UNCHANGED <<protocol, pc, loading, replyNow>> /\ icmpSet' = icmpSet \cup {f}
        BY <3>4, Zenon DEF StoreIcmp
      <4>2. icmp' # {} \/ kick'
        BY <3>4, Zenon DEF StoreIcmp
      <4>3. CASE pc # "sample"
        <5>1. loading = {} /\ cur = NoSample /\ ~overtaken
          BY <2>0, <4>3, Zenon DEF SampleInv
        <5>2. cur' = cur /\ ~overtaken'
          BY <3>4, <4>3, <5>1 DEF StoreIcmp
        <5>. QED
          BY <4>1, <4>3, <5>1, <5>2, Zenon DEF SampleInv
      <4>4. CASE pc = "sample"
        <5>1. SampleTrue(cur, loading)
          BY <2>0, <4>4, Zenon DEF SampleInv
        <5>2. overtaken' <=> overtaken \/ f \notin loading
          BY <3>4, <4>4, Zenon DEF StoreIcmp
        <5>3. CASE f = "kind"
          <6>1. UNCHANGED <<icmpAge, vindicated, cur>>
            BY <3>4, <5>3, Zenon DEF StoreIcmp
          <6>2. SampleTrue(cur, loading)'
            BY <4>1, <5>1, <5>2, <5>3, <6>1 DEF SampleTrue
          <6>. QED
            BY <4>1, <4>2, <4>4, <6>2, Zenon DEF SampleInv
        <5>4. CASE f = "ms"
          <6>1. vindicated' <=> replyNow
            BY <3>4, <5>4 DEF StoreIcmp
          <6>2. cur' = IF "ms" \in loading /\ "reply" \notin loading
                         THEN [cur EXCEPT !.answered = cur.recent] ELSE cur
            BY <3>4, <5>4 DEF StoreIcmp
          <6>3. SampleTrue(cur, loading)'
            BY <4>1, <5>1, <5>2, <5>4, <6>1, <6>2 DEF SampleTrue, SampleType
          <6>. QED
            BY <4>1, <4>2, <4>4, <6>3, Zenon DEF SampleInv
        <5>. QED
          BY <5>3, <5>4, Zenon
      <4>. QED
        BY <4>3, <4>4, Zenon
    <3>. QED
      BY <2>4, <3>1, <3>2, <3>3, <3>4, Zenon DEF DataPath
  <2>. QED
    BY <1>3, <2>1, <2>2, <2>3, <2>4, Zenon DEF Udp, UdpNext
<1>. QED
  BY <1>1, <1>2, <1>3, Zenon DEF MonitorNext

\* EitherInv holds in every reachable state, for either protocol.
THEOREM EitherInvariance == MonitorSpec => []EitherInv
<1>1. MonitorInit => EitherInv
  <2> SUFFICES ASSUME MonitorInit PROVE MonitorInv /\ EvidenceInv /\ IcmpType /\ SampleInv
    BY Zenon DEF EitherInv
  <2>1. MonitorInv
    BY MonitorInitInv, Zenon DEF MonitorInit
  <2>2. okAge # 0
    BY UdpMonitorAssumption, Bounds DEF MonitorInit, TcpInit
  <2>3. EvidenceInv
    BY <2>2, Zenon DEF MonitorInit, EvidenceInv, NoReply
  <2>4. IcmpType
    <3>1. icmpAge \in 0..MaxAge
      BY Bounds DEF MonitorInit
    <3>. QED
      BY <3>1, Zenon DEF MonitorInit, IcmpType
  <2>5. SampleInv
    BY DEF MonitorInit, TcpInit, SampleInv
  <2>. QED
    BY <2>1, <2>3, <2>4, <2>5, Zenon
<1>2. EitherInv /\ [MonitorNext]_allVars => EitherInv'
  BY EitherKeepsMonitor, EvidenceKept, IcmpTyped, SampleKept, Zenon DEF EitherInv
<1>. QED
  BY <1>1, <1>2, PTL DEF MonitorSpec

\* Whichever protocol the forwarder has, the types hold.
THEOREM MonitorTypeCorrect == MonitorSpec => []MonitorTypeOK
<1>1. EitherInv => MonitorTypeOK
  BY Zenon DEF EitherInv, MonitorInv
<1>. QED
  BY EitherInvariance, <1>1, PTL

\* Whichever protocol the forwarder has, alerts come in pairs, one pair per outage.
THEOREM OneAlertPerOutage == MonitorSpec => []AlertsAlternate
<1>1. EitherInv => AlertsAlternate
  BY Zenon DEF EitherInv, MonitorInv
<1>. QED
  BY EitherInvariance, <1>1, PTL

\* Whichever protocol the forwarder has, the gauge and the outage agree.
THEOREM GaugeAgrees == MonitorSpec => []GaugeFollowsOutage
<1>1. EitherInv => GaugeFollowsOutage
  BY Zenon DEF EitherInv, MonitorInv
<1>. QED
  BY EitherInvariance, <1>1, PTL

\* Whichever protocol the forwarder has, the unreachable alert never comes before
\* unreachable_after has passed without a sign of life.
THEOREM AlarmIsDue == MonitorSpec => NoFalseAlarm
<1>1. ASSUME EitherInv, [MonitorNext]_allVars
      PROVE  [alerts' > alerts => quiet >= threshold]_tcpVars
  <2> SUFFICES ASSUME alerts' > alerts PROVE quiet >= threshold
    BY Zenon
  <2>0. MonitorInv
    BY <1>1, Zenon DEF EitherInv
  <2>1. RecordUp \/ RecordDown \/ ClockTick \/ UNCHANGED verdict
    BY <1>1, VerdictSteps, UdpVerdictSteps, Zenon DEF MonitorNext, Tcp, Udp, allVars, tcpVars
  <2>2. RecordDown
    BY <2>0, <2>1 DEF MonitorInv, MonitorTypeOK, RecordUp, ClockTick, verdict
  <2>. QED
    BY <2>0, <2>2, Bounds DEF MonitorInv, MonitorTypeOK, OutageWithinQuiet, RecordDown
<1>. QED
  BY EitherInvariance, <1>1, PTL DEF MonitorSpec, NoFalseAlarm

\* Recovery needs positive evidence: the outage of a UDP target ends only on the
\* evidence udp_verdict asks for, a recorded reply it relies on was a reply, and an
\* error that overtook the sample leaves a kick, in whatever order the loads of the
\* sample are made between the marks.
THEOREM RecoveryIsEvident == MonitorSpec => RecoveryNeedsEvidence
<1>1. ASSUME EitherInv, [MonitorNext]_allVars
      PROVE  [protocol = "udp" /\ outage # "none" /\ outage' = "none" =>
                \/ icmpSet # {"ms", "kind"}
                \/ vindicated
                \/ icmpAge >= Quiet /\ sentSince
                \/ overtaken /\ (icmp # {} \/ kick')]_allVars
  <2> SUFFICES ASSUME protocol = "udp", outage # "none", outage' = "none"
               PROVE  \/ icmpSet # {"ms", "kind"}
                      \/ vindicated
                      \/ icmpAge >= Quiet /\ sentSince
                      \/ overtaken /\ (icmp # {} \/ kick')
    OBVIOUS
  <2>1. UdpNext
    BY <1>1 DEF MonitorNext, Tcp, Udp, allVars, tcpVars, verdict
  <2>2. PICK f \in Sampled : UdpJudges(f)
    <3>1. ~DataPath
      BY DEF DataPath, DrainReply, LoadIcmp, StoreReply, SeeIcmp, StoreIcmp, Send, tcpVars, verdict
    <3>2. ~UdpTick /\ ~UdpWorld
      BY DEF UdpTick, ClockTick, UdpWorld, TargetChanges, DnsChanges, ReloadThreshold, Cancel, verdict
    <3>3. UdpMonitorTask
      BY <2>1, <3>1, <3>2 DEF UdpNext
    <3>. QED
      BY <3>3 DEF UdpMonitorTask, WaitEnds, Kicked, SpacingEnds, Stop, UdpBeginProbe, UdpResolves, UdpLoads,
         verdict
  <2>3. ~RecordDown
    BY DEF RecordDown
  <2>4. udp_verdict(Loaded(f)) = "Up"
    BY <2>2, <2>3 DEF UdpJudges, verdict
  <2>5. loading = {f} /\ kick' = kick
    BY <2>2, Zenon DEF UdpJudges, Load, evidence
  <2>6. SampleTrue(Loaded(f), loading \ {f}) /\ (overtaken => icmp # {} \/ kick)
    <3>1. pc = "sample" /\ SampleTrue(cur, loading) /\ (overtaken => icmp # {} \/ kick)
      BY <1>1, <2>5, Zenon DEF EitherInv, SampleInv
    <3>. QED
      BY <1>1, <2>5, <3>1, LoadedTrue, Zenon DEF EitherInv
  <2> DEFINE s == Loaded(f)
  <2> HIDE DEF s
  <2>7. /\ s.ms \/ "ms" \notin icmpSet \/ overtaken
        /\ s.quiet => icmpAge >= Quiet \/ overtaken
        /\ s.kind \/ "kind" \notin icmpSet \/ overtaken
        /\ s.answered => vindicated \/ overtaken
    BY <2>5, <2>6, Zenon DEF SampleTrue, s
  <2>8. ~(s.ms /\ s.kind) \/ s.answered \/ (s.quiet /\ sentSince)
    BY <2>4, Zenon DEF udp_verdict, s
  <2>. QED
    BY <2>5, <2>6, <2>7, <2>8
<1>. QED
  BY EitherInvariance, <1>1, PTL DEF MonitorSpec, RecoveryNeedsEvidence
=============================================================================
