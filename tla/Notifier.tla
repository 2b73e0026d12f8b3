------------------------------ MODULE Notifier ------------------------------
(***************************************************************************)
(* Webhook alerting (notify.rs): producers queue events without waiting,   *)
(* one worker throttles, paces and posts them with bounded retries, and    *)
(* NotifierHandle::shutdown flushes the queue at the end of main.          *)
(*                                                                         *)
(* An event is its throttle key, or Unkeyed for the kinds Event::throttle  *)
(* does not limit; its text is left out.  Time is in ticks of one second   *)
(* and kept as capped ages.  told, folded and admitAge are history:        *)
(* the suppressed events the operator was told of, all of them, and the    *)
(* last admission of a key.                                                *)
(***************************************************************************)
EXTENDS Naturals, Sequences

CONSTANTS Key,            \* throttle keys, such as bind:<label>
          Unkeyed,        \* an event that is never throttled
          Capacity,       \* QUEUE_CAPACITY
          MaxAttempts,    \* MAX_ATTEMPTS
          Window,         \* [Key -> Nat], the THROTTLE_* windows
          MaxIdle,        \* the idle time after which process() prunes a key
          Spacing,        \* MIN_SEND_SPACING
          Delays,         \* delays a retry may wait: backoff or Retry-After
          Flush,          \* WEBHOOK_FLUSH_GRACE
          MaxEvents,      \* bound: events raised in a behaviour
          NoEvent

ASSUME NotifierAssumption ==
  /\ Capacity \in Nat \ {0} /\ MaxAttempts \in Nat \ {0}
  /\ Window \in [Key -> Nat] /\ MaxIdle \in Nat
  /\ \A k \in Key : Window[k] <= MaxIdle
  /\ Spacing \in Nat /\ Delays \subseteq Nat /\ Flush \in Nat
  /\ MaxEvents \in Nat
  /\ Unkeyed \notin Key /\ NoEvent \notin Key \cup {Unkeyed}

VARIABLES queue,      \* the mpsc channel
          closed,     \* rx.close() was called
          cancel,     \* the token of NotifierHandle
          worker,     \* where Worker::run stands
          flushing,   \* it has left the first loop
          hand,       \* the event being processed and the count it carries
          attempt,    \* of deliver
          delay,      \* left of the sleep before the next attempt
          lastSend,   \* age of last_send
          entries,    \* Throttle::entries
          raised, sent, failed, dropped, suppressed,   \* counters
          told, folded, admitAge,                      \* history
          main, grace \* the caller of shutdown and its deadline

counters == <<raised, sent, failed, dropped, suppressed>>
history == <<told, folded, admitAge>>
delivery == <<hand, attempt, delay, lastSend>>
shutdown == <<main, grace>>
vars == <<queue, closed, cancel, worker, flushing, delivery, entries,
          counters, history, shutdown>>

Event == Key \cup {Unkeyed}
Pcs == {"recv", "pacing", "posting", "backoff", "ended"}

\* A ThrottleEntry.  A key without an entry is admitted and carries no count:
\* it is kept as the entry prune would drop, with nothing suppressed.
Entry == [age : 0..MaxIdle, suppressed : Nat]
Unknown == [age |-> MaxIdle, suppressed |-> 0]

EmptyHand == [event |-> NoEvent, count |-> 0]

Older(age, cap) == IF age < cap THEN age + 1 ELSE age

Init ==
  /\ queue = <<>> /\ closed = FALSE /\ cancel = FALSE
  /\ worker = "recv" /\ flushing = FALSE
  /\ hand = EmptyHand /\ attempt = 0 /\ delay = 0
  /\ lastSend = Spacing
  /\ entries = [k \in Key |-> Unknown]
  /\ raised = 0 /\ sent = 0 /\ failed = 0 /\ dropped = 0 /\ suppressed = 0
  /\ told = [k \in Key |-> 0] /\ folded = [k \in Key |-> 0]
  /\ admitAge = Window
  /\ main = "run" /\ grace = 0

-----------------------------------------------------------------------------
(* Producers.                                                              *)

NotifyUncounted(e) ==
  /\ raised < MaxEvents /\ main # "exited"
  /\ raised' = raised + 1
  /\ IF Len(queue) < Capacity /\ ~closed
       THEN queue' = Append(queue, e) /\ UNCHANGED dropped
       ELSE UNCHANGED <<queue, dropped>>
  /\ UNCHANGED <<closed, cancel, worker, flushing, delivery, entries, sent,
                 failed, suppressed, history, shutdown>>

\* Notifier::notify: try_send, and a full or closed queue drops the event.
Notify(e) ==
  /\ raised < MaxEvents /\ main # "exited"
  /\ raised' = raised + 1
  /\ IF Len(queue) < Capacity /\ ~closed
       THEN queue' = Append(queue, e) /\ UNCHANGED dropped
       ELSE dropped' = dropped + 1 /\ UNCHANGED queue
  /\ UNCHANGED <<closed, cancel, worker, flushing, delivery, entries, sent,
                 failed, suppressed, history, shutdown>>

-----------------------------------------------------------------------------
(* The throttle.                                                           *)

Suppresses(k) == entries[k].age < Window[k]

PrunedEarly(es) ==
  [k \in Key |-> IF es[k].age < 1 THEN es[k] ELSE Unknown]

\* Throttle::prune, run after every admission.
Pruned(es) ==
  [k \in Key |-> IF es[k].age < MaxIdle THEN es[k] ELSE Unknown]

\* The Send arms of Throttle::admit: the count moves into the message.
Admitted(k) ==
  [entries EXCEPT ![k] = [age |-> 0, suppressed |-> 0]]

-----------------------------------------------------------------------------
(* The worker.                                                             *)

\* The select of the first loop is biased towards the token; the second loop
\* takes whatever is queued.
Receives == worker = "recv" /\ queue # <<>> /\ (flushing \/ ~cancel)

\* process() on an event inside its window: counted and forgotten.
Suppress ==
  /\ Receives
  /\ LET k == Head(queue) IN
       /\ k \in Key
       /\ Suppresses(k)
       /\ entries' = [entries EXCEPT ![k].suppressed = @ + 1]
       /\ folded' = [folded EXCEPT ![k] = @ + 1]
  /\ suppressed' = suppressed + 1
  /\ queue' = Tail(queue)
  /\ UNCHANGED <<closed, cancel, worker, flushing, delivery, raised, sent,
                 failed, dropped, told, admitAge, shutdown>>

\* process() on an event it will deliver: admitted, then prune.
Admit ==
  /\ Receives
  /\ LET e == Head(queue) IN
       \/ /\ e \in Key /\ ~Suppresses(e)
          /\ hand' = [event |-> e, count |-> entries[e].suppressed]
          /\ entries' = Pruned(Admitted(e))
          /\ admitAge' = [admitAge EXCEPT ![e] = 0]
       \/ /\ e = Unkeyed
          /\ hand' = [event |-> e, count |-> 0]
          /\ entries' = Pruned(entries)
          /\ UNCHANGED admitAge
  /\ queue' = Tail(queue)
  /\ worker' = "pacing"
  /\ UNCHANGED <<closed, cancel, flushing, attempt, delay, lastSend, counters,
                 told, folded, shutdown>>

\* The pacing sleep is over: last_send is taken and deliver starts.
Post ==
  /\ worker = "pacing" /\ lastSend >= Spacing
  /\ worker' = "posting" /\ attempt' = 1
  /\ lastSend' = 0
  /\ UNCHANGED <<queue, closed, cancel, flushing, hand, delay, entries,
                 counters, told, folded, admitAge, shutdown>>

\* process() returns to the loop that called it.
Done == worker' = "recv" /\ hand' = EmptyHand /\ attempt' = 0 /\ delay' = 0

\* A 2xx answer.
Delivered ==
  /\ worker = "posting"
  /\ sent' = sent + 1
  /\ told' = IF hand.event \in Key
               THEN [told EXCEPT ![hand.event] = @ + hand.count] ELSE told
  /\ Done
  /\ UNCHANGED <<queue, closed, cancel, flushing, lastSend, entries, raised,
                 failed, dropped, suppressed, folded, admitAge,
                 shutdown>>

\* A final refusal: another 4xx, or the last attempt was retryable.
Refused ==
  /\ worker = "posting"
  /\ failed' = failed + 1
  /\ Done
  /\ UNCHANGED <<queue, closed, cancel, flushing, lastSend, entries, raised,
                 sent, dropped, suppressed, history, shutdown>>

\* 429, 5xx or a transport error with attempts left.
RetryLater ==
  /\ worker = "posting" /\ attempt < MaxAttempts
  /\ worker' = "backoff"
  /\ delay' \in Delays
  /\ UNCHANGED <<queue, closed, cancel, flushing, hand, attempt, lastSend,
                 entries, counters, history, shutdown>>

RetryUncounted ==
  /\ worker = "backoff" /\ delay = 0
  /\ worker' = "posting"
  /\ UNCHANGED <<queue, closed, cancel, flushing, delivery, entries, counters,
                 told, folded, admitAge, shutdown>>

\* The next attempt of deliver.
Retry ==
  /\ worker = "backoff" /\ delay = 0
  /\ worker' = "posting" /\ attempt' = attempt + 1
  /\ UNCHANGED <<queue, closed, cancel, flushing, hand, delay, lastSend,
                 entries, counters, told, folded, admitAge, shutdown>>

EndUnflushed ==
  /\ worker = "recv" /\ cancel /\ ~flushing
  /\ flushing' = TRUE /\ closed' = TRUE /\ worker' = "ended"
  /\ UNCHANGED <<queue, cancel, delivery, entries, counters, history,
                 shutdown>>

\* The token ends the first loop: rx.close(), then the flush.
CloseQueue ==
  /\ worker = "recv" /\ cancel /\ ~flushing
  /\ flushing' = TRUE /\ closed' = TRUE
  /\ UNCHANGED <<queue, cancel, worker, delivery, entries, counters, history,
                 shutdown>>

\* try_recv finds the closed queue empty.
FlushEnds ==
  /\ worker = "recv" /\ flushing /\ queue = <<>>
  /\ worker' = "ended"
  /\ UNCHANGED <<queue, closed, cancel, flushing, delivery, entries, counters,
                 history, shutdown>>

Worker ==
  \/ Suppress \/ Admit \/ Post \/ Delivered \/ Refused \/ RetryLater \/ Retry
  \/ CloseQueue \/ FlushEnds

-----------------------------------------------------------------------------
(* The end of main.                                                        *)

\* NotifierHandle::shutdown: cancel, then wait for the task with a deadline.
ShutdownBegins ==
  /\ main = "run"
  /\ main' = "flushing" /\ cancel' = TRUE /\ grace' = Flush
  /\ UNCHANGED <<queue, closed, worker, flushing, delivery, entries, counters,
                 history>>

ShutdownFlushed ==
  /\ main = "flushing" /\ worker = "ended"
  /\ main' = "returned"
  /\ UNCHANGED <<queue, closed, cancel, worker, flushing, delivery, entries,
                 counters, history, grace>>

\* The deadline drops the JoinHandle, which detaches the worker.
ShutdownExpires ==
  /\ main = "flushing" /\ grace = 0
  /\ main' = "returned"
  /\ UNCHANGED <<queue, closed, cancel, worker, flushing, delivery, entries,
                 counters, history, grace>>

\* main returns and the runtime goes down with every task.
Exit ==
  /\ main = "returned"
  /\ main' = "exited" /\ worker' = "ended"
  /\ UNCHANGED <<queue, closed, cancel, flushing, delivery, entries, counters,
                 history, grace>>

\* One second passes.
Tick ==
  /\ main # "exited"
  /\ lastSend' = Older(lastSend, Spacing)
  /\ admitAge' = [k \in Key |-> Older(admitAge[k], Window[k])]
  /\ delay' = IF delay > 0 THEN delay - 1 ELSE 0
  /\ entries' = [k \in Key |-> [entries[k] EXCEPT !.age = Older(@, MaxIdle)]]
  /\ grace' = IF grace > 0 THEN grace - 1 ELSE 0
  /\ UNCHANGED <<queue, closed, cancel, worker, flushing, hand, attempt,
                 counters, told, folded, main>>

Next ==
  \/ \E e \in Event : Notify(e)
  \/ Worker
  \/ ShutdownBegins \/ ShutdownFlushed \/ ShutdownExpires \/ Exit \/ Tick

Spec == Init /\ [][Next]_vars

\* The runtime schedules the worker, REQUEST_TIMEOUT ends a POST that gets no
\* answer (a transport error, retried or final) and time passes.  Which answer
\* comes is left open.
Fairness ==
  /\ WF_vars(Worker) /\ WF_vars(Tick)
  /\ WF_vars(ShutdownFlushed \/ ShutdownExpires)

FairSpec == Spec /\ Fairness

-----------------------------------------------------------------------------
(* What alerting promises.                                                 *)

InHand == IF hand.event = NoEvent THEN 0 ELSE 1

\* The types; deliver never starts more than MAX_ATTEMPTS attempts.
TypeOK ==
  /\ queue \in Seq(Event) /\ Len(queue) <= Capacity
  /\ closed \in BOOLEAN /\ cancel \in BOOLEAN /\ flushing \in BOOLEAN
  /\ worker \in Pcs
  /\ hand \in [event : Event \cup {NoEvent}, count : Nat]
  /\ attempt \in 0..MaxAttempts
  /\ delay \in Nat /\ lastSend \in 0..Spacing
  /\ entries \in [Key -> Entry]
  /\ raised \in Nat /\ sent \in Nat /\ failed \in Nat /\ dropped \in Nat
  /\ suppressed \in Nat
  /\ told \in [Key -> Nat] /\ folded \in [Key -> Nat]
  /\ admitAge \in [Key -> Nat]
  /\ main \in {"run", "flushing", "returned", "exited"} /\ grace \in 0..Flush

\* Every event a producer raised is in exactly one of the rfw_webhook_*
\* counters, in the queue or in the worker's hands: none disappears without
\* being counted, whatever the webhook answers and whenever main shuts down.
EveryEventCounted ==
  raised = sent + failed + dropped + suppressed + Len(queue) + InHand

\* admit moves a count of suppressed repeats into a message exactly once: the
\* operator is never told of more repeats than the throttle suppressed.
FoldedAtMostOnce ==
  \A k \in Key :
    told[k] + entries[k].suppressed + (IF hand.event = k THEN hand.count ELSE 0)
      <= folded[k]

\* Two messages of one key are admitted at least its window apart; pruning an
\* entry never makes the throttle forget a window that is still open.
OneMessagePerWindow ==
  [][\A k \in Key : hand.event # k /\ hand'.event = k
                      => admitAge[k] >= Window[k]]_vars

\* shutdown returns early only when nothing is queued or being delivered: the
\* alerts queued before it get the whole flush window.
FlushHonoured ==
  main = "returned" => grace = 0 \/ (queue = <<>> /\ hand = EmptyHand)

\* However the webhook behaves, the worker comes back for the next event.
WorkerComesBack == worker # "recv" ~> worker \in {"recv", "ended"}

\* "suppressed repeats are folded into the next delivered message as a count,
\* never silently lost" (head of notify.rs).  Violated: the count has left the
\* entry when a delivery fails, and prune drops an entry with its count.
SuppressedNeverLost ==
  \A k \in Key :
    folded[k] <=
      told[k] + entries[k].suppressed + (IF hand.event = k THEN hand.count ELSE 0)
=============================================================================
