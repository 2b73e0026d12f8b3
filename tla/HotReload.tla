------------------------------ MODULE HotReload ------------------------------
(***************************************************************************)
(* The life of the process around its forwarders: main (src/src/main.rs)   *)
(* loads the configuration, starts the forwarders and shuts them down; the *)
(* config watcher (watch_config_file) reloads the file; both drive the     *)
(* ForwarderManager (src/src/manager.rs), whose start_one and stop_one     *)
(* create and end one supervised task per forwarder.  Tasks are told apart *)
(* by identities, so that a forwarder and its replacement are two tasks.   *)
(*                                                                         *)
(* A file content is a valid configuration or Broken (missing, truncated,  *)
(* unparseable or with duplicate endpoints); labels stand for forwarders   *)
(* and knobs for the settings a reload applies.                            *)
(***************************************************************************)
EXTENDS Naturals, FiniteSets

CONSTANTS
  Label,      \* forwarder labels (endpoint, target and protocol)
  Port,       \* local endpoints
  PortOf,     \* the endpoint each label binds
  Udp,        \* the labels whose sessions may hold their port
  Knob,       \* values of the reloadable settings
  Task,       \* identities of forwarder tasks
  MaxEdits,   \* writes to the file
  MaxPanics,  \* accept loops that may panic
  NoTask, NoLabel, NoKnob, Broken

ASSUME ReloadAssumption ==
  /\ PortOf \in [Label -> Port] /\ Udp \subseteq Label
  /\ MaxEdits \in Nat /\ MaxPanics \in Nat
  /\ NoTask \notin Task /\ NoLabel \notin Label /\ NoKnob \notin Knob /\ Broken \notin [labels : SUBSET Label, knobs : Knob]
  /\ IsFiniteSet(Label) /\ IsFiniteSet(Task)

VARIABLES
  file,      \* the content of the config file
  edits,     \* writes so far
  event,     \* a file system event for it is on its way to the callback
  dirty,     \* the depth-1 channel from the callback to the watcher holds a token
  source,    \* ReloadPolicy.source: "File", or "Pinned" by the environment or CLI
  main,      \* where main stands
  watcher,   \* where watch_config_file stands
  loaded,    \* the configuration main or the watcher is applying
  todo,      \* [stop, start]: the labels the running sync or start_all has left
  waited,    \* the task whose end stop_one awaits
  reap,      \* the tasks whose end shutdown_all awaits
  fwds,      \* ForwarderManager.forwarders
  registry,  \* the labels of the StatsRegistry
  knobs,     \* RuntimeKnobs
  task,      \* the forwarder tasks
  panics,    \* panics so far
  overrun    \* a wait for the end of some task timed out

vars == <<file, edits, event, dirty, source, main, watcher, loaded, todo, waited, reap,
          fwds, registry, knobs, task, panics, overrun>>

fileVars == <<file, edits, event, dirty, source>>
taskVars == <<task, panics, overrun>>
syncVars == <<loaded, todo, waited>>

-----------------------------------------------------------------------------
\* validate_no_duplicates: one forwarder per local endpoint.
LabelSets == {L \in SUBSET Label : \A k, l \in L : PortOf[k] = PortOf[l] => k = l}

Config   == [labels : LabelSets, knobs : Knob]
NoConfig == [labels |-> {}, knobs |-> NoKnob]
NoTodo   == [stop |-> {}, start |-> {}]

TaskPhases == {"free", "bind", "backoff", "listen", "linger", "gone"}
TaskState  == [label : Label \cup {NoLabel}, phase : TaskPhases, cancelled : BOOLEAN]
FreeTask   == [label |-> NoLabel, phase |-> "free", cancelled |-> FALSE]

MainPhases    == {"boot", "settings", "start", "run", "signalled", "reap", "exited"}
WatcherPhases == {"unborn", "arm", "idle", "settle", "load", "loaded", "sync", "gone"}

Init ==
  /\ file \in Config /\ edits = 0 /\ event = FALSE /\ dirty = FALSE
  /\ source \in {"File", "Pinned"}
  /\ main = "boot" /\ watcher = "unborn"
  /\ loaded = NoConfig /\ todo = NoTodo /\ waited = NoTask /\ reap = {}
  /\ fwds = [l \in Label |-> NoTask] /\ registry = {} /\ knobs = NoKnob
  /\ task = [i \in Task |-> FreeTask]
  /\ panics = 0 /\ overrun = FALSE

Running     == {l \in Label : fwds[l] # NoTask}
Finished(i) == task[i].phase \in {"linger", "gone"}
Holds(i, p) == task[i].phase \in {"listen", "linger"} /\ PortOf[task[i].label] = p
Alive(i)    == task[i].phase \in {"bind", "backoff", "listen"}

-----------------------------------------------------------------------------
(* start_one holds the write lock throughout; stop_one takes the handle out *)
(* under the lock and then waits without it.                                *)

StartOne(l) ==
  IF l \in Running THEN UNCHANGED <<fwds, registry, task>>
  ELSE \E i \in Task :
    /\ task[i].phase = "free"
    /\ task' = [task EXCEPT ![i] = [label |-> l, phase |-> "bind", cancelled |-> FALSE]]
    /\ fwds' = [fwds EXCEPT ![l] = i]
    /\ registry' = registry \cup {l}

\* The JoinHandle of a finished task is dropped, or that of a late one detached.
Reaped(i) ==
  IF task[i].phase = "gone" THEN [task EXCEPT ![i] = FreeTask] ELSE task

\* Mutant: the handle is taken out and its token dropped.
StopBeginsUncancelled(l) ==
  /\ fwds' = [fwds EXCEPT ![l] = NoTask]
  /\ waited' = fwds[l] /\ UNCHANGED task

StopBegins(l) ==
  /\ fwds' = [fwds EXCEPT ![l] = NoTask]
  /\ task' = [task EXCEPT ![fwds[l]].cancelled = TRUE]
  /\ waited' = fwds[l]

-----------------------------------------------------------------------------
(* main. *)

\* load_forwarders_with_source: the forwarders L are those of the file, unless
\* the environment or the command line names them.
LoadForwarders(L) ==
  /\ main = "boot" /\ L # {}
  /\ source = "File" => file # Broken /\ L = file.labels
  /\ main' = "settings"
  /\ loaded' = [NoConfig EXCEPT !.labels = L]
  /\ todo' = [NoTodo EXCEPT !.start = L]
  /\ UNCHANGED <<fileVars, watcher, waited, reap, fwds, registry, knobs, taskVars>>

\* A broken file, or one that names no forwarder, ends the process.
LoadRefused ==
  /\ main \in {"boot", "settings"}
  /\ \/ file = Broken
     \/ file \in [labels : {{}}, knobs : Knob] /\ main = "boot" /\ source = "File"
  /\ main' = "exited"
  /\ UNCHANGED <<fileVars, watcher, syncVars, reap, fwds, registry, knobs, taskVars>>

\* load_settings reads the file again, and takes the defaults if it is missing
\* by then; the manager is built with them.
LoadSettings(k) ==
  /\ main = "settings" /\ (file # Broken => k = file.knobs)
  /\ main' = "start" /\ knobs' = k
  /\ loaded' = [loaded EXCEPT !.knobs = k]
  /\ UNCHANGED <<fileVars, watcher, todo, waited, reap, fwds, registry, taskVars>>

StartAll(l) ==
  /\ main = "start" /\ l \in todo.start
  /\ StartOne(l)
  /\ todo' = [todo EXCEPT !.start = @ \ {l}]
  /\ UNCHANGED <<fileVars, main, watcher, loaded, waited, reap, knobs, panics, overrun>>

SpawnWatcher ==
  /\ main = "start" /\ todo.start = {}
  /\ main' = "run" /\ watcher' = "arm"
  /\ UNCHANGED <<fileVars, syncVars, reap, fwds, registry, knobs, taskVars>>

\* SIGTERM or SIGINT: config_cancel fires; the watcher is not joined.
Signal ==
  /\ main = "run" /\ main' = "signalled"
  /\ UNCHANGED <<fileVars, watcher, syncVars, reap, fwds, registry, knobs, taskVars>>

\* shutdown_all drains the map and cancels every task.
DrainAll ==
  /\ main = "signalled" /\ main' = "reap"
  /\ reap' = {fwds[l] : l \in Running}
  /\ fwds' = [l \in Label |-> NoTask]
  /\ task' = [i \in Task |-> [task[i] EXCEPT !.cancelled = @ \/ i \in reap']]
  /\ UNCHANGED <<fileVars, watcher, syncVars, registry, knobs, panics, overrun>>

\* Mutant: the wait is not bounded.
ReapUnbounded(i) ==
  /\ main = "reap" /\ i \in reap /\ Finished(i)
  /\ reap' = reap \ {i}
  /\ registry' = registry \ {task[i].label}
  /\ task' = Reaped(i)
  /\ UNCHANGED <<fileVars, main, watcher, syncVars, fwds, knobs, panics, overrun>>

\* A task has ended, or STOP_LISTENER_GRACE is over.
Reap(i) ==
  /\ main = "reap" /\ i \in reap
  /\ reap' = reap \ {i}
  /\ registry' = registry \ {task[i].label}
  /\ task' = Reaped(i)
  /\ overrun' = (overrun \/ ~Finished(i))
  /\ UNCHANGED <<fileVars, main, watcher, syncVars, fwds, knobs, panics>>

\* The connections are drained, alerts flushed, and main returns.
Exit ==
  /\ main = "reap" /\ reap = {}
  /\ main' = "exited"
  /\ UNCHANGED <<fileVars, watcher, syncVars, reap, fwds, registry, knobs, taskVars>>

-----------------------------------------------------------------------------
(* watch_config_file.  The token is looked at in select! and in the two     *)
(* sleeps, not while a reload is applied.                                   *)

Live == main \in {"run", "signalled", "reap"}

WatchArmed ==
  /\ Live /\ watcher = "arm" /\ watcher' = "idle"
  /\ UNCHANGED <<fileVars, main, syncVars, reap, fwds, registry, knobs, taskVars>>

\* The directory cannot be watched, the events stop, or the token is cancelled.
WatchEnds ==
  /\ Live
  /\ \/ watcher \in {"arm", "idle"}
     \/ watcher = "settle" /\ main # "run"
  /\ watcher' = "gone"
  /\ UNCHANGED <<fileVars, main, syncVars, reap, fwds, registry, knobs, taskVars>>

\* Mutant: a signal inside the debounce window is discarded.
DirtyDiscarded ==
  /\ main = "run" /\ watcher = "idle" /\ dirty
  /\ dirty' = FALSE /\ watcher' \in {"idle", "settle"}
  /\ UNCHANGED <<file, edits, event, source, main, syncVars, reap, fwds, registry, knobs, taskVars>>

DirtyReceived ==
  /\ main = "run" /\ watcher = "idle" /\ dirty
  /\ dirty' = FALSE /\ watcher' = "settle"
  /\ UNCHANGED <<file, edits, event, source, main, syncVars, reap, fwds, registry, knobs, taskVars>>

\* The debounce and settle delays are over and the channel is drained.
Settled ==
  /\ Live /\ watcher = "settle"
  /\ dirty' = FALSE /\ watcher' = "load"
  /\ UNCHANGED <<file, edits, event, source, main, syncVars, reap, fwds, registry, knobs, taskVars>>

LoadFails ==
  /\ Live /\ watcher = "load" /\ file = Broken
  /\ watcher' = "idle"
  /\ UNCHANGED <<fileVars, main, syncVars, reap, fwds, registry, knobs, taskVars>>

\* One parse; the knobs are applied at once, CLI overrides included.
Load ==
  /\ Live /\ watcher = "load" /\ file # Broken
  /\ loaded' = file /\ knobs' = file.knobs
  /\ watcher' = "loaded"
  /\ UNCHANGED <<fileVars, main, todo, waited, reap, fwds, registry, taskVars>>

\* sync reads the running labels once, for both halves of its work.
SyncBegins ==
  /\ Live /\ watcher = "loaded"
  /\ IF source = "File"
     THEN /\ watcher' = "sync"
          /\ todo' = [stop |-> Running \ loaded.labels, start |-> loaded.labels \ Running]
     ELSE watcher' = "idle" /\ UNCHANGED todo
  /\ UNCHANGED <<fileVars, main, loaded, waited, reap, fwds, registry, knobs, taskVars>>

\* A label that shutdown_all has taken meanwhile has no handle.
SyncStops(l) ==
  /\ Live /\ watcher = "sync" /\ waited = NoTask /\ l \in todo.stop
  /\ IF l \in Running THEN StopBegins(l) ELSE UNCHANGED <<fwds, task, waited>>
  /\ todo' = [todo EXCEPT !.stop = IF l \in Running THEN @ ELSE @ \ {l}]
  /\ UNCHANGED <<fileVars, main, watcher, loaded, reap, registry, knobs, panics, overrun>>

\* Mutant: the stopped forwarder stays in the registry.
StopEndsRegistered ==
  /\ Live /\ watcher = "sync" /\ waited # NoTask
  /\ waited' = NoTask
  /\ todo' = [todo EXCEPT !.stop = @ \ {task[waited].label}]
  /\ task' = Reaped(waited)
  /\ overrun' = (overrun \/ ~Finished(waited))
  /\ UNCHANGED <<fileVars, main, watcher, loaded, reap, fwds, registry, knobs, panics>>

\* Mutant: the task's end is not awaited.
StopEndsAtOnce ==
  /\ Live /\ watcher = "sync" /\ waited # NoTask
  /\ waited' = NoTask
  /\ todo' = [todo EXCEPT !.stop = @ \ {task[waited].label}]
  /\ registry' = registry \ {task[waited].label}
  /\ task' = Reaped(waited)
  /\ UNCHANGED <<fileVars, main, watcher, loaded, reap, fwds, knobs, panics, overrun>>

StopEnds ==
  /\ Live /\ watcher = "sync" /\ waited # NoTask
  /\ waited' = NoTask
  /\ todo' = [todo EXCEPT !.stop = @ \ {task[waited].label}]
  /\ registry' = registry \ {task[waited].label}
  /\ task' = Reaped(waited)
  /\ overrun' = (overrun \/ ~Finished(waited))
  /\ UNCHANGED <<fileVars, main, watcher, loaded, reap, fwds, knobs, panics>>

SyncStarts(l) ==
  /\ Live /\ watcher = "sync" /\ todo.stop = {} /\ l \in todo.start
  /\ StartOne(l)
  /\ todo' = [todo EXCEPT !.start = @ \ {l}]
  /\ UNCHANGED <<fileVars, main, watcher, loaded, waited, reap, knobs, panics, overrun>>

SyncEnds ==
  /\ Live /\ watcher = "sync" /\ todo = NoTodo
  /\ watcher' = "idle"
  /\ UNCHANGED <<fileVars, main, syncVars, reap, fwds, registry, knobs, taskVars>>

-----------------------------------------------------------------------------
(* The forwarder tasks, as seen from the manager. *)

Up == main \notin {"boot", "settings", "exited"}

SetTask(i, r) ==
  /\ task' = [task EXCEPT ![i] = r]
  /\ UNCHANGED <<fileVars, main, watcher, syncVars, reap, fwds, registry, knobs, panics, overrun>>

Bind(i) ==
  /\ Up /\ task[i].phase = "bind" /\ ~task[i].cancelled
  /\ \A j \in Task : ~Holds(j, PortOf[task[i].label])
  /\ SetTask(i, [task[i] EXCEPT !.phase = "listen"])

BindFails(i) ==
  /\ Up /\ task[i].phase = "bind" /\ ~task[i].cancelled
  /\ \E j \in Task : Holds(j, PortOf[task[i].label])
  /\ SetTask(i, [task[i] EXCEPT !.phase = "backoff"])

BindAgain(i) ==
  /\ Up /\ task[i].phase = "backoff" /\ ~task[i].cancelled
  /\ SetTask(i, [task[i] EXCEPT !.phase = "bind"])

\* A cancelled task that nobody waits for any more leaves its identity free.
Ended(i) ==
  IF i \in reap \cup {waited} \cup {fwds[l] : l \in Label}
  THEN [task[i] EXCEPT !.phase = "gone"] ELSE FreeTask

TaskEnds(i) ==
  /\ Up /\ Alive(i) /\ task[i].cancelled
  /\ SetTask(i, Ended(i))

\* A UDP forwarder whose sessions outlive SESSION_STOP_GRACE.
TaskLingers(i) ==
  /\ Up /\ task[i].phase = "listen" /\ task[i].cancelled /\ task[i].label \in Udp
  /\ SetTask(i, [task[i] EXCEPT !.phase = "linger"])

\* The last session that held the socket is over.
LingerEnds(i) ==
  /\ Up /\ task[i].phase = "linger"
  /\ SetTask(i, Ended(i))

\* The accept loop panics: the supervisor reports it and returns; the handle
\* stays in the map.  The sessions a UDP engine leaves are tasks of their own
\* that hold its socket, and only the token of the forwarder ends them all.
TaskPanics(i) ==
  /\ Up /\ panics < MaxPanics /\ Alive(i)
  /\ \/ task' = [task EXCEPT ![i] = Ended(i)]
     \/ /\ task[i].phase = "listen" /\ task[i].label \in Udp
        /\ task' = [task EXCEPT ![i] = [task[i] EXCEPT !.phase = "linger"]]
  /\ panics' = panics + 1
  /\ UNCHANGED <<fileVars, main, watcher, syncVars, reap, fwds, registry, knobs, overrun>>

-----------------------------------------------------------------------------
(* The operator and the file system. *)

\* A write raises an event if the directory is being watched by then.
Edit(f) ==
  /\ edits < MaxEdits /\ edits' = edits + 1
  /\ f # file /\ file' = f
  /\ event' = (event \/ watcher \notin {"unborn", "arm", "gone"})
  /\ UNCHANGED <<dirty, source, main, watcher, syncVars, reap, fwds, registry, knobs, taskVars>>

\* The callback's try_send: a full channel already holds a token.
EventDelivered ==
  /\ event /\ event' = FALSE /\ dirty' = TRUE
  /\ UNCHANGED <<file, edits, source, main, watcher, syncVars, reap, fwds, registry, knobs, taskVars>>

-----------------------------------------------------------------------------
Starting ==
  \/ \E L \in LabelSets : LoadForwarders(L)
  \/ \E k \in Knob : LoadSettings(k)
  \/ LoadRefused \/ SpawnWatcher \/ \E l \in Label : StartAll(l)

ShuttingDown == DrainAll \/ Exit \/ \E i \in Task : Reap(i)

Reloading ==
  \/ WatchArmed \/ DirtyReceived \/ Settled \/ LoadFails \/ Load
  \/ SyncBegins \/ StopEnds \/ SyncEnds
  \/ \E l \in Label : SyncStops(l) \/ SyncStarts(l)

Forwarder(i) ==
  \/ Bind(i) \/ BindFails(i) \/ BindAgain(i) \/ TaskEnds(i)
  \/ TaskLingers(i) \/ LingerEnds(i) \/ TaskPanics(i)

Next ==
  \/ Starting \/ Signal \/ ShuttingDown \/ Reloading \/ WatchEnds \/ (\E i \in Task : Forwarder(i))
  \/ EventDelivered \/ \E f \in Config \cup {Broken} : Edit(f)

Spec == Init /\ [][Next]_vars

\* Tasks are scheduled, the file system reports writes, and the waits of main
\* and stop_one are bounded by timeouts.  A cancelled task ends, at any time, and
\* so do cancelled sessions; once the process is shutting down not even that is
\* assumed.  No signal, edit, watch failure or panic has to happen.
Fairness ==
  /\ WF_vars(Starting) /\ WF_vars(ShuttingDown) /\ WF_vars(Reloading) /\ WF_vars(EventDelivered)
  /\ \A i \in Task : /\ WF_vars(Bind(i)) /\ WF_vars(BindAgain(i))
                     /\ WF_vars(main = "run" /\ TaskEnds(i))
                     /\ WF_vars(main = "run" /\ task[i].cancelled /\ LingerEnds(i))

FairSpec == Spec /\ Fairness

-----------------------------------------------------------------------------
(* Properties. *)

\* The type of every variable.
TypeOK ==
  /\ file \in Config \cup {Broken} /\ edits \in 0..MaxEdits
  /\ event \in BOOLEAN /\ dirty \in BOOLEAN /\ source \in {"File", "Pinned"}
  /\ main \in MainPhases /\ watcher \in WatcherPhases
  /\ loaded \in [labels : LabelSets, knobs : Knob \cup {NoKnob}]
  /\ todo \in [stop : SUBSET Label, start : SUBSET Label]
  /\ waited \in Task \cup {NoTask} /\ reap \in SUBSET Task
  /\ fwds \in [Label -> Task \cup {NoTask}] /\ registry \in SUBSET Label
  /\ knobs \in Knob \cup {NoKnob} /\ (watcher # "unborn" => knobs \in Knob)
  /\ task \in [Task -> TaskState]
  /\ panics \in 0..MaxPanics /\ overrun \in BOOLEAN

\* Between reloads the manager runs the forwarders of the configuration it last
\* accepted, with its knobs, and the stats registry, which the health route
\* reads, lists exactly those: a refused file changes neither half.
AppliedTogether ==
  main = "run" /\ watcher \in {"arm", "idle", "settle", "load", "gone"} =>
    /\ knobs = loaded.knobs
    /\ source = "File" => Running = loaded.labels
    /\ registry = Running

\* A task that may still accept connections is in the map, where a later
\* stop_one or shutdown_all finds it, or has been cancelled.
NoOrphanTask == \A i \in Task : Alive(i) /\ ~task[i].cancelled => fwds[task[i].label] = i

\* Unless a wait timed out, a forwarder that is started never finds its port held by
\* the task it replaces.  What it can meet are sessions that outlived their UDP
\* engine, because they overran SESSION_STOP_GRACE or the engine panicked: stop_one
\* does not wait for them, and the bind fails and is retried.
RebindFindsPortFree ==
  main = "run" /\ ~overrun =>
    \A i, j \in Task :
      /\ i # j /\ task[i].phase \in {"bind", "backoff"}
      /\ Holds(j, PortOf[task[i].label])
      => task[j].phase = "linger"

\* When main returns every forwarder has been told to stop accepting.
ShutdownStopsAll == main = "exited" => \A i \in Task : Alive(i) => task[i].cancelled

\* The running forwarders serve what the file says.
Converged ==
  /\ knobs = file.knobs /\ Running = file.labels
  /\ \A l \in Running : task[fwds[l]].phase = "listen"

\* A valid file that stays as it is ends up being served: no save made while
\* the directory is watched is lost to the coalescing channel, the
\* debounce or a reload in progress, and every forwarder ends up listening,
\* however late the task it replaces was.  A panicked accept loop stays down.
EverySaveApplied ==
  (event \/ dirty) ~>
    (main # "run" \/ watcher = "gone" \/ source = "Pinned" \/ file = Broken \/ panics > 0 \/ Converged)

\* A signalled process exits, whatever the watcher and the tasks do.
ShutdownCompletes == main = "signalled" ~> main = "exited"

=============================================================================
