--------------------------- MODULE HotReloadProofs ---------------------------
(***************************************************************************)
(* What the manager and the config watcher keep for any set of labels,     *)
(* ports and tasks, any number of edits and panics, and a signal at any    *)
(* moment: no task is orphaned, a reload is applied as a whole, and a      *)
(* forwarder that is started finds its port free.                          *)
(*                                                                         *)
(* What concerns the map, the registry and the ports is an invariant of    *)
(* the time before the signal: from then on shutdown_all and a reload that *)
(* is under way may both work on the map (see ShutdownStopsAll).           *)
(***************************************************************************)
EXTENDS HotReload, TLAPS

Serving == main \in {"boot", "settings", "start", "run"}

\* The forwarder that stop_one is waiting for, which is still registered.
Stopping == {l \in Label : waited # NoTask /\ task[waited].label = l}

TasksLabelled == \A i \in Task : task[i].phase # "free" => task[i].label \in Label

\* The handle of a label is that of a task started for it, also when it has ended.
MapInv == \A l \in Running : task[fwds[l]].phase # "free" /\ task[fwds[l]].label = l

\* stop_one waits for a task it has taken out of the map, whose label sync has
\* not crossed off.
WaitInv ==
  waited # NoTask =>
    /\ main = "run" /\ watcher = "sync" /\ task[waited].phase # "free"
    /\ task[waited].label \in todo.stop \ Running

\* How far main and the watcher have brought the map to what was loaded.
WorkInv ==
  /\ main # "run" => watcher = "unborn"
  /\ main = "boot" => Running = {} /\ todo = NoTodo
  /\ main \in {"settings", "start"} => loaded.labels = Running \cup todo.start
  /\ main = "run" /\ source = "File" /\ watcher \notin {"loaded", "sync"} => Running = loaded.labels
  /\ main = "run" /\ watcher = "sync" =>
       /\ source = "File"
       /\ todo.stop \cap loaded.labels = {} /\ todo.start \subseteq loaded.labels
       /\ loaded.labels \subseteq Running \cup todo.start
       /\ Running \subseteq loaded.labels \cup todo.stop

\* The registry lists the forwarders of the map and the one being stopped, no two
\* of which have the same endpoint.
RegistryInv ==
  /\ registry = Running \cup Stopping
  /\ \A k, l \in registry : PortOf[k] = PortOf[l] => k = l

\* Until a wait times out, a cancelled task is the one stop_one waits for.
GraceInv ==
  ~overrun => \A i \in Task : Alive(i) /\ task[i].cancelled => i = waited

KnobsInv ==
  /\ knobs = loaded.knobs
  /\ main \in {"boot", "settings"} => knobs = NoKnob
  /\ main = "start" \/ watcher # "unborn" => knobs \in Knob

TaskInv == TasksLabelled /\ NoOrphanTask
ServeInv ==
  Serving => reap = {} /\ MapInv /\ WaitInv /\ WorkInv /\ RegistryInv /\ GraceInv

ReloadInv == TypeOK /\ KnobsInv /\ TaskInv /\ ServeInv

-----------------------------------------------------------------------------
(* Types, in the parts that steps leave alone.                             *)

FileType ==
  /\ file \in Config \cup {Broken} /\ edits \in 0..MaxEdits
  /\ event \in BOOLEAN /\ dirty \in BOOLEAN /\ source \in {"File", "Pinned"}

WorkType ==
  /\ main \in MainPhases /\ watcher \in WatcherPhases
  /\ loaded \in [labels : LabelSets, knobs : Knob \cup {NoKnob}]
  /\ todo \in [stop : SUBSET Label, start : SUBSET Label]
  /\ knobs \in Knob \cup {NoKnob} /\ (watcher # "unborn" => knobs \in Knob)

MapType ==
  /\ waited \in Task \cup {NoTask} /\ reap \in SUBSET Task
  /\ fwds \in [Label -> Task \cup {NoTask}] /\ registry \in SUBSET Label

TaskType == task \in [Task -> TaskState] /\ panics \in 0..MaxPanics /\ overrun \in BOOLEAN

\* What every step is shown to establish.
Kept == TypeOK' /\ KnobsInv' /\ TaskInv' /\ ServeInv'

\* TypeOK is its parts.
LEMMA TypeParts == TypeOK <=> FileType /\ WorkType /\ MapType /\ TaskType
<1>. QED
  BY Zenon DEF TypeOK, FileType, WorkType, MapType, TaskType

\* The same in the next state.
LEMMA TypePartsNext == FileType' /\ WorkType' /\ MapType' /\ TaskType' => TypeOK'
<1>. QED
  BY TypeParts, PTL

\* The parts of the invariant.
LEMMA InvParts ==
  ASSUME ReloadInv
  PROVE  /\ FileType /\ WorkType /\ MapType /\ TaskType
         /\ KnobsInv /\ TasksLabelled /\ NoOrphanTask
         /\ Serving => reap = {} /\ MapInv /\ WaitInv /\ WorkInv /\ RegistryInv /\ GraceInv
<1>. QED
  BY TypeParts, Zenon DEF ReloadInv, TaskInv, ServeInv

\* A free identity is a task state.
LEMMA FreeState == FreeTask \in TaskState /\ FreeTask.phase = "free"
<1>. QED
  BY Zenon DEF FreeTask, TaskState, TaskPhases

\* A task that ends keeps its label while somebody holds its handle.
LEMMA EndedState ==
  ASSUME NEW i \in Task, task[i] \in TaskState
  PROVE  /\ Ended(i) \in TaskState /\ Ended(i).phase \in {"gone", "free"}
         /\ Ended(i).phase = "gone" => Ended(i).label = task[i].label
         /\ Ended(i).phase = "free" => i \notin reap \cup {waited} \cup {fwds[l] : l \in Label}
<1>1. CASE i \in reap \cup {waited} \cup {fwds[l] : l \in Label}
  <2>1. Ended(i) = [task[i] EXCEPT !.phase = "gone"]
    BY <1>1, Zenon DEF Ended
  <2>. QED
    BY <2>1, Zenon DEF TaskState, TaskPhases
<1>2. CASE i \notin reap \cup {waited} \cup {fwds[l] : l \in Label}
  <2>1. Ended(i) = FreeTask
    BY <1>2, Zenon DEF Ended
  <2>. QED
    BY <1>2, <2>1, FreeState, Zenon
<1>. QED
  BY <1>1, <1>2, Zenon

\* The reaped handle frees the identity of a task that is gone.
LEMMA ReapedState ==
  ASSUME NEW i \in Task, TaskType
  PROVE  /\ Reaped(i) \in [Task -> TaskState]
         /\ \A j \in Task : j # i => Reaped(i)[j] = task[j]
         /\ Reaped(i)[i] = task[i] \/ (task[i].phase = "gone" /\ Reaped(i)[i] = FreeTask)
<1>. QED
  BY FreeState, Zenon DEF Reaped, TaskType

-----------------------------------------------------------------------------
(* Steps that leave tasks, map and registry alone.                         *)

\* A step of main, of the watcher or of the file.
LEMMA ControlMoves ==
  ASSUME ReloadInv, UNCHANGED <<task, panics, overrun, fwds, registry, waited, reap>>,
         FileType', WorkType', KnobsInv', Serving' => Serving /\ WaitInv' /\ WorkInv'
  PROVE  Kept
<1>0. /\ MapType /\ TaskType /\ TasksLabelled /\ NoOrphanTask
      /\ Serving => reap = {} /\ MapInv /\ RegistryInv /\ GraceInv
  BY InvParts, Zenon
<1>1. MapType' /\ TaskType'
  BY <1>0, Zenon DEF MapType, TaskType
<1>2. TaskInv'
  BY <1>0, Zenon DEF TaskInv, TasksLabelled, NoOrphanTask, Alive
<1>3. Serving' => reap' = {} /\ MapInv' /\ RegistryInv' /\ GraceInv'
  <2>. SUFFICES ASSUME Serving' PROVE reap' = {} /\ MapInv' /\ RegistryInv' /\ GraceInv'
    BY Zenon
  <2>1. Running' = Running /\ Stopping' = Stopping
    BY Zenon DEF Running, Stopping
  <2>2. reap' = {} /\ MapInv'
    BY <1>0, <2>1, Zenon DEF MapInv
  <2>3. RegistryInv'
    BY <1>0, <2>1, Zenon DEF RegistryInv
  <2>4. GraceInv'
    BY <1>0, Zenon DEF GraceInv, Alive
  <2>. QED
    BY <2>2, <2>3, <2>4, Zenon
<1>. QED
  BY <1>1, <1>2, <1>3, TypePartsNext, Zenon DEF Kept, ServeInv

\* The operator writes the file, and the event reaches the channel.
LEMMA FileStep ==
  ASSUME ReloadInv, EventDelivered \/ \E f \in Config \cup {Broken} : Edit(f)
  PROVE  Kept
<1>0. FileType /\ WorkType /\ KnobsInv /\ (Serving => WaitInv /\ WorkInv)
  BY InvParts, Zenon
<1>1. UNCHANGED <<source, main, watcher, syncVars, reap, fwds, registry, knobs, taskVars>>
  BY Zenon DEF EventDelivered, Edit
<1>2. FileType'
  <2>1. CASE EventDelivered
    BY <1>0, <2>1, Zenon DEF EventDelivered, FileType
  <2>2. ASSUME NEW f \in Config \cup {Broken}, Edit(f) PROVE FileType'
    <3>1. edits' \in 0..MaxEdits
      BY <1>0, <2>2, ReloadAssumption DEF Edit, FileType
    <3>. QED
      BY <1>0, <2>2, <3>1, Zenon DEF Edit, FileType
  <2>. QED
    BY <2>1, <2>2, Zenon
<1>3. WorkType' /\ KnobsInv'
  BY <1>0, <1>1, Zenon DEF WorkType, KnobsInv, syncVars
<1>4. Serving' => Serving /\ WaitInv' /\ WorkInv'
  <2>1. Running' = Running
    BY <1>1, Zenon DEF Running
  <2>. QED
    BY <1>0, <1>1, <2>1, Zenon DEF Serving, WaitInv, WorkInv, syncVars, taskVars
<1>. QED
  BY <1>1, <1>2, <1>3, <1>4, ControlMoves, Zenon DEF syncVars, taskVars

\* main loads the configuration, hands over to the watcher, is signalled and exits.
LEMMA MainStep ==
  ASSUME ReloadInv,
         \/ LoadRefused \/ SpawnWatcher \/ Signal \/ Exit
         \/ (\E L \in LabelSets : LoadForwarders(L)) \/ (\E k \in Knob : LoadSettings(k))
  PROVE  Kept
<1>0. FileType /\ WorkType /\ KnobsInv /\ (Serving => WaitInv /\ WorkInv)
  BY InvParts, Zenon
<1>1. UNCHANGED <<fileVars, waited, reap, fwds, registry, taskVars>>
  BY Zenon DEF LoadRefused, SpawnWatcher, Signal, Exit, LoadForwarders, LoadSettings, syncVars
<1>2. FileType' /\ UNCHANGED <<source, waited, task>> /\ Running' = Running
  BY <1>0, <1>1, Zenon DEF FileType, fileVars, taskVars, Running
<1>3. CASE LoadRefused \/ Signal \/ Exit
  <2>1. main' \in {"signalled", "exited"} /\ UNCHANGED <<watcher, syncVars, knobs>>
    BY <1>3, Zenon DEF LoadRefused, Signal, Exit
  <2>2. WorkType' /\ KnobsInv' /\ ~Serving'
    BY <1>0, <2>1, Zenon DEF WorkType, KnobsInv, Serving, MainPhases, syncVars
  <2>. QED
    BY <1>1, <1>2, <2>2, ControlMoves, Zenon DEF taskVars
<1>4. CASE SpawnWatcher
  <2>1. /\ main = "start" /\ todo.start = {} /\ main' = "run" /\ watcher' = "arm"
        /\ UNCHANGED <<loaded, todo, knobs>>
    BY <1>4, Zenon DEF SpawnWatcher, syncVars
  <2>2. Serving /\ WaitInv /\ WorkInv
    BY <1>0, <2>1, Zenon DEF Serving
  <2>3. WorkType' /\ KnobsInv'
    BY <1>0, <2>1, Zenon DEF WorkType, KnobsInv, MainPhases, WatcherPhases
  <2>4. WaitInv' /\ WorkInv'
    BY <1>2, <2>1, <2>2, Zenon DEF WaitInv, WorkInv
  <2>. QED
    BY <1>1, <1>2, <2>2, <2>3, <2>4, ControlMoves, Zenon DEF taskVars
<1>5. ASSUME NEW L \in LabelSets, LoadForwarders(L) PROVE Kept
  <2>1. /\ main = "boot" /\ main' = "settings" /\ UNCHANGED <<watcher, knobs>>
        /\ loaded' = [labels |-> L, knobs |-> NoKnob]
        /\ todo' = [stop |-> {}, start |-> L]
    BY <1>5, Zenon DEF LoadForwarders, NoConfig, NoTodo
  <2>2. Serving /\ WaitInv /\ WorkInv
    BY <1>0, <2>1, Zenon DEF Serving
  <2>3. WorkType'
    BY <1>0, <1>5, <2>1, Zenon DEF WorkType, MainPhases, LabelSets
  <2>4. watcher = "unborn" /\ Running = {}
    BY <2>1, <2>2, Zenon DEF WorkInv
  <2>5. WaitInv' /\ WorkInv'
    BY <1>2, <2>1, <2>2, <2>4, Zenon DEF WaitInv, WorkInv
  <2>6. KnobsInv'
    BY <1>0, <2>1, <2>4, Zenon DEF KnobsInv
  <2>. QED
    BY <1>1, <1>2, <2>2, <2>3, <2>5, <2>6, ControlMoves, Zenon DEF taskVars
<1>6. ASSUME NEW k \in Knob, LoadSettings(k) PROVE Kept
  <2>1. /\ main = "settings" /\ main' = "start" /\ knobs' = k
        /\ loaded' = [loaded EXCEPT !.knobs = k]
        /\ UNCHANGED <<watcher, todo>>
    BY <1>6, Zenon DEF LoadSettings
  <2>2. Serving /\ WaitInv /\ WorkInv
    BY <1>0, <2>1, Zenon DEF Serving
  <2>3. loaded' \in [labels : LabelSets, knobs : Knob] /\ loaded'.labels = loaded.labels /\ loaded'.knobs = k
    BY <1>0, <1>6, <2>1, Zenon DEF WorkType
  <2>4. WorkType' /\ KnobsInv'
    BY <1>0, <1>6, <2>1, <2>3, Zenon DEF WorkType, KnobsInv, MainPhases
  <2>5. WaitInv' /\ WorkInv'
    BY <1>2, <2>1, <2>2, <2>3, Zenon DEF WaitInv, WorkInv
  <2>. QED
    BY <1>1, <1>2, <2>2, <2>4, <2>5, ControlMoves, Zenon DEF taskVars
<1>. QED
  BY <1>3, <1>4, <1>5, <1>6, Zenon

\* The watcher waits, debounces and loads; sync computes its work.
LEMMA WatcherStep ==
  ASSUME ReloadInv,
         \/ WatchArmed \/ WatchEnds \/ DirtyReceived \/ Settled \/ LoadFails \/ Load
         \/ SyncBegins \/ SyncEnds
  PROVE  Kept
<1>0. FileType /\ WorkType /\ MapType /\ KnobsInv /\ (Serving => WaitInv /\ WorkInv)
  BY InvParts, Zenon
<1>1. UNCHANGED <<file, edits, event, source, main, waited, reap, fwds, registry, task, panics, overrun>>
  BY Zenon DEF WatchArmed, WatchEnds, DirtyReceived, Settled, LoadFails, Load, SyncBegins, SyncEnds,
         fileVars, syncVars, taskVars
<1>2. dirty' \in BOOLEAN
  BY <1>0, Zenon DEF WatchArmed, WatchEnds, DirtyReceived, Settled, LoadFails, Load, SyncBegins, SyncEnds,
              fileVars, FileType
<1>3. FileType' /\ Running' = Running /\ (Serving' => Serving)
  BY <1>0, <1>1, <1>2, Zenon DEF FileType, Running, Serving
<1>4. main = "run" \/ ~Serving
  BY Zenon DEF WatchArmed, WatchEnds, DirtyReceived, Settled, LoadFails, Load, SyncBegins, SyncEnds,
         Live, Serving
<1>5. CASE WatchArmed \/ WatchEnds \/ DirtyReceived \/ Settled \/ LoadFails \/ SyncEnds
  <2>1. UNCHANGED <<loaded, todo, knobs>> /\ watcher' \in {"idle", "settle", "load", "gone"}
    BY <1>5, Zenon DEF WatchArmed, WatchEnds, DirtyReceived, Settled, LoadFails, SyncEnds, syncVars
  <2>2. /\ watcher \in {"arm", "idle", "settle", "load"} \/ (watcher = "sync" /\ todo = NoTodo)
    BY <1>5, Zenon DEF WatchArmed, WatchEnds, DirtyReceived, Settled, LoadFails, SyncEnds
  <2>3. WorkType' /\ KnobsInv'
    BY <1>0, <1>1, <2>1, <2>2, Zenon DEF WorkType, KnobsInv, WatcherPhases
  <2>4. ASSUME Serving PROVE WaitInv' /\ WorkInv'
    <3>1. main = "run" /\ WaitInv /\ WorkInv
      BY <1>0, <1>4, <2>4, Zenon
    <3>2. waited = NoTask
      BY <2>2, <3>1 DEF WaitInv, NoTodo
    <3>3. source = "File" => Running = loaded.labels
      BY <2>2, <3>1 DEF WorkInv, NoTodo
    <3>. QED
      BY <1>1, <1>3, <2>1, <3>1, <3>2, <3>3, Zenon DEF WaitInv, WorkInv
  <2>. QED
    BY <1>1, <1>3, <2>3, <2>4, ControlMoves, Zenon
<1>6. CASE Load
  <2>1. /\ watcher = "load" /\ watcher' = "loaded" /\ file \in Config
        /\ loaded' = file /\ knobs' = file.knobs /\ UNCHANGED todo
        /\ main \notin {"boot", "settings"}
    BY <1>0, <1>6, Zenon DEF Load, FileType, Live
  <2>2. file.labels \in LabelSets /\ file.knobs \in Knob /\ file \in [labels : LabelSets, knobs : Knob]
    BY <2>1, Zenon DEF Config
  <2>3. WorkType' /\ KnobsInv'
    BY <1>0, <1>1, <2>1, <2>2, Zenon DEF WorkType, KnobsInv, WatcherPhases
  <2>4. ASSUME Serving PROVE WaitInv' /\ WorkInv'
    BY <1>0, <1>1, <1>3, <1>4, <2>1, <2>4, Zenon DEF WaitInv, WorkInv
  <2>. QED
    BY <1>1, <1>3, <2>3, <2>4, ControlMoves, Zenon
<1>7. CASE SyncBegins
  <2>1. watcher = "loaded" /\ UNCHANGED <<loaded, knobs>>
    BY <1>7, Zenon DEF SyncBegins
  <2>2. Running \subseteq Label /\ loaded.labels \subseteq Label
    BY <1>0, Zenon DEF Running, WorkType, LabelSets
  <2>3. \/ /\ source = "File" /\ watcher' = "sync"
           /\ todo' = [stop |-> Running \ loaded.labels, start |-> loaded.labels \ Running]
        \/ source = "Pinned" /\ watcher' = "idle" /\ UNCHANGED todo
    BY <1>0, <1>7, Zenon DEF SyncBegins, FileType
  <2>4. WorkType' /\ KnobsInv'
    BY <1>0, <1>1, <2>1, <2>2, <2>3 DEF WorkType, KnobsInv, WatcherPhases
  <2>5. ASSUME Serving PROVE WaitInv' /\ WorkInv'
    <3>1. main = "run" /\ waited = NoTask
      BY <1>0, <1>4, <2>1, <2>5, Zenon DEF WaitInv
    <3>. QED
      BY <1>1, <1>3, <2>1, <2>3, <3>1 DEF WaitInv, WorkInv
  <2>. QED
    BY <1>1, <1>3, <2>4, <2>5, ControlMoves, Zenon
<1>. QED
  BY <1>5, <1>6, <1>7, Zenon

-----------------------------------------------------------------------------
(* Steps of the tasks.                                                     *)

\* A task moves on by itself: it keeps its label while its handle is held, does
\* not come back to life.
LEMMA TaskMoves ==
  ASSUME ReloadInv, NEW i \in Task, NEW r \in TaskState,
         task' = [task EXCEPT ![i] = r],
         UNCHANGED <<fileVars, main, watcher, syncVars, reap, fwds, registry, knobs>>,
         panics' \in 0..MaxPanics, UNCHANGED overrun,
         task[i].phase # "free",
         r.phase # "free" => r.label = task[i].label,
         r.phase = "free" => i \notin reap \cup {waited} \cup {fwds[l] : l \in Label},
         r.phase \in {"bind", "backoff", "listen"} => Alive(i) /\ r.cancelled = task[i].cancelled
  PROVE  Kept
<1>0. /\ FileType /\ WorkType /\ MapType /\ TaskType
      /\ KnobsInv /\ TasksLabelled /\ NoOrphanTask
      /\ Serving => reap = {} /\ MapInv /\ WaitInv /\ WorkInv /\ RegistryInv /\ GraceInv
  BY InvParts, Zenon
<1>1. task'[i] = r /\ \A j \in Task : j # i => task'[j] = task[j]
  BY <1>0, Zenon DEF TaskType
<1>2. TypeOK'
  <2>1. FileType' /\ WorkType' /\ MapType'
    BY <1>0, Zenon DEF FileType, WorkType, MapType, fileVars, syncVars
  <2>2. TaskType'
    BY <1>0, Zenon DEF TaskType
  <2>. QED
    BY <2>1, <2>2, TypePartsNext, Zenon
<1>3. KnobsInv'
  BY <1>0, Zenon DEF KnobsInv, syncVars
<1>4. TasksLabelled'
  BY <1>0, <1>1, Zenon DEF TasksLabelled
<1>5. NoOrphanTask'
  <2>. SUFFICES ASSUME NEW j \in Task, Alive(j)', ~task'[j].cancelled
                PROVE  fwds[task'[j].label] = j
    BY Zenon DEF NoOrphanTask
  <2>1. CASE j = i
    <3>1. Alive(i) /\ ~task[i].cancelled /\ r.label = task[i].label
      BY <1>1, <2>1, Zenon DEF Alive
    <3>. QED
      BY <1>0, <1>1, <2>1, <3>1 DEF NoOrphanTask
  <2>2. CASE j # i
    BY <1>0, <1>1, <2>2, Zenon DEF NoOrphanTask, Alive
  <2>. QED
    BY <2>1, <2>2, Zenon
<1>6. Running' = Running /\ Serving' = Serving /\ waited' = waited /\ todo' = todo /\ loaded' = loaded
  BY Zenon DEF Running, Serving, syncVars
<1>7. ASSUME Serving PROVE reap' = {} /\ MapInv' /\ WaitInv' /\ WorkInv' /\ RegistryInv' /\ GraceInv'
  <2>1. MapInv'
    <3>. SUFFICES ASSUME NEW l \in Running PROVE task'[fwds[l]].phase # "free" /\ task'[fwds[l]].label = l
      BY <1>6, Zenon DEF MapInv
    <3>1. fwds[l] \in Task /\ l \in Label /\ task[fwds[l]].phase # "free" /\ task[fwds[l]].label = l
      BY <1>0, <1>7, Zenon DEF MapType, Running, MapInv
    <3>. QED
      BY <1>1, <3>1, Zenon
  <2>2. waited # NoTask => /\ waited \in Task /\ task'[waited].phase # "free"
                           /\ task'[waited].label = task[waited].label
    BY <1>0, <1>1, <1>7, Zenon DEF MapType, WaitInv
  <2>3. WaitInv'
    BY <1>0, <1>6, <1>7, <2>2, Zenon DEF WaitInv
  <2>4. WorkInv'
    BY <1>0, <1>6, <1>7, Zenon DEF WorkInv, fileVars
  <2>5. RegistryInv'
    <3>1. Stopping' = Stopping
      BY <1>6, <2>2, Zenon DEF Stopping
    <3>. QED
      BY <1>0, <1>6, <1>7, <3>1, Zenon DEF RegistryInv
  <2>6. GraceInv'
    <3>. SUFFICES ASSUME ~overrun', NEW j \in Task
                  PROVE  Alive(j)' /\ task'[j].cancelled => j = waited
      BY <1>6, Zenon DEF GraceInv
    <3>1. Alive(j) /\ task[j].cancelled => j = waited
      BY <1>0, <1>7, Zenon DEF GraceInv
    <3>. QED
      BY <1>1, <3>1, Zenon DEF Alive
  <2>. QED
    BY <1>0, <1>7, <2>1, <2>3, <2>4, <2>5, <2>6, Zenon
<1>. QED
  BY <1>2, <1>3, <1>4, <1>5, <1>6, <1>7, Zenon DEF Kept, TaskInv, ServeInv

\* run_forwarder binds, retries, ends, lingers or panics.
LEMMA ForwarderStep ==
  ASSUME ReloadInv, NEW i \in Task, Forwarder(i)
  PROVE  Kept
<1>0. TaskType /\ task[i] \in TaskState
  BY InvParts, Zenon DEF TaskType
<1>1. UNCHANGED <<fileVars, main, watcher, syncVars, reap, fwds, registry, knobs, overrun>>
  BY Zenon DEF Forwarder, Bind, BindFails, BindAgain, TaskEnds, TaskLingers, LingerEnds, TaskPanics, SetTask
<1>2. panics' \in 0..MaxPanics
  BY <1>0, ReloadAssumption DEF Forwarder, Bind, BindFails, BindAgain, TaskEnds, TaskLingers, LingerEnds,
     TaskPanics, SetTask, TaskType
<1>3. CASE Alive(i) /\ \E ph \in {"bind", "backoff", "listen", "linger"} :
             task' = [task EXCEPT ![i] = [task[i] EXCEPT !.phase = ph]]
  <2>1. PICK ph \in {"bind", "backoff", "listen", "linger"} :
           task' = [task EXCEPT ![i] = [task[i] EXCEPT !.phase = ph]]
    BY <1>3, Zenon
  <2>2. /\ [task[i] EXCEPT !.phase = ph] \in TaskState
        /\ [task[i] EXCEPT !.phase = ph].phase = ph
        /\ [task[i] EXCEPT !.phase = ph].label = task[i].label
        /\ [task[i] EXCEPT !.phase = ph].cancelled = task[i].cancelled
    BY <1>0, Zenon DEF TaskState, TaskPhases
  <2>. QED
    BY <1>1, <1>2, <1>3, <2>1, <2>2, TaskMoves, Zenon DEF Alive
<1>4. CASE task' = [task EXCEPT ![i] = Ended(i)] /\ task[i].phase # "free"
  <2>1. /\ Ended(i) \in TaskState /\ Ended(i).phase \in {"gone", "free"}
        /\ Ended(i).phase = "gone" => Ended(i).label = task[i].label
        /\ Ended(i).phase = "free" => i \notin reap \cup {waited} \cup {fwds[l] : l \in Label}
    BY <1>0, EndedState, Zenon
  <2>. QED
    BY <1>1, <1>2, <1>4, <2>1, TaskMoves, Zenon
<1>. QED
  BY <1>3, <1>4, Zenon DEF Forwarder, Bind, BindFails, BindAgain, TaskEnds, TaskLingers, LingerEnds,
     TaskPanics, SetTask, Alive

-----------------------------------------------------------------------------
(* start_one, stop_one and shutdown_all.                                   *)

\* start_one as start_all and sync call it: for a label of the configuration being
\* applied, when nothing outside it runs any more.
LEMMA StartMoves ==
  ASSUME ReloadInv, NEW l \in Label, StartOne(l), l \in todo.start,
         todo' = [todo EXCEPT !.start = @ \ {l}],
         UNCHANGED <<fileVars, main, watcher, loaded, waited, reap, knobs, panics, overrun>>,
         Serving => /\ main = "start" \/ (main = "run" /\ watcher = "sync" /\ todo.stop = {})
  PROVE  Kept
<1>0. /\ FileType /\ WorkType /\ MapType /\ TaskType
      /\ KnobsInv /\ TasksLabelled /\ NoOrphanTask
      /\ Serving => reap = {} /\ MapInv /\ WaitInv /\ WorkInv /\ RegistryInv /\ GraceInv
  BY InvParts, Zenon
<1>1. FileType' /\ KnobsInv' /\ Serving' = Serving /\ UNCHANGED source
  BY <1>0, Zenon DEF FileType, KnobsInv, Serving, fileVars
<1>2. /\ todo'.stop = todo.stop /\ todo'.start = todo.start \ {l}
      /\ todo' \in [stop : SUBSET Label, start : SUBSET Label]
  BY <1>0, Zenon DEF WorkType
<1>3. WorkType'
  BY <1>0, <1>2, Zenon DEF WorkType
<1>4. ASSUME Serving
      PROVE  waited = NoTask /\ l \in loaded.labels /\ Running \subseteq loaded.labels /\ Stopping = {}
  <2>1. waited = NoTask
    BY <1>0, <1>4, Zenon DEF WaitInv
  <2>. QED
    BY <1>0, <1>4, <2>1, Zenon DEF WorkInv, Stopping
<1>5. ASSUME Serving, Running' = Running \cup {l} PROVE WaitInv' /\ WorkInv'
  <2>1. WaitInv'
    BY <1>4, <1>5, Zenon DEF WaitInv
  <2>2. CASE main = "start"
    BY <1>0, <1>1, <1>2, <1>5, <2>1, <2>2, Zenon DEF WorkInv
  <2>3. CASE main = "run" /\ watcher = "sync" /\ todo.stop = {}
    BY <1>0, <1>1, <1>2, <1>4, <1>5, <2>1, <2>3, Zenon DEF WorkInv
  <2>. QED
    BY <1>5, <2>2, <2>3, Zenon
<1>6. CASE l \in Running
  <2>1. UNCHANGED <<fwds, registry, task>> /\ Running' = Running \cup {l}
    BY <1>6, Zenon DEF StartOne, Running
  <2>. QED
    BY <1>1, <1>3, <1>5, <2>1, ControlMoves, Zenon
<1>7. CASE l \notin Running
  <2>1. PICK i \in Task :
          /\ task[i].phase = "free"
          /\ task' = [task EXCEPT ![i] = [label |-> l, phase |-> "bind", cancelled |-> FALSE]]
          /\ fwds' = [fwds EXCEPT ![l] = i]
          /\ registry' = registry \cup {l}
    BY <1>7, Zenon DEF StartOne
  <2>2. fwds[l] = NoTask /\ NoTask \notin Task
    BY <1>7, ReloadAssumption, Zenon DEF Running
  <2>3. /\ task'[i] = [label |-> l, phase |-> "bind", cancelled |-> FALSE]
        /\ \A j \in Task : j # i => task'[j] = task[j]
        /\ fwds'[l] = i /\ \A k \in Label : k # l => fwds'[k] = fwds[k]
    BY <1>0, <2>1, Zenon DEF TaskType, MapType
  <2>4. TypeOK'
    <3>1. MapType'
      BY <1>0, <2>1, Zenon DEF MapType
    <3>2. [label |-> l, phase |-> "bind", cancelled |-> FALSE] \in TaskState
      BY Zenon DEF TaskState, TaskPhases
    <3>3. TaskType'
      BY <1>0, <2>1, <3>2, Zenon DEF TaskType
    <3>. QED
      BY <1>1, <1>3, <3>1, <3>3, TypePartsNext, Zenon
  <2>5. TasksLabelled'
    BY <1>0, <2>3 DEF TasksLabelled
  <2>6. NoOrphanTask'
    <3>. SUFFICES ASSUME NEW j \in Task, Alive(j)', ~task'[j].cancelled
                  PROVE  fwds'[task'[j].label] = j
      BY Zenon DEF NoOrphanTask
    <3>1. CASE j = i
      BY <2>3, <3>1
    <3>2. CASE j # i
      <4>1. task'[j] = task[j] /\ Alive(j) /\ fwds[task[j].label] = j
        BY <1>0, <2>3, <3>2, Zenon DEF NoOrphanTask, Alive
      <4>2. task[j].label \in Label /\ task[j].label # l
        BY <1>0, <2>2, <4>1, Zenon DEF TasksLabelled, Alive
      <4>. QED
        BY <2>3, <4>1, <4>2, Zenon
    <3>. QED
      BY <3>1, <3>2, Zenon
  <2>7. Running' = Running \cup {l}
    BY <2>2, <2>3, Zenon DEF Running
  <2>8. ASSUME Serving PROVE MapInv' /\ RegistryInv' /\ GraceInv'
    <3>1. MapInv'
      <4>. SUFFICES ASSUME NEW k \in Running'
                    PROVE  task'[fwds'[k]].phase # "free" /\ task'[fwds'[k]].label = k
        BY Zenon DEF MapInv
      <4>1. CASE k = l
        BY <2>3, <4>1
      <4>2. CASE k # l
        <5>1. k \in Running /\ k \in Label /\ fwds'[k] = fwds[k] /\ fwds[k] \in Task
          BY <1>0, <2>3, <2>7, <4>2, Zenon DEF Running, MapType
        <5>2. task[fwds[k]].phase # "free" /\ task[fwds[k]].label = k
          BY <1>0, <2>8, <5>1, Zenon DEF MapInv
        <5>. QED
          BY <2>1, <2>3, <5>1, <5>2, Zenon
      <4>. QED
        BY <4>1, <4>2, Zenon
    <3>2. RegistryInv'
      <4>1. Stopping' = {}
        BY <1>4, <2>8, Zenon DEF Stopping
      <4>2. registry' = Running' /\ Running' \subseteq loaded.labels
        BY <1>0, <1>4, <2>1, <2>7, <2>8, Zenon DEF RegistryInv
      <4>3. \A k, m \in loaded.labels : PortOf[k] = PortOf[m] => k = m
        BY <1>0, Zenon DEF WorkType, LabelSets
      <4>. QED
        BY <4>1, <4>2, <4>3, Zenon DEF RegistryInv
    <3>3. GraceInv'
      BY <1>0, <2>3, <2>8 DEF GraceInv, Alive
    <3>. QED
      BY <3>1, <3>2, <3>3, Zenon
  <2>. QED
    BY <1>0, <1>1, <1>5, <2>4, <2>5, <2>6, <2>7, <2>8, Zenon DEF Kept, TaskInv, ServeInv
<1>. QED
  BY <1>6, <1>7, Zenon

\* start_all and the second half of sync.
LEMMA StartStep ==
  ASSUME ReloadInv, NEW l \in Label, StartAll(l) \/ SyncStarts(l)
  PROVE  Kept
<1>1. /\ StartOne(l) /\ l \in todo.start /\ todo' = [todo EXCEPT !.start = @ \ {l}]
      /\ UNCHANGED <<fileVars, main, watcher, loaded, waited, reap, knobs, panics, overrun>>
  BY Zenon DEF StartAll, SyncStarts
<1>2. Serving => main = "start" \/ (main = "run" /\ watcher = "sync" /\ todo.stop = {})
  BY Zenon DEF StartAll, SyncStarts, Live, Serving
<1>. QED
  BY <1>1, <1>2, StartMoves, Zenon

\* stop_one takes the handle out of the map and cancels the task.
LEMMA StopBeginsStep ==
  ASSUME ReloadInv, NEW l \in Label, SyncStops(l)
  PROVE  Kept
<1>0. /\ FileType /\ WorkType /\ MapType /\ TaskType
      /\ KnobsInv /\ TasksLabelled /\ NoOrphanTask
      /\ Serving => reap = {} /\ MapInv /\ WaitInv /\ WorkInv /\ RegistryInv /\ GraceInv
  BY InvParts, Zenon
<1>1. /\ watcher = "sync" /\ waited = NoTask /\ l \in todo.stop
      /\ todo' = [todo EXCEPT !.stop = IF l \in Running THEN @ ELSE @ \ {l}]
      /\ UNCHANGED <<fileVars, main, watcher, loaded, reap, registry, knobs, panics, overrun>>
  BY Zenon DEF SyncStops
<1>2. FileType' /\ KnobsInv' /\ Serving' = Serving /\ UNCHANGED source
  BY <1>0, <1>1, Zenon DEF FileType, KnobsInv, Serving, fileVars
<1>3. Serving => main = "run"
  BY Zenon DEF SyncStops, Live, Serving
<1>4. CASE l \notin Running
  <2>1. UNCHANGED <<fwds, task, waited>>
    BY <1>4, Zenon DEF SyncStops
  <2>2. todo'.stop = todo.stop \ {l} /\ todo'.start = todo.start /\ WorkType'
    BY <1>0, <1>1, <1>4, Zenon DEF WorkType
  <2>3. Running' = Running
    BY <2>1, Zenon DEF Running
  <2>4. ASSUME Serving PROVE WaitInv' /\ WorkInv'
    BY <1>0, <1>1, <1>2, <1>3, <1>4, <2>1, <2>2, <2>3, <2>4, Zenon DEF WaitInv, WorkInv
  <2>. QED
    BY <1>1, <1>2, <2>1, <2>2, <2>4, ControlMoves, Zenon
<1>5. CASE l \in Running
  <2>1. /\ fwds' = [fwds EXCEPT ![l] = NoTask]
        /\ task' = [task EXCEPT ![fwds[l]].cancelled = TRUE]
        /\ waited' = fwds[l] /\ todo' = todo
    <3>1. StopBegins(l)
      BY <1>5, Zenon DEF SyncStops
    <3>2. todo' = todo
      BY <1>0, <1>1, <1>5, Zenon DEF WorkType
    <3>. QED
      BY <3>1, <3>2, Zenon DEF StopBegins
  <2>2. fwds[l] \in Task /\ fwds[l] # NoTask /\ NoTask \notin Task
    BY <1>0, <1>5, ReloadAssumption, Zenon DEF Running, MapType
  <2>3. /\ task'[fwds[l]] = [task[fwds[l]] EXCEPT !.cancelled = TRUE]
        /\ task[fwds[l]] \in TaskState
        /\ \A j \in Task : j # fwds[l] => task'[j] = task[j]
    BY <1>0, <2>1, <2>2, Zenon DEF TaskType
  <2>4. /\ task'[fwds[l]] \in TaskState
        /\ task'[fwds[l]].cancelled = TRUE
        /\ \A j \in Task : task'[j].label = task[j].label /\ task'[j].phase = task[j].phase
    <3>1. /\ task'[fwds[l]] \in TaskState
          /\ task'[fwds[l]].cancelled = TRUE
          /\ task'[fwds[l]].label = task[fwds[l]].label
          /\ task'[fwds[l]].phase = task[fwds[l]].phase
      BY <2>3, Zenon DEF TaskState
    <3>. QED
      BY <2>3, <3>1, Zenon
  <2>5. TypeOK'
    <3>1. WorkType'
      BY <1>0, <1>1, <2>1, Zenon DEF WorkType
    <3>2. MapType'
      BY <1>0, <1>1, <2>1, <2>2, Zenon DEF MapType
    <3>3. TaskType'
      BY <1>0, <1>1, <2>1, <2>3, <2>4, Zenon DEF TaskType
    <3>. QED
      BY <1>2, <3>1, <3>2, <3>3, TypePartsNext, Zenon
  <2>6. fwds'[l] = NoTask /\ \A k \in Label : k # l => fwds'[k] = fwds[k]
    BY <1>0, <2>1, Zenon DEF MapType
  <2>7. TaskInv'
    <3>1. TasksLabelled'
      BY <1>0, <2>4, Zenon DEF TasksLabelled
    <3>2. ASSUME NEW j \in Task, Alive(j)', ~task'[j].cancelled PROVE fwds'[task'[j].label] = j
      <4>1. j # fwds[l] /\ task'[j] = task[j] /\ Alive(j)
        BY <2>3, <2>4, <3>2, Zenon DEF Alive
      <4>2. fwds[task[j].label] = j /\ task[j].label \in Label
        BY <1>0, <3>2, <4>1, Zenon DEF NoOrphanTask, TasksLabelled, Alive
      <4>. QED
        BY <2>6, <4>1, <4>2, Zenon
    <3>. QED
      BY <3>1, <3>2, Zenon DEF TaskInv, NoOrphanTask
  <2>8. Running' = Running \ {l}
    BY <2>6, Zenon DEF Running
  <2>9. ASSUME Serving PROVE reap' = {} /\ MapInv' /\ WaitInv' /\ WorkInv' /\ RegistryInv' /\ GraceInv'
    <3>0. reap = {} /\ MapInv /\ WorkInv /\ RegistryInv /\ GraceInv /\ main = "run"
      BY <1>0, <1>3, <2>9, Zenon
    <3>1. MapInv'
      <4>. SUFFICES ASSUME NEW k \in Running'
                    PROVE  task'[fwds'[k]].phase # "free" /\ task'[fwds'[k]].label = k
        BY Zenon DEF MapInv
      <4>1. k \in Running /\ fwds'[k] = fwds[k] /\ fwds[k] \in Task
        BY <1>0, <2>6, <2>8, Zenon DEF Running, MapType
      <4>. QED
        BY <2>4, <3>0, <4>1 DEF MapInv
    <3>2. task[fwds[l]].phase # "free" /\ task[fwds[l]].label = l
      BY <1>5, <3>0, Zenon DEF MapInv
    <3>3. WaitInv'
      <4>1. task'[waited'].phase # "free" /\ task'[waited'].label = l
        BY <2>1, <2>2, <2>4, <3>2, Zenon
      <4>2. main' = "run" /\ watcher' = "sync" /\ l \in todo'.stop \ Running'
        BY <1>1, <2>1, <2>8, <3>0, Zenon
      <4>. QED
        BY <4>1, <4>2, Zenon DEF WaitInv
    <3>4. WorkInv'
      BY <1>1, <1>2, <2>1, <2>8, <3>0, Zenon DEF WorkInv
    <3>5. RegistryInv'
      <4>1. Stopping = {} /\ Stopping' = {l}
        BY <1>1, <2>1, <2>2, <2>4, <3>2 DEF Stopping
      <4>2. registry' = Running' \cup Stopping'
        BY <1>1, <1>5, <2>8, <3>0, <4>1, Zenon DEF RegistryInv
      <4>. QED
        BY <1>1, <3>0, <4>2, Zenon DEF RegistryInv
    <3>6. GraceInv'
      BY <1>1, <2>1, <2>2, <2>3, <2>4, <3>0, ReloadAssumption, Zenon DEF GraceInv, Alive
    <3>. QED
      BY <1>1, <3>0, <3>1, <3>3, <3>4, <3>5, <3>6, Zenon
  <2>. QED
    BY <1>2, <2>5, <2>7, <2>9, Zenon DEF Kept, ServeInv
<1>. QED
  BY <1>4, <1>5, Zenon

\* stop_one's wait is over: the task has ended or its grace has.
LEMMA StopEndsStep ==
  ASSUME ReloadInv, StopEnds
  PROVE  Kept
<1>0. /\ FileType /\ WorkType /\ MapType /\ TaskType
      /\ KnobsInv /\ TasksLabelled /\ NoOrphanTask
      /\ Serving => reap = {} /\ MapInv /\ WaitInv /\ WorkInv /\ RegistryInv /\ GraceInv
  BY InvParts, Zenon
<1>1. /\ watcher = "sync" /\ waited # NoTask /\ waited' = NoTask
      /\ todo' = [todo EXCEPT !.stop = @ \ {task[waited].label}]
      /\ registry' = registry \ {task[waited].label}
      /\ task' = Reaped(waited)
      /\ overrun' = (overrun \/ ~Finished(waited))
      /\ UNCHANGED <<fileVars, main, watcher, loaded, reap, fwds, knobs, panics>>
  BY Zenon DEF StopEnds
<1>2. FileType' /\ KnobsInv' /\ Serving' = Serving /\ UNCHANGED source /\ Running' = Running
  BY <1>0, <1>1, Zenon DEF FileType, KnobsInv, Serving, Running, fileVars
<1>3. Serving => main = "run"
  BY Zenon DEF StopEnds, Live, Serving
<1>4. /\ waited \in Task /\ Reaped(waited) \in [Task -> TaskState]
      /\ \A j \in Task : j # waited => task'[j] = task[j]
      /\ task'[waited] = task[waited] \/ (task[waited].phase = "gone" /\ task'[waited] = FreeTask)
  BY <1>0, <1>1, ReapedState, Zenon DEF MapType
<1>5. todo'.stop = todo.stop \ {task[waited].label} /\ todo'.start = todo.start /\ WorkType'
  BY <1>0, <1>1, Zenon DEF WorkType
<1>6. TypeOK'
  <2>1. MapType'
    BY <1>0, <1>1, Zenon DEF MapType
  <2>2. overrun' \in BOOLEAN
    BY <1>1, Zenon
  <2>3. TaskType'
    BY <1>0, <1>1, <1>4, <2>2, Zenon DEF TaskType
  <2>. QED
    BY <1>2, <1>5, <2>1, <2>3, TypePartsNext, Zenon
<1>7. \A j \in Task : task'[j] = task[j] \/ (task[j].phase = "gone" /\ task'[j] = FreeTask)
  BY <1>4, Zenon
<1>8. TaskInv'
  BY <1>0, <1>1, <1>7, FreeState, Zenon DEF TaskInv, TasksLabelled, NoOrphanTask, Alive
<1>9. ASSUME Serving PROVE reap' = {} /\ MapInv' /\ WaitInv' /\ WorkInv' /\ RegistryInv' /\ GraceInv'
  <2>0. /\ reap = {} /\ MapInv /\ WaitInv /\ WorkInv /\ RegistryInv /\ GraceInv /\ main = "run"
        /\ task[waited].label \in todo.stop \ Running
    BY <1>0, <1>1, <1>3, <1>9, Zenon DEF WaitInv
  <2>1. MapInv'
    <3>. SUFFICES ASSUME NEW k \in Running
                  PROVE  task'[fwds[k]].phase # "free" /\ task'[fwds[k]].label = k
      BY <1>1, <1>2, Zenon DEF MapInv
    <3>1. fwds[k] \in Task /\ task[fwds[k]].phase # "free" /\ task[fwds[k]].label = k
      BY <1>0, <2>0, Zenon DEF Running, MapType, MapInv
    <3>. QED
      BY <1>4, <2>0, <3>1, Zenon
  <2>2. WaitInv'
    BY <1>1, Zenon DEF WaitInv
  <2>3. WorkInv'
    BY <1>1, <1>2, <1>5, <2>0, Zenon DEF WorkInv
  <2>4. RegistryInv'
    <3>1. Stopping = {task[waited].label} /\ Stopping' = {}
      BY <1>0, <1>1, <2>0, Zenon DEF Stopping, WorkType
    <3>2. registry' = Running' \cup Stopping'
      BY <1>1, <1>2, <2>0, <3>1, Zenon DEF RegistryInv
    <3>. QED
      BY <1>1, <2>0, <3>2, Zenon DEF RegistryInv
  <2>5. GraceInv'
    <3>. SUFFICES ASSUME ~overrun', NEW j \in Task
                  PROVE  ~(Alive(j)' /\ task'[j].cancelled)
      BY Zenon DEF GraceInv
    <3>1. (Alive(j) /\ task[j].cancelled => j = waited) /\ Finished(waited)
      BY <1>1, <2>0, Zenon DEF GraceInv
    <3>. QED
      BY <1>7, <3>1, FreeState, Zenon DEF Finished, Alive
  <2>. QED
    BY <1>1, <2>0, <2>1, <2>2, <2>3, <2>4, <2>5, Zenon
<1>. QED
  BY <1>2, <1>6, <1>8, <1>9, Zenon DEF Kept, ServeInv

\* shutdown_all empties the map, cancels what it found there and waits.
LEMMA ShutdownStep ==
  ASSUME ReloadInv, DrainAll \/ \E i \in Task : Reap(i)
  PROVE  Kept
<1>0. FileType /\ WorkType /\ MapType /\ TaskType /\ KnobsInv /\ TasksLabelled /\ NoOrphanTask
  BY InvParts, Zenon
<1>1. CASE DrainAll
  <2>1. /\ main' = "reap" /\ reap' = {fwds[l] : l \in Running}
        /\ fwds' = [l \in Label |-> NoTask]
        /\ task' = [i \in Task |-> [task[i] EXCEPT !.cancelled = @ \/ i \in reap']]
        /\ UNCHANGED <<fileVars, watcher, syncVars, registry, knobs, panics, overrun>>
    BY <1>1, Zenon DEF DrainAll
  <2>2. FileType' /\ WorkType' /\ KnobsInv' /\ ~Serving'
    BY <1>0, <2>1, Zenon DEF FileType, WorkType, KnobsInv, Serving, MainPhases, fileVars, syncVars
  <2>3. MapType'
    BY <1>0, <2>1, Zenon DEF MapType, Running, syncVars
  <2>4. ASSUME NEW i \in Task
        PROVE  /\ task'[i] \in TaskState /\ task'[i].label = task[i].label
               /\ task'[i].phase = task[i].phase
               /\ task'[i].cancelled = (task[i].cancelled \/ i \in reap')
    <3>1. task[i] \in TaskState /\ (task[i].cancelled \/ i \in reap') \in BOOLEAN
      BY <1>0, Zenon DEF TaskType
    <3>2. task'[i] = [task[i] EXCEPT !.cancelled = task[i].cancelled \/ i \in reap']
      BY <2>1, Zenon
    <3>. QED
      BY <3>1, <3>2, Zenon DEF TaskState
  <2>5. TaskType'
    <3>1. task' = [i \in Task |-> task'[i]]
      BY <2>1, Zenon
    <3>. QED
      BY <1>0, <2>1, <2>4, <3>1, Zenon DEF TaskType
  <2>6. TasksLabelled'
    BY <1>0, <2>4, Zenon DEF TasksLabelled
  <2>7. NoOrphanTask'
    <3>. SUFFICES ASSUME NEW i \in Task, Alive(i)', ~task'[i].cancelled PROVE FALSE
      BY Zenon DEF NoOrphanTask
    <3>1. Alive(i) /\ ~task[i].cancelled /\ i \notin reap'
      BY <2>4, Zenon DEF Alive
    <3>2. fwds[task[i].label] = i /\ task[i].label \in Label
      BY <1>0, <3>1, Zenon DEF NoOrphanTask, TasksLabelled, Alive
    <3>3. task[i].label \in Running
      BY <3>2, ReloadAssumption, Zenon DEF Running
    <3>. QED
      BY <2>1, <3>1, <3>2, <3>3, Zenon
  <2>. QED
    BY <2>2, <2>3, <2>5, <2>6, <2>7, TypePartsNext, Zenon DEF Kept, TaskInv, ServeInv
<1>2. ASSUME NEW i \in Task, Reap(i) PROVE Kept
  <2>1. /\ main = "reap" /\ reap' = reap \ {i} /\ registry' = registry \ {task[i].label}
        /\ task' = Reaped(i) /\ overrun' = (overrun \/ ~Finished(i))
        /\ UNCHANGED <<fileVars, main, watcher, syncVars, fwds, knobs, panics>>
    BY <1>2, Zenon DEF Reap
  <2>2. FileType' /\ WorkType' /\ KnobsInv' /\ ~Serving'
    BY <1>0, <2>1, Zenon DEF FileType, WorkType, KnobsInv, Serving, fileVars, syncVars
  <2>3. MapType'
    BY <1>0, <2>1, Zenon DEF MapType, syncVars
  <2>4. /\ Reaped(i) \in [Task -> TaskState]
        /\ \A j \in Task : task'[j] = task[j] \/ (task[j].phase = "gone" /\ task'[j] = FreeTask)
    BY <1>0, <1>2, <2>1, ReapedState, Zenon
  <2>5. TaskType'
    <3>1. overrun' \in BOOLEAN
      BY <2>1, Zenon
    <3>. QED
      BY <1>0, <2>1, <2>4, <3>1, Zenon DEF TaskType
  <2>6. TaskInv'
    BY <1>0, <2>1, <2>4, FreeState DEF TaskInv, TasksLabelled, NoOrphanTask, Alive
  <2>. QED
    BY <2>2, <2>3, <2>5, <2>6, TypePartsNext, Zenon DEF Kept, ServeInv
<1>. QED
  BY <1>1, <1>2, Zenon

-----------------------------------------------------------------------------
(* The theorems.                                                           *)

\* The invariant holds when the process starts.
LEMMA InvInit == Init => ReloadInv
<1>. SUFFICES ASSUME Init PROVE ReloadInv
  BY Zenon
<1>0. 0 \in 0..MaxEdits /\ 0 \in 0..MaxPanics
  BY ReloadAssumption
<1>1. FileType
  BY <1>0, Zenon DEF Init, FileType
<1>2. {} \in LabelSets
  BY Zenon DEF LabelSets
<1>3. WorkType /\ KnobsInv
  BY <1>2, Zenon DEF Init, WorkType, KnobsInv, NoConfig, NoTodo, MainPhases, WatcherPhases
<1>4. MapType
  BY Zenon DEF Init, MapType
<1>5. TaskType
  BY <1>0, FreeState, Zenon DEF Init, TaskType
<1>6. Running = {} /\ Stopping = {}
  BY Zenon DEF Init, Running, Stopping
<1>7. \A i \in Task : task[i].phase = "free"
  BY FreeState, Zenon DEF Init
<1>8. TaskInv
  BY <1>7, Zenon DEF TaskInv, TasksLabelled, NoOrphanTask, Alive
<1>9. ServeInv
  BY <1>6, <1>7, Zenon DEF Init, ServeInv, MapInv, WaitInv, WorkInv, RegistryInv, GraceInv, Alive
<1>. QED
  BY <1>1, <1>3, <1>4, <1>5, <1>8, <1>9, TypeParts, Zenon DEF ReloadInv

\* Every step keeps it.
LEMMA InvStep == ReloadInv /\ [Next]_vars => ReloadInv'
<1>. SUFFICES ASSUME ReloadInv, [Next]_vars PROVE Kept
  BY Zenon DEF Kept, ReloadInv
<1>1. CASE Starting
  BY <1>1, MainStep, StartStep, Zenon DEF Starting
<1>2. CASE Signal
  BY <1>2, MainStep, Zenon
<1>3. CASE ShuttingDown
  BY <1>3, MainStep, ShutdownStep, Zenon DEF ShuttingDown
<1>4. CASE Reloading \/ WatchEnds
  BY <1>4, WatcherStep, StopEndsStep, StopBeginsStep, StartStep, Zenon DEF Reloading
<1>5. CASE \E i \in Task : Forwarder(i)
  BY <1>5, ForwarderStep, Zenon
<1>6. CASE EventDelivered \/ \E f \in Config \cup {Broken} : Edit(f)
  BY <1>6, FileStep, Zenon
<1>7. CASE UNCHANGED vars
  <2>1. /\ UNCHANGED <<task, panics, overrun, fwds, registry, waited, reap>>
        /\ UNCHANGED <<fileVars, main, watcher, loaded, todo, knobs>>
    BY <1>7, Zenon DEF vars, fileVars
  <2>2. FileType /\ WorkType /\ KnobsInv /\ (Serving => WaitInv /\ WorkInv)
    BY InvParts, Zenon
  <2>3. FileType' /\ WorkType' /\ KnobsInv' /\ Running' = Running
    BY <2>1, <2>2, Zenon DEF FileType, WorkType, KnobsInv, Running, fileVars
  <2>4. Serving' => Serving /\ WaitInv' /\ WorkInv'
    BY <2>1, <2>2, <2>3, Zenon DEF Serving, WaitInv, WorkInv, fileVars
  <2>. QED
    BY <2>1, <2>3, <2>4, ControlMoves, Zenon
<1>. QED
  BY <1>1, <1>2, <1>3, <1>4, <1>5, <1>6, <1>7, Zenon DEF Next

\* ReloadInv holds throughout.
THEOREM ReloadInvariance == Spec => []ReloadInv
<1>. QED
  BY InvInit, InvStep, PTL DEF Spec

\* Every variable keeps its type.
THEOREM TypeCorrect == Spec => []TypeOK
<1>1. ReloadInv => TypeOK
  BY Zenon DEF ReloadInv
<1>. QED
  BY <1>1, ReloadInvariance, PTL

\* No task that may accept connections is ever out of reach of stop_one and
\* shutdown_all without having been cancelled, whatever the two do to the map at
\* the same time.
THEOREM NothingOrphaned == Spec => []NoOrphanTask
<1>1. ReloadInv => NoOrphanTask
  BY Zenon DEF ReloadInv, TaskInv
<1>. QED
  BY <1>1, ReloadInvariance, PTL

\* Between reloads map, registry and knobs are those of the configuration that was
\* last accepted.
THEOREM ReloadWhole == Spec => []AppliedTogether
<1>1. ReloadInv => AppliedTogether
  <2>. SUFFICES ASSUME ReloadInv, main = "run", watcher \in {"arm", "idle", "settle", "load", "gone"}
                PROVE  /\ knobs = loaded.knobs
                       /\ source = "File" => Running = loaded.labels
                       /\ registry = Running
    BY DEF AppliedTogether
  <2>1. KnobsInv /\ WaitInv /\ WorkInv /\ RegistryInv
    BY InvParts DEF Serving
  <2>2. Stopping = {}
    BY <2>1 DEF WaitInv, Stopping
  <2>. QED
    BY <2>1, <2>2 DEF KnobsInv, WorkInv, RegistryInv
<1>. QED
  BY <1>1, ReloadInvariance, PTL

\* While no wait times out, a forwarder that is binding finds its port held by no
\* other task, whatever labels a reload moves to the same endpoint: only sessions
\* that outlived a UDP engine can be in its way.
THEOREM PortsHandedOver == Spec => []RebindFindsPortFree
<1>1. ReloadInv => RebindFindsPortFree
  <2>. SUFFICES ASSUME ReloadInv, main = "run", ~overrun, NEW i \in Task, NEW j \in Task, i # j,
                       task[i].phase \in {"bind", "backoff"}, Holds(j, PortOf[task[i].label]),
                       task[j].phase # "linger"
                PROVE  FALSE
    BY DEF RebindFindsPortFree
  <2>1. /\ MapType /\ TasksLabelled /\ NoOrphanTask /\ MapInv /\ WaitInv /\ RegistryInv /\ GraceInv
    BY InvParts DEF Serving
  <2>2. Alive(i) /\ Alive(j) /\ PortOf[task[i].label] = PortOf[task[j].label]
    BY <2>1 DEF Holds, Alive
  <2>3. ASSUME NEW t \in Task, Alive(t)
        PROVE  \/ task[t].label \in Running /\ fwds[task[t].label] = t
               \/ task[t].label \in Stopping /\ waited = t
    <3>1. task[t].label \in Label
      BY <2>1, <2>3 DEF TasksLabelled, Alive
    <3>2. CASE task[t].cancelled
      BY <2>1, <2>3, <3>1, <3>2, ReloadAssumption DEF GraceInv, Stopping
    <3>3. CASE ~task[t].cancelled
      BY <2>1, <2>3, <3>1, <3>3, ReloadAssumption DEF NoOrphanTask, Running
    <3>. QED
      BY <3>2, <3>3
  <2>4. task[i].label = task[j].label
    BY <2>1, <2>2, <2>3 DEF RegistryInv
  <2>5. Running \cap Stopping = {}
    BY <2>1 DEF WaitInv, Stopping
  <2>. QED
    BY <2>2, <2>3, <2>4, <2>5
<1>. QED
  BY <1>1, ReloadInvariance, PTL
-----------------------------------------------------------------------------
(* What a step may never do.                                               *)

Watching == watcher \notin {"unborn", "arm", "gone"}

\* The file is what was loaded, or cannot be, or the watcher has yet to look at it.
InStep ==
  file = loaded \/ file = Broken \/ event \/ dirty \/ watcher \in {"settle", "load"}

\* While the directory is watched, a save leaves a trace that only reading the file
\* removes: the coalescing channel, the debounce and the drain forget none.
NoSaveForgotten ==
  [][Watching /\ Watching' /\ (InStep \/ edits' # edits) => InStep']_vars

\* No save is forgotten, whenever it falls between two events, a drain of the
\* channel and a reload.  So, by AppliedTogether, what runs is what the file says
\* whenever the watcher is idle after a save, nothing is pending and the file is
\* valid.
THEOREM SavesRemembered == Spec => NoSaveForgotten
<1>1. ASSUME ReloadInv, Next, Watching, Watching', InStep \/ edits' # edits PROVE InStep'
  <2>0. main \in {"boot", "settings", "start"} => watcher = "unborn"
    BY <1>1, InvParts, Zenon DEF Serving, WorkInv
  <2> USE <1>1 DEF InStep, Watching, fileVars, syncVars
  <2>1. CASE UNCHANGED <<file, edits, event, dirty, loaded, watcher>>
    BY <2>1, Zenon
  <2>2. CASE Starting
    <3>1. main \in {"boot", "settings", "start"}
      BY <2>2, Zenon DEF Starting, LoadForwarders, LoadSettings, LoadRefused, SpawnWatcher, StartAll
    <3> QED BY <2>0, <3>1, Zenon
  <2>3. CASE Signal \/ ShuttingDown
    BY <2>1, <2>3, Zenon DEF Signal, ShuttingDown, DrainAll, Exit, Reap
  <2>4. CASE Reloading
    <3>1. CASE WatchArmed \/ DirtyReceived \/ Settled
      BY <3>1, Zenon DEF WatchArmed, DirtyReceived, Settled
    <3>2. CASE Load \/ LoadFails
      BY <3>2, Zenon DEF Load, LoadFails
    <3>3. CASE SyncBegins
      BY <3>3, Zenon DEF SyncBegins
    <3>4. CASE StopEnds \/ \E l \in Label : SyncStops(l) \/ SyncStarts(l)
      BY <2>1, <3>4, Zenon DEF StopEnds, SyncStops, SyncStarts
    <3>5. CASE SyncEnds
      BY <3>5, Zenon DEF SyncEnds
    <3> QED BY <2>4, <3>1, <3>2, <3>3, <3>4, <3>5, Zenon DEF Reloading
  <2>5. CASE WatchEnds
    BY <2>5, Zenon DEF WatchEnds
  <2>6. CASE \E i \in Task : Forwarder(i)
    BY <2>1, <2>6, Zenon DEF Forwarder, Bind, BindFails, BindAgain, TaskEnds, TaskLingers, LingerEnds,
       TaskPanics, SetTask
  <2>7. CASE EventDelivered
    BY <2>7, Zenon DEF EventDelivered
  <2>8. CASE \E f \in Config \cup {Broken} : Edit(f)
    BY <2>8, Zenon DEF Edit
  <2> QED BY <2>2, <2>3, <2>4, <2>5, <2>6, <2>7, <2>8, Zenon DEF Next
<1>2. ReloadInv /\ [Next]_vars =>
        [Watching /\ Watching' /\ (InStep \/ edits' # edits) => InStep']_vars
  BY <1>1, Zenon
<1> QED BY ReloadInvariance, <1>2, PTL DEF Spec, NoSaveForgotten

AllTold == \A i \in Task : Alive(i) => task[i].cancelled

\* From the moment shutdown_all drains the map every task is told to stop, and only
\* a sync in progress can add one that is not.
OnlyReloadEscapes ==
  [][main' \in {"reap", "exited"} /\ (main = "signalled" \/ AllTold) => AllTold' \/ watcher = "sync"]_vars

\* ShutdownStopsAll fails, but only through a reload that outlives the signal: the
\* drain itself reaches every task, and nothing else revives one.
THEOREM ShutdownReachesAll == Spec => OnlyReloadEscapes
<1>1. ASSUME ReloadInv, Next, main' \in {"reap", "exited"}, main = "signalled" \/ AllTold, watcher # "sync"
      PROVE  AllTold'
  <2>0. MapType /\ TaskType /\ TasksLabelled /\ NoOrphanTask
    BY <1>1, InvParts, Zenon
  <2>1. CASE DrainAll
    <3> SUFFICES ASSUME NEW i \in Task, Alive(i)' PROVE task'[i].cancelled
      BY Zenon DEF AllTold
    <3>1. /\ reap' = {fwds[l] : l \in Running}
          /\ task'[i] = [task[i] EXCEPT !.cancelled = @ \/ i \in reap']
      BY <2>1, Zenon DEF DrainAll
    <3>2. task[i] \in TaskState
      BY <2>0, Zenon DEF TaskType
    <3>3. task'[i].phase = task[i].phase /\ task'[i].cancelled = (task[i].cancelled \/ i \in reap')
      BY <3>1, <3>2, Zenon DEF TaskState
    <3>4. Alive(i) /\ task[i].label \in Label
      BY <2>0, <3>3, Zenon DEF Alive, TasksLabelled
    <3>5. ~task[i].cancelled => fwds[task[i].label] = i /\ task[i].label \in Running
      BY <2>0, <3>4, ReloadAssumption, Zenon DEF NoOrphanTask, Running
    <3> QED BY <3>1, <3>3, <3>5, Zenon
  <2>2. CASE UNCHANGED <<task, main>>
    BY <1>1, <2>2, Zenon DEF AllTold, Alive
  <2>3. ASSUME NEW i \in Task, main # "signalled", \A j \in Task : j # i => task'[j] = task[j],
               ~Alive(i)' \/ (Alive(i) /\ task'[i].cancelled = task[i].cancelled)
        PROVE  AllTold'
    BY <1>1, <2>3, Zenon DEF AllTold, Alive
  <2>4. CASE Starting
    BY <1>1, <2>2, <2>4, Zenon DEF Starting, LoadForwarders, LoadSettings, LoadRefused, SpawnWatcher,
       StartAll, taskVars, Alive, AllTold
  <2>5. CASE Signal \/ Exit \/ WatchEnds \/ EventDelivered \/ \E f \in Config \cup {Broken} : Edit(f)
    <3>1. main # "signalled" /\ task' = task
      BY <1>1, <2>5, Zenon DEF Signal, Exit, WatchEnds, EventDelivered, Edit, taskVars
    <3> QED BY <1>1, <3>1, Zenon DEF AllTold, Alive
  <2>6. ASSUME NEW i \in Task, Reap(i) PROVE AllTold'
    <3>1. main # "signalled" /\ task' = Reaped(i)
      BY <2>6, Zenon DEF Reap
    <3>2. FreeTask.phase = "free"
      BY FreeState, Zenon
    <3> QED BY <2>0, <2>3, <3>1, <3>2, ReapedState, Zenon DEF Alive
  <2>7. CASE Reloading
    <3>1. main # "signalled" /\ task' = task
      BY <1>1, <2>7, Zenon DEF Reloading, WatchArmed, DirtyReceived, Settled, LoadFails, Load, SyncBegins,
         StopEnds, SyncEnds, SyncStops, SyncStarts, taskVars
    <3> QED BY <1>1, <3>1, Zenon DEF AllTold, Alive
  <2>8. ASSUME NEW i \in Task, Forwarder(i) PROVE AllTold'
    <3>1. main # "signalled"
      BY <1>1, <2>8, Zenon DEF Forwarder, Bind, BindFails, BindAgain, TaskEnds, TaskLingers, LingerEnds,
         TaskPanics, SetTask
    <3>2. task[i] \in TaskState /\ Ended(i).phase \in {"gone", "free"}
      BY <2>0, EndedState, Zenon DEF TaskType
    <3>3. \/ Alive(i) /\ \E p \in {"bind", "backoff", "listen"} : task' = [task EXCEPT ![i] = [task[i] EXCEPT !.phase = p]]
          \/ task' = [task EXCEPT ![i] = [task[i] EXCEPT !.phase = "linger"]]
          \/ task' = [task EXCEPT ![i] = Ended(i)]
      BY <2>8, Zenon DEF Forwarder, Bind, BindFails, BindAgain, TaskEnds, TaskLingers, LingerEnds,
         TaskPanics, SetTask, Alive
    <3>4. /\ \A j \in Task : j # i => task'[j] = task[j]
          /\ ~Alive(i)' \/ (Alive(i) /\ task'[i].cancelled = task[i].cancelled)
      BY <2>0, <3>2, <3>3, Zenon DEF TaskType, TaskState, Alive
    <3> QED BY <2>3, <3>1, <3>4, Zenon
  <2> QED BY <1>1, <2>1, <2>4, <2>5, <2>6, <2>7, <2>8, Zenon DEF Next, ShuttingDown
<1>2. ReloadInv /\ [Next]_vars =>
        [main' \in {"reap", "exited"} /\ (main = "signalled" \/ AllTold) => AllTold' \/ watcher = "sync"]_vars
  BY <1>1, Zenon
<1> QED BY ReloadInvariance, <1>2, PTL DEF Spec, OnlyReloadEscapes
=============================================================================
