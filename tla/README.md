# rfw verification project

TLA+ models of rfw, the TCP/UDP port forwarder under `src/`, with TLC
configurations that check them on small instances and TLAPS proofs, for every
value of the constants, of every safety property those runs find to hold.

## The system

One tokio process. Its parts, and where they live in `src/src/`:

| Part | Source | Module | State of the model |
| --- | --- | --- | --- |
| UDP forwarder: bind loop, engine with its session map, reply tasks, DNS refresher | `udp.rs` | `UdpForwarder` | control modelled, proved |
| TCP forwarder: bind and accept loops, admission, connection tasks, drain | `forwarder.rs`, `manager.rs`, `main.rs` | `TcpForwarder` | control modelled, proved |
| Connect racing and resolution | `forwarder.rs` | `ConnectRacing` | modelled, proved |
| Zero-copy TCP relay | `forwarder.rs`, `mod splice` | `Splice` | modelled, proved |
| One TCP connection: race, then relay | `forwarder.rs`, `proxy_connection` | `Connection` | composition, proved |
| UDP offload (GRO/GSO) | `udp.rs`, `mod offload` | `UdpOffload` | modelled, proved |
| Session and connection limits | semaphores in `manager.rs` | `SlotPool` | abstract specification |
| Manager, start-up, hot reload, shutdown | `manager.rs`, `main.rs` | `HotReload` | control modelled, proved |
| Entries, port ranges, duplicates | `config.rs` | `PortRanges` | modelled, proved |
| Settings, validation, clamping, runtime knobs | `config.rs` | `Settings` | modelled, proved |
| Descriptor limits | `fdlimit.rs`, `udp.rs` | `FdLimits` | modelled, proved |
| From configuration to a serving process and through its reloads | `main.rs`, `config.rs`, `manager.rs` | `Startup` | composition, proved |
| Webhook alerting: queue, throttle, delivery, flush | `notify.rs` | `Notifier` | modelled, proved |
| TCP target monitor and the evidence connections leave for it | `monitor.rs`, `stats.rs`, `forwarder.rs` | `Monitor` | modelled, proved |
| Passive UDP monitor and the marks of the sessions | `monitor.rs`, `stats.rs`, `udp.rs` | `UdpMonitor` | modelled, proved |
| Stats endpoint, health check, registry and listening flags | `metrics.rs`, `stats.rs`, `forwarder.rs`, `manager.rs` | `Health` | control modelled, proved |
| Rate sampler, rendering of `/metrics` and `/stats` | `stats.rs`, `metrics.rs` | | not modelled |
| Logging | `logging.rs` | | pure I/O, not modelled |

How they interact: `main` loads the configuration, builds the manager, starts
every forwarder with its monitor, and spawns the config watcher. A reload
replaces knobs and forwarders while traffic flows. All forwarders share two
semaphores (`max_connections`, `udp_max_sessions`), one stats registry and one
notifier. A signal cancels everything, drains TCP connections and flushes
alerts, each within a grace window.

Each module models one part with the others as its environment: the other
forwarders are `others` in the two limits, the reload is an action that changes
a timeout or a threshold, the forwarder tasks are phases in `HotReload`, the
alerts are counters. Five modules compose parts that act on each other:
`TcpForwarder` the accept loop, its connections, the manager's stop and start,
and `main`'s shutdown; `Connection` the race for a target and the relay, which
is what happens inside one connection of `TcpForwarder`; `Startup` the three
sources, the settings, the limits and the knobs; `UdpMonitor` the monitor of
either protocol with the traffic it watches; `Health` the endpoint with the
forwarders it reports on.

## The modules

Every module keeps the names of the source where it can. A definition that
stands just before another of nearly the same name and differs from it by one
mistake (`WriteUncounted` before `Write`, `ReapedAtOnce` before `Reaped`) is a
seeded bug: putting it in the place of the real one makes a named property
fail, which shows that the property depends on the code.

### UdpForwarder

State: `phase` (where `run_udp_forwarder` stands), `cancelled`, `listening`,
`published`/`unseen` (the watch channel of addresses), `entry` (client to
session), `sess` (a `SessionShared`: who holds its Arc, its task, its token,
idle age, dead flag), `opening` (an `open_session` between its checks and its
insertion), `permits`, `others`, `active`, `refresher`. Actions are the bind
loop, the engine's select arms, the steps of a reply task, the refresher and
the stop sequence. A session ends when the engine and its task have both
dropped their Arc, in either order; only then do permit and gauge come back.
Datagrams have no content here.

### TcpForwarder

A generation is one `run_forwarder` task. `loop` holds its place; the biased
select is two steps (`TokenPending`, then accept), because a cancellation may
fall between the two polls. A connection goes `queue`, `spawned` (permit taken,
task not yet run), `resolve`, `connect`, `relay`, `closing` (permit dropped,
`ConnGuard` not yet), `out`. The manager's `handle`, `registered` and `reload`
model `sync` replacing a generation; `main` runs through the signal, the
reap, the drain and the flush while tasks go on running.

### ConnectRacing, Splice, Connection

`ConnectRacing`: a lookup gives up to three addresses, each with a fate (it
accepts or refuses after a while, or is silent). One attempt per address sleeps
its stagger, connects under the timeout and is joined; `open` counts established
streams. Dropping the set closes the streams in it and tells the attempts in
flight to abort; until the runtime has got to them (`aborting`) one may still
connect, and is then dropped with its stream. Time is discrete, and a tick passes
only when nothing is due.

`Splice`: two directions over two sockets and two pipes; bytes are counted.
`readable` and `writable` are tokio's readiness flags: set by an edge, cleared
by EAGAIN. splice(2), the socket buffers and the peers are external and behave
as the kernel documents: partial transfers, EAGAIN when there is no data or no
room, 0 at end of stream, errors after a reset.

`Connection` runs one after the other, with a client that may write, close or
reset while the race is still on.

### UdpOffload

A burst is a sequence of datagram lengths; a byte is the number of the datagram
it came in, so what leaves can be compared with what came. Each session has a
forward flow (the engine's, one at a time) and a reply flow (the session
task's). A step is one read, one `UDP_SEGMENT` send, one plain send, a flush of
the counters, a sweep that applies the knob, or an eviction. Sends succeed, find
the buffer full, are refused for good or fail.

### HotReload

`file`, the event and the depth-1 channel (`dirty`), the watcher's progress,
the manager's map and registry, the knobs, and the forwarder tasks as phases.
`linger` is a task that has ended while sessions of its UDP engine still hold the
socket: because they outlived the engine's grace, or because it panicked and told
them nothing. A wait of the manager that runs out sets `overrun`. `main` and the
watcher are separate processes, as in the code.

### PortRanges, Settings, FdLimits, Startup

The first three are operators: how an entry of the file, the command line or
the environment becomes forwarders; defaults, flags, `validate` and
`clamp_in_place`; `raise_soft_limit` and `ensure_fd_budget` with their failures.
An Option or Result is a set with at most one element. `Startup` is the machine
around them: `main` loads forwarders, then settings (the file is read twice and
may change between), adjusts the limit and serves; edits cause reloads, whose
stores to the knobs become visible one field at a time; an accepted connection
loads its snapshot field by field.

### Notifier

The bounded queue, the worker's place, the throttle's entries (age and count),
the message in hand, the counters, and `NotifierHandle::shutdown` racing the
worker. `told`, `folded` and `admitAge` are history variables. A
throttle entry that does not exist is kept as one that is old enough to be
pruned, with nothing suppressed: `admit` treats the two alike.

### Monitor

`run_monitor` with its wait, kick, probe and verdict; connections that observe
addresses, succeed or fail; a target and a DNS answer that change at any time;
a threshold changed by a reload; a clock. Ages stop at `MaxAge`, which every
interval and threshold is below. `quiet`, `alerts` and `dnsAlerts` are history
variables.

### UdpMonitor

`MonitorInit` chooses the protocol. A TCP forwarder behaves as in `Monitor`. For
a UDP one the verdict is drawn from what the sessions marked: a reply by two
loads and a store, an ICMP error by two stores that may become visible in either
order. The monitor's sample is four loads (`loading` are those to come, `cur` what
was loaded), and the marks fall anywhere between them. All are relaxed: `KeptOrder`
says which loads the machine keeps in the order of the program. TLC takes all of
them, the proof any part, also none. A mark, and what the monitor does between two
awaits, takes less than a tick. The name, the threshold and the token change only
where the monitor is about to look at them; to change before is the same.
`vindicated`, `replyNow` and `overtaken` (an error was stored after the sample
loaded that field) are history variables.

### Health

`fwd` is where each forwarder stands, `listening` the flags, `registry` who is
listed; `req` is each client's `handle_conn`, which reads its head, takes the
registry's read lock, loads the flags one by one and answers. The read deadline
and the timeout of the health check may run out at any moment. `history` notes,
for a check under way, which forwarders were registered and wanted all along,
which served at some moment, and whether a registered one did not.

### SlotPool

What a limit promises: slots are taken one at a time and only while one is
left. Both forwarders implement it.

## What TLC checks

| Run | Checks |
| --- | --- |
| `udp` | slots are conserved, map and reply tasks agree, no session stays on a retired address, a return leaves nothing behind; dead, idle and retired sessions end and free their slots, a stop ends |
| `tcp` | permits and gauges are conserved across generations, the drain misses no connection; `TcpForwarder` implements `SlotPool`; waiting clients are accepted or shed, a freed port is served, shutdown ends |
| `connection` | the first address that accepts wins at the earliest moment, and any other stream left is an aborted attempt's that is about to be dropped; bytes are conserved and counted exactly, end of stream comes last; data flows, half-closes and errors reach the other side |
| `offload` | what leaves is what came, whole and in order; every datagram is counted |
| `reload` | forwarders and knobs change together, no task escapes the map, a rebind never meets its predecessor on the port, at most sessions that outlived their engine; every save is applied, a signalled process exits |
| `startup` | what runs is exactly what was listed, flags and pinned forwarders outlive reloads, torn snapshots are usable, startup and reload agree on good values but for the two that a reload leaves alone, a silent start has descriptors enough |
| `notifier` | every event is counted once, one message per window, the flush is honoured, the worker always comes back |
| `monitor` | one alert per outage, no false alarm, a UDP outage ends only on evidence or, when an error overtakes the sample, with a kick to look again; lasting outages are alerted, lasting recoveries close them, addresses settle |
| `health` | a verdict is justified by what the forwarders were during the check; every request gives its permit back |

All of these pass. Three runs show that the code does something else than its
documentation says; each is a finding in `PROJECT.json`:

- `reload_shutdown_race`: a reload in progress starts forwarders after
  `shutdown_all` has emptied the map; they are never cancelled.
- `notifier_folding`: a count of suppressed repeats is lost with a failed
  delivery or a pruned entry.
- `monitor_dns_once`: one DNS change may be reported more than once, because a
  probe reports its addresses only after it has connected.

Smaller divergences noted while modelling, for which no run is kept:

- the UDP listening flag stays up while a stopped forwarder waits for its tasks
  (`udp.rs:360`), although `forwarder.rs:95` has the guard dropped on every exit
  of the loop; `HealthTellsTruth` speaks of forwarders not told to stop;
- the stopping alert does not count connections of forwarders a reload removed,
  although they are drained (`main.rs:236`);
- the pacing clock starts with a message's first attempt, not its last
  (`notify.rs:912`); a missed flush deadline detaches the worker instead of
  aborting it (`notify.rs:791`);
- a kicked tick skips its probe if a connection succeeded within the interval
  (`monitor.rs:227`);
- a snapshot of the knobs can mix values from before and after a reload: the
  stores of an update and the loads of a snapshot are separate relaxed atomics
  (`config.rs:797`); `SnapshotUsable` shows that every mix is usable;
- a re-targeted UDP port need not be "fully released before the rebind"
  (`src/README.md:331`): sessions of an engine that panicked, or that outlived
  `SESSION_STOP_GRACE`, hold the socket (`udp.rs:614`) and the bind is retried;
  `RebindFindsPortFree` says that nothing else is ever in the way;
- a hot reload does not correct "the same values" that startup rejects
  (`src/README.md:280`): `clamp_in_place` leaves `metrics_addr` and `webhook_url`
  as they are; they are used at startup only, and `ClampAgrees` says that
  nothing else is left wrong;
- dropping the set "aborts the attempts still in flight" (`forwarder.rs:367`), but
  not at once: an attempt that is due may connect before it is dropped, and the
  target then sees a connection that is closed unused;
- "Recovery needs positive evidence" (`monitor.rs:377`) holds of the sample, whose
  loads an error may overtake; the outage then ends, and the error's kick makes
  the monitor look again;
- datagrams waiting for a blocked socket are lost with a session that is evicted,
  and are not counted as dropped (`udp.rs:997`);
- `ensure_fd_budget` runs at startup only, and the TCP and UDP budgets are
  checked one by one, not together (`main.rs:124`, `main.rs:144`);
- forwarders of the environment replace those of the file, but a file that
  cannot be read or parsed is an error before they are looked at;
- a client of the stats endpoint that does not read its answer holds its permit:
  only the read has a deadline (`metrics.rs:197`); `PermitsComeBack` assumes that
  clients read.

### Bounds

- `udp`: one client with two session identities, so that a dying session and its
  replacement are told apart, under a limit of one that other forwarders share; two
  addresses, so that one retires; timeouts of 1 and 2, changed by a reload. With
  this limit the replacement waits for the dying session's slot. Two clients, or
  sessions that overlap, are out of TLC's reach within minutes; the proofs cover
  any number of both.
- `tcp`: two connections and another forwarder under a limit of two reach
  saturation with a waiting client; two generations are one replacement.
- `connection`: three addresses with latencies below, at and above the timeout;
  three bytes through buffers of two give partial reads, partial writes and a full
  buffer; a pipe is granted less than is useful or more than was asked.
- `offload`: limits scaled to two segments, five bytes of payload and a buffer of
  eight; bursts that are empty, single, exactly full, end short, need several sends
  or do not fit. Two flows are busy at a time, of two interchangeable sessions.
- `reload`: two labels on one port (a re-targeting), three task identities, two
  edits (a save during a reload), one panic.
- `startup`: ports up to 6 and ranges up to 3 stand for 65535 and the limit of the
  code; every way to write one entry over boundary values, pairs that may meet, and
  chosen combinations of sources, flags, edits and limits.
- `notifier`: four events against a queue of two give drops, suppression and a
  flush; two attempts give one retry.
- `monitor`: ages up to 2 with an interval of 2 and thresholds of 1 and 2 separate
  recent from due, before and after a reload of the threshold; a target that changes at
  any time and one change of its name, for either protocol; the sample's loads in
  program order.
- `health`: a check and a scraper that compete for one permit; two forwarders, so
  that flags are read at different moments.

`Generations`, `MaxBytes`, `MaxOthers`, `MaxEdits`, `MaxPanics`, `MaxEvents`,
`MaxChanges`, `MaxAddrs`, `MaxBusy` and `MaxAge` are the bounds that the program does not have.

Deadlock is not checked where the model may stop: the process exits
(`TcpForwarder`, `HotReload`, `Notifier`), or both peers of a connection fall
silent (`Connection`). Everywhere else it is.

### Fairness

Weak fairness on a task's steps stands for the runtime, which polls what is
ready, and for timers, which fire. It is strong in two places. The UDP engine's
select is biased: token, sweep and address changes come before the socket, so
traffic cannot starve them. And an accept that keeps being tried succeeds in the
end, since descriptors that ran out come back. Nothing is assumed of clients,
targets, resolvers, webhooks, operators or signals. One exception is stated
where it is used: `DataFlows` and `EndsPropagate` need peers that read what they
are sent, and `PermitsComeBack` a client that reads its answer. `startup` and
`offload` check safety only and assume no fairness.

## What is proved

TLAPS proves, for all values of the constants that satisfy the modules'
assumptions, every invariant and action property of the passing runs, the types,
and the two refinements of `SlotPool`. Each proof module has one inductive
invariant, shown to hold at first and to be kept by every action; the properties
follow from it.

- `UdpForwarderProofs`: `SlotsConserved`, `MapMatchesTasks` (of
  `MappedIsServed` and `UnmappedIsCancelled`), `RetiredAddressClosed`,
  `ReturnReleasesAll`, and that the forwarder implements `SlotPool`. `UdpInv`
  adds who holds a session's Arc and why (`ArcsOwned`, `EntriesOwned`,
  `TasksTold`), and what each phase of the forwarder implies (`PhaseInv`). Slot
  conservation alone is not inductive: releasing a slot is right only because a
  session is freed exactly when neither the map nor a task holds it. And
  `UsableIsKept`, the converse of `SessionsEnd`: until the forwarder is stopped a
  client keeps its session, on the address it was opened with, unless the session
  is dead, idle for the timeout or on an address that left the answer.
- `TcpForwarderProofs`: `SlotsConserved`, `DrainMissesNone`, and that the
  forwarder implements `SlotPool` across generations. `TcpInv` adds that an
  accept loop that runs has an owner that waits for it, be it the manager's map,
  `sync` or `shutdown_all` (`LoopsOwned`), and what is settled at each stage of
  the shutdown (`ShutdownInv`): the drain misses nothing only because no loop can
  admit a connection any more once it begins.
- `HotReloadProofs`: `NoOrphanTask`, `AppliedTogether`, `RebindFindsPortFree`.
  `ReloadInv` ties map, registry, the task `stop_one` waits for and the work
  `sync` has left to the configuration that was loaded (`WorkInv`,
  `RegistryInv`), and says that a cancelled task is the one being waited for
  until a wait for one times out (`GraceInv`), so that all a rebind can meet are
  sessions that outlived their engine. These hold until the signal; after
  it a reload and the shutdown may both work on the map, and `NoOrphanTask` is
  proved to survive that. Two action properties say more. `NoSaveForgotten` is
  the safety half of `EverySaveApplied`: while the directory is watched, a save
  leaves a trace (an event, a token, a reload that has yet to read the file) that
  only reading the file removes. `OnlyReloadEscapes` delimits the violation of
  `ShutdownStopsAll`: the drain of the map reaches every task, and only a `sync`
  in progress can add one that was not told to stop.
- `ConnectionProofs`: `StreamIntact`, `OneStreamSurvives`, `FirstAnswerWins`.
  `ConnInv` has for the race that open streams are exactly the attempts' that
  hold one (`StreamsHeld`), which after the win become its own and those of attempts
  that connected while being aborted, and that no attempt is behind its schedule
  (`OnTime`), and for the relay that a pipe holds what the write loop has left
  and that a half-closed direction had drained (`PipeInv`).
- `AlertProofs`, about `Notifier`: `EveryEventCounted`, `OneMessagePerWindow`,
  `FlushHonoured`, and `FoldedAtMostOnce`. `NotifierInv` adds that the hand is
  full exactly while the worker is delivering (`HandMatches`), and that an entry's
  age is the time since the key was last admitted (`AgesMatch`), which ties the
  throttle to the history it must respect; `FlushInv` that a worker ends before
  the process only with nothing left to send. `FlushedMeansCounted` follows: a
  shutdown that returns before its deadline leaves every alert counted.
  `RepeatsLostOnly` delimits the violation of `SuppressedNeverLost`: a count of
  repeats is lost only with a refused message, or with an entry that another key's
  admission prunes; no retry, flush or lapse of time loses one.
- `AlertProofs`, about the monitors: `AlertsAlternate`, `NoFalseAlarm`,
  `GaugeFollowsOutage` and `RecoveryNeedsEvidence`, each stated once, for the
  specification in which the forwarder is TCP or UDP. `MonitorInv` adds that an
  outage is never older than the silence it was inferred from
  (`OutageWithinQuiet`), `EvidenceInv` that a reply that is recorded, or about to
  be, was a reply, and `SampleInv` what a sample that is partly taken says of the
  marks: each loaded field is still true, or was overtaken by an error whose mark is
  unfinished or has left a kick. It is proved for any order of the loads.
- `HealthProofs`: `HealthTellsTruth` and `PermitsConserved`, the safety half of
  `PermitsComeBack`. `HealthInv` adds that a check's history covers the present
  (`WitnessInv`), what the flags read so far imply (`CheckInv`), and that a flag
  is up exactly while its guard is held (`FlagInv`).
- `StartupProofs`, about what `Startup` composes: `RunsWhatIsListed`,
  `OverridesSurvive`, `SnapshotUsable`, `ClampAgrees`, `LimitsSound`, for any
  files, texts, flags and limits. `StartInv` says what is known at each stage:
  lists are sound and come from their source (`ListInv`), settings passed the
  check with the flags in them (`SettingsInv`), the knobs, those a reload is
  storing and those a connection has loaded so far are good and flags stay
  where they are (`KnobInv`, `SnapInv`). The lemmas before it say what
  expansion, duplicate detection, precedence, clamping and the limit plan return
  for any argument.
- `OffloadProofs`: `WholeInOrder`, `EveryDatagramCounted`, for
  any bursts and limits. `OffloadInv` says that a buffer is sent up to the end of
  a datagram and that the counters stand there, too. The lemmas say that the
  kernel's buffer is striped, that whole stripes cut out of it are a striped
  buffer again, and that cutting one yields its stripes and `segments` counts
  them, the short last one included.

Induction over data: the library's induction theorems take an operator as a
parameter, which the installed provers cannot instantiate. `StartupProofs` derives
one that takes a set (`SetInduction`: a set of naturals with 0 that is closed
under successor has them all) from the well-foundedness of `<`, and from it what
`Flatten` returns (`FlattenJoins`). Many leaves name `Zenon`: it proves them without
the translation to SMT that takes most of the time of a large module.

Assumptions on constants: finitely many sessions, at least as many as the limit;
positive limits, intervals and attempts; windows within the pruning age (in the
code windows are at most five minutes and entries live an hour); the kernel
coalesces datagrams of one length, of which only the last may be shorter; files,
arguments and limits have the types that serde, clap and `getrlimit` give them;
the integer widths are large enough for the constants of the code; the order
kept among the loads of a sample is part of the program's; markers such as
`NoSession` are outside the sets they mark. TLC evaluates them in every run.

Only model-checked: liveness under fairness, which this prover does not reach
(`SessionsEnd`, `StopCompletes`, `QueueServed`, `PortReclaimed`,
`ShutdownCompletes`, `EverySaveApplied`, `DataFlows`, `EndsPropagate`,
`WorkerComesBack`, `TargetFollowed`, `DnsSettles`, `PermitsComeBack`). The three
properties that the code violates are counterexamples of TLC. No module uses a
RECURSIVE operator. `FoldedAtMostOnce`, `GaugeFollowsOutage`,
`PermitsConserved`, the types, the pool refinement of `UdpForwarder`, and the
properties that the proof modules define (`UsableIsKept`, `NoSaveForgotten`,
`OnlyReloadEscapes`, `FlushedMeansCounted`, `RepeatsLostOnly`) are proved and not
checked by a run.

## What is left out

What streams carry, texts of alerts and logs, socket tuning, the resolver's
cache, YAML and number syntax. The portable copy path is tokio's
`copy_bidirectional`, library code: `Splice` ends where it takes over. The rate
sampler computes with floating point, which TLA+ has no counterpart for.
`render_prometheus`, `render_json` and the reports format single atomic loads.
The startup probe report (`monitor.rs`, `probe_all`) sends one message and
changes nothing else. The monitor of an IP literal has no names to follow, and
reloads of `probe_interval` only change a wait. `logging.rs` sets up writers.
The programs under `src/bench/` generate load and are no part of rfw. In
`TcpForwarder` one port and one chain of replacements stand for all forwarders,
the rest being `others`; the unlimited setting is a limit that is never reached.
In `Health` a bind does not complete after cancellation and the permits of
connections abandoned in the backlog are not counted, on which no property
depends. The race of a reload with shutdown is shown in `HotReload`;
`TcpForwarder` contains it and `DrainMissesNone` excludes it by name (`raced`).

## Plan

The safety half of each liveness property that has one (what keeps the action
its fairness speaks of enabled until it is taken) can be stated as an invariant
and proved as `PermitsConserved` is: next `StopCompletes` of `UdpForwarder` and
`EverySaveApplied` of `HotReload`.
