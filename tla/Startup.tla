------------------------------ MODULE Startup -------------------------------
(***************************************************************************)
(* From configuration to a serving process and through its reloads: main   *)
(* (src/src/main.rs) loads forwarders and settings from the environment,   *)
(* the command line and the file, adjusts the open-file limit and builds   *)
(* the RuntimeKnobs; the watcher (src/src/manager.rs) loads the file again *)
(* after an edit, stores the new knobs one atomic at a time and syncs the  *)
(* forwarders; an accept takes a snapshot of the knobs, one load per field.*)
(*                                                                         *)
(* Stores and loads are Relaxed: the stores of one update may become       *)
(* visible in any order.  A store of the value already there is no step.   *)
(* When an edit is noticed and how sync works are HotReload's subject.     *)
(***************************************************************************)
EXTENDS PortRanges, Settings, FdLimits, FiniteSets

CONSTANTS
  Starts,    \* [cli, env, file, rl] with which the process is started
  Edits,     \* contents the file may be given later
  MaxEdits   \* how often it is edited

\* A file as its editor leaves it; only a readable YAML file's contents matter.
IsFile(f) ==
  /\ f.readable \in BOOLEAN /\ f.yaml \in BOOLEAN
  /\ f.forwarders \in Seq(Range(f.forwarders)) /\ \A raw \in Range(f.forwarders) : IsRaw(raw)
  /\ Written(f.settings)

\* The arguments as clap delivers them; a buffer size that was passed is one.
IsCli(c) ==
  /\ c.config_file \in BOOLEAN /\ c.forwarders \in Seq(Range(c.forwarders))
  /\ Written(c.flags)
  /\ "socket_buffer_bytes" \in DOMAIN c.flags => c.flags.socket_buffer_bytes # {}

ASSUME StartupAssumption ==
  /\ MaxEdits \in Nat
  /\ \A f \in Edits : IsFile(f)
  /\ \A s \in Starts : /\ IsCli(s.cli) /\ IsFile(s.file)
                       /\ IsFiniteSet(DOMAIN s.env) /\ DOMAIN s.env \subseteq Nat
                       /\ s.rl \in [soft : Nat, hard : Nat]

VARIABLES
  cli,         \* CliArgs
  env,         \* RFW_FORWARDER_N: number -> text
  file,        \* [readable, yaml, forwarders, settings]
  edits,       \* edits so far
  dirty,       \* the watcher has been told of an edit
  stage,       \* how far main has come
  forwarders,  \* the running forwarders
  source,      \* ForwarderSource
  entries,     \* the file's entries the running forwarders were made from
  settings,    \* the settings main loaded
  rl,          \* RLIMIT_NOFILE, [soft, hard]
  rl0,         \* the limit the process was started with
  warned,      \* the budgets a warning was logged for
  knobs,       \* RuntimeKnobs
  update,      \* the reload in progress: [busy, to, left, loaded]
  snap         \* the snapshot of the connection being accepted, by field

cfgVars  == <<cli, env, file, edits, dirty>>
bootVars == <<forwarders, source, entries, settings>>
fdVars   == <<rl, rl0, warned>>
knobVars == <<knobs, update>>
vars     == <<cfgVars, bootVars, stage, fdVars, knobVars, snap>>

Nothing == [busy |-> FALSE, to |-> <<>>, left |-> {}, loaded |-> <<>>]

-----------------------------------------------------------------------------
\* Loading.

\* CliArgs: the flags that were passed, by the setting each overrides.
CliArgs(config_file, texts, flags) ==
  [config_file |-> config_file, forwarders |-> texts, flags |-> flags]

\* load_yaml_config: the whole file or an error.
load_yaml_config(f) ==
  IF ~f.readable \/ ~f.yaml THEN {}
  ELSE {[forwarders |-> fwds, settings |-> FromFile(f.settings)] :
          fwds \in {l \in deserialize_forwarders(f.forwarders) : validate_no_duplicates(l)}}

Configured(c, f) ==
  IF c.forwarders # <<>> THEN {[list |-> l, source |-> "Cli"] : l \in cli_forwarders(c.forwarders)}
  ELSE IF c.config_file THEN {[list |-> l.forwarders, source |-> "File"] : l \in load_yaml_config(f)}
  ELSE {[list |-> <<>>, source |-> "None"]}

\* load_forwarders_with_source: environment over command line over file; an error
\* of either of the two loads is an error.
load_forwarders_with_source(c, e, f) ==
  {r \in {IF l = <<>> THEN conf ELSE [list |-> l, source |-> "Env"] :
            conf \in Configured(c, f), l \in load_env_forwarders(e)} :
     validate_no_duplicates(r.list)}

\* load_settings: an unreadable file gives the defaults, an unparseable one an error.
load_settings(c, f) ==
  LET parsed == IF ~c.config_file \/ ~f.readable THEN {Default}
                ELSE IF ~f.yaml \/ deserialize_forwarders(f.forwarders) = {} THEN {}
                ELSE {FromFile(f.settings)}
  IN  {s \in {apply_cli_overrides(p, c.flags) : p \in parsed} : validate(s)}

-----------------------------------------------------------------------------
Init ==
  \E s \in Starts :
    /\ cli = s.cli /\ env = s.env /\ file = s.file /\ rl = s.rl /\ rl0 = s.rl
    /\ edits = 0 /\ dirty = FALSE /\ stage = "boot"
    /\ forwarders = <<>> /\ source = "None" /\ entries = <<>> /\ settings = Default
    /\ warned = {} /\ knobs = Stored(Default) /\ update = Nothing /\ snap = <<>>

LoadForwarders ==
  /\ stage = "boot"
  /\ LET r == load_forwarders_with_source(cli, env, file)
     IN  IF r = {} THEN stage' = "refused" /\ UNCHANGED bootVars
         ELSE /\ stage' = "settings"
              /\ \E l \in r : /\ forwarders' = l.list /\ source' = l.source
                              /\ entries' = IF l.source = "File" THEN file.forwarders ELSE <<>>
              /\ UNCHANGED settings
  /\ UNCHANGED <<cfgVars, fdVars, knobVars, snap>>

\* The file is read a second time; a process without forwarders gives up.
LoadSettings ==
  /\ stage = "settings"
  /\ LET r == load_settings(cli, file)
     IN  IF r = {} \/ forwarders = <<>> THEN stage' = "refused" /\ UNCHANGED settings
         ELSE stage' = "limits" /\ settings' \in r
  /\ UNCHANGED <<cfgVars, forwarders, source, entries, fdVars, knobVars, snap>>

\* raise_soft_limit, ensure_fd_budget and ForwarderManager::new.
Serve ==
  /\ stage = "limits" /\ stage' = "serving"
  /\ \E os, os2 \in {"unreadable", "refused", "granted"} :
       LET tcp == raise_soft_limit(rl, os, settings.max_connections, settings.use_splice)
           has == \E i \in DOMAIN forwarders : forwarders[i].protocol = "udp"
           udp == IF has THEN ensure_fd_budget(tcp.rl, os2, settings.udp_max_sessions)
                  ELSE [rl |-> tcp.rl, warn |-> FALSE]
       IN  /\ rl' = udp.rl
           /\ warned' = (IF tcp.warn THEN {"tcp"} ELSE {}) \cup (IF udp.warn THEN {"udp"} ELSE {})
                          \cup (IF "unreadable" \in {os, os2} THEN {"unreadable"} ELSE {})
  /\ knobs' = Stored(settings)
  /\ UNCHANGED <<cfgVars, bootVars, rl0, update, snap>>

Edit ==
  /\ stage # "refused" /\ cli.config_file /\ edits < MaxEdits
  /\ edits' = edits + 1 /\ file' \in Edits \ {file}
  /\ dirty' = (dirty \/ stage = "serving")
  /\ UNCHANGED <<cli, env, bootVars, stage, fdVars, knobVars, snap>>

-----------------------------------------------------------------------------
\* The watcher's reload.

\* Slip: the flags of the command line are forgotten on a reload.
ReloadSettingsBare(l) == l.settings

ReloadSettings(l) == apply_cli_overrides(l.settings, cli.flags)

\* load_yaml_config and the clamping of update_knobs; an error keeps everything.
ReloadLoads ==
  /\ stage = "serving" /\ dirty /\ ~update.busy
  /\ dirty' = FALSE
  /\ LET r == load_yaml_config(file)
     IN  IF r = {} THEN UNCHANGED update
         ELSE \E l \in r :
                LET to == Stored(ReloadSettings(l))
                IN  update' = [busy |-> TRUE, to |-> to, left |-> {f \in KnobFields : to[f] # knobs[f]},
                               loaded |-> [list |-> l.forwarders, entries |-> file.forwarders]]
  /\ UNCHANGED <<cli, env, file, edits, bootVars, stage, fdVars, knobs, snap>>

StoreKnob(f) ==
  /\ f \in update.left
  /\ knobs' = [knobs EXCEPT ![f] = update.to[f]]
  /\ update' = [update EXCEPT !.left = @ \ {f}]
  /\ UNCHANGED <<cfgVars, bootVars, stage, fdVars, snap>>

\* sync, unless the forwarders are pinned by another source.
ReloadSyncs ==
  /\ update.busy /\ update.left = {}
  /\ IF source = "File"
     THEN forwarders' = update.loaded.list /\ entries' = update.loaded.entries
     ELSE UNCHANGED <<forwarders, entries>>
  /\ update' = Nothing
  /\ UNCHANGED <<cfgVars, source, settings, stage, fdVars, knobs, snap>>

-----------------------------------------------------------------------------
\* RuntimeKnobs::snapshot for an accepted connection, a load at a time.

Built == DOMAIN snap = {SnapshotOrder[i] : i \in DOMAIN SnapshotOrder}

Accept ==
  /\ stage = "serving" /\ Built
  /\ snap' = <<>>
  /\ UNCHANGED <<cfgVars, bootVars, stage, fdVars, knobVars>>

LoadKnob ==
  /\ stage = "serving" /\ ~Built
  /\ LET f == SnapshotOrder[Cardinality(DOMAIN snap) + 1]
     IN  snap' = Over([g \in {f} |-> knobs[g]], snap)
  /\ UNCHANGED <<cfgVars, bootVars, stage, fdVars, knobVars>>

Next ==
  \/ LoadForwarders \/ LoadSettings \/ Serve \/ Edit
  \/ ReloadLoads \/ (\E f \in KnobFields : StoreKnob(f)) \/ ReloadSyncs
  \/ Accept \/ LoadKnob
  \/ stage = "refused" /\ UNCHANGED vars

Spec == Init /\ [][Next]_vars
-----------------------------------------------------------------------------
\* Properties.

Endpoint(f) == <<f.protocol, f.local_host, f.local_port>>

\* What an entry of the file asks for, by arithmetic on its numbers alone.
Wanted(raw) ==
  {[local_host  |-> raw.local_host,  local_port  |-> raw.local_port + k,
    remote_host |-> raw.remote_host, remote_port |-> raw.remote_port + k,
    protocol    |-> raw.protocol] :
     k \in 0 .. (IF raw.local_port_end = {} THEN 0 ELSE MaxPort)}

InRange(raw, f) == raw.local_port_end = {} \/ \E end \in raw.local_port_end : f.local_port <= end

\* What runs is what was asked for, through every edit and reload: the forwarders
\* of a process configured by file are exactly the ports of the entries last
\* applied, each paired with the remote port at its offset, every port a u16 and
\* no protocol and local address twice (deserialize_forwarders, expand_specs and
\* the sync of watch_config_file); an entry that writes its remote end ends there.
RunsWhatIsListed ==
  stage = "serving" =>
    /\ \A i, j \in DOMAIN forwarders : Endpoint(forwarders[i]) = Endpoint(forwarders[j]) => i = j
    /\ source = "File" =>
         Range(forwarders) = UNION {{f \in Wanted(entries[i]) : InRange(entries[i], f)} : i \in DOMAIN entries}
    /\ \A i \in DOMAIN forwarders : {forwarders[i].local_port, forwarders[i].remote_port} \subseteq U16
    /\ \A i \in DOMAIN entries : \A l \in entries[i].local_port_end, r \in entries[i].remote_port_end :
         l - entries[i].local_port = r - entries[i].remote_port

\* A knob's value for a flag of the command line.
PinnedTo(f) == IF f = "socket_buffer_bytes" THEN CHOOSE n \in cli.flags[f] : TRUE ELSE cli.flags[f]

\* Precedence outlives reloads: once serving, a flag of the
\* command line is the knob's value whatever the file has since been edited to
\* (a keepalive detail may be raised to 1 when an edit turns keepalive on), and
\* forwarders of the environment or the command line are never replaced
\* (load_forwarders_with_source, apply_cli_overrides, ReloadPolicy).
OverridesSurvive ==
  stage = "serving" =>
    /\ \A f \in DOMAIN cli.flags \cap KnobFields :
         \/ knobs[f] = PinnedTo(f)
         \/ f \in {"keepalive_interval_secs", "keepalive_retries"} /\ PinnedTo(f) = 0 /\ knobs[f] = 1
    /\ load_env_forwarders(env) # {<<>>} => load_env_forwarders(env) = {forwarders}
    /\ source = "Cli" => cli_forwarders(cli.forwarders) = {forwarders}

\* Every connection can work with its snapshot, even one whose loads fell between
\* the stores of a reload: a copy buffer that is neither empty nor huge, timeouts
\* that are not zero, and keepalive off or with every parameter at least 1
\* (RuntimeKnobs::update clamps, the getters floor).
SnapshotUsable ==
  Built => LET k == KnobSnapshot(snap)
           IN  /\ k.buffer_bytes \in MIN_BUFFER_BYTES .. MAX_BUFFER_BYTES
               /\ 0 \notin {k.connect_timeout, k.dns_timeout} \cup k.socket_buffer_bytes
               /\ \A ka \in k.keepalive : ka.idle >= 1 /\ ka.interval >= 1 /\ ka.retries >= 1

\* Startup and reload agree on what a good value is: settings that validate would
\* accept are not touched by clamp_in_place, and the clamped settings are refused by
\* validate only for a metrics address or a webhook URL, which take effect at
\* startup alone and which clamp_in_place leaves as the file and the flags have them.
ClampAgrees ==
  LET s == apply_cli_overrides(FromFile(file.settings), cli.flags)
      c == clamp_in_place(s)
  IN  /\ validate(s) => c = s
      /\ validate(c) <=> EndpointsValid(s)

\* The open-file limit is never lowered nor raised past the hard limit by the two
\* adjustments, whichever calls fail; and a process that starts without a warning
\* has room for max_connections and for udp_max_sessions, each by itself
\* (raise_soft_limit, then ensure_fd_budget).
LimitsSound ==
  [][stage # "serving" /\ stage' = "serving" =>
       /\ rl'.hard = rl0.hard /\ rl'.soft >= rl0.soft
       /\ rl'.soft > rl0.soft => rl'.soft <= rl'.hard
       /\ warned' = {} =>
            /\ \A max \in settings.max_connections :
                 rl'.soft >= BASE_FDS + (IF settings.use_splice THEN 6 ELSE 2) * Least(max, MaxU64 \div 8)
            /\ "udp" \in {f.protocol : f \in Range(forwarders)} =>
                 rl'.soft >= settings.udp_max_sessions + FD_HEADROOM]_vars
=============================================================================
