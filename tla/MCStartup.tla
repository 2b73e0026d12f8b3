----------------------------- MODULE MCStartup ------------------------------
(***************************************************************************)
(* Startup on ports 0 .. 6 and ranges of at most three.  Every way to      *)
(* write one entry, and overlapping pairs of entries, are files to start   *)
(* from; a few starts combine the three sources with edits of the file.    *)
(***************************************************************************)
EXTENDS Startup, TLC

Raw(l, le, r, re, protocol) ==
  [local_host |-> "here", local_port |-> l, local_port_end |-> le,
   remote_host |-> "there", remote_port |-> r, remote_port_end |-> re, protocol |-> protocol]

File(list, written) == [readable |-> TRUE, yaml |-> TRUE, forwarders |-> list, settings |-> written]

One(p) == [dash |-> FALSE, first |-> p, last |-> {}]
Two(p, q) == [dash |-> TRUE, first |-> p, last |-> q]

Text(parts, suffix, local, remote) ==
  [parts |-> parts, suffix |-> suffix, local |-> local, remote |-> remote,
   local_host |-> "here", remote_host |-> "there"]

Roomy == [soft |-> MaxU64, hard |-> MaxU64]

Start(c, e, f, limit) == [cli |-> c, env |-> e, file |-> f, rl |-> limit]

FileOnly == CliArgs(TRUE, <<>>, <<>>)

-----------------------------------------------------------------------------
\* One entry, written in every way.
Entries ==
  {Raw(l, le, r, re, "tcp") : l \in {0, 1, 4, 6}, le \in {{}} \cup {{p} : p \in {0, 2, 3, 4, 6}},
                              r \in {0, 2, 5}, re \in {{}} \cup {{p} : p \in {2, 4, 6}}}

\* Two entries whose ports may meet.
Pairs ==
  {<<Raw(1, a, 2, {}, "tcp"), Raw(b, c, 1, {}, p)>> :
      a \in {{}, {2}, {3}}, b \in {1, 2, 4}, c \in {{}, {4}}, p \in Protocol}

GridFiles == {File(<<e>>, <<>>) : e \in Entries} \cup {File(p, <<>>) : p \in Pairs}

\* Texts of the command line and of the environment.
Texts == {Text(4, "none", One({5}), One({2})), Text(4, "udp", Two({1}, {3}), Two({4}, {6})),
          Text(4, "tcp", Two({1}, {3}), One({2})), Text(3, "none", One({5}), One({2})),
          Text(4, "sctp", One({5}), One({2})), Text(4, "udp", One({7}), One({2})),
          Text(4, "none", Two({}, {3}), Two({1}, {3}))}

Envs == {<<>>, 3 :> Text(4, "udp", One({1}), One({2})) @@ 7 :> Text(3, "none", One({5}), One({2})),
         1 :> Text(4, "none", One({1}), One({2})) @@ 2 :> Text(4, "tcp", Two({1}, {2}), Two({3}, {4}))}

-----------------------------------------------------------------------------
\* Files to edit to: sound, repaired on reload, repaired in part, refused,
\* unparseable, unreadable.
Plain == File(<<Raw(1, {}, 2, {}, "tcp")>>, <<>>)
Tuned == File(<<Raw(2, {3}, 4, {}, "udp")>>,
              [buffer_bytes |-> 4096, keepalive_idle_secs |-> 0, keepalive_interval_secs |-> 0,
               keepalive_retries |-> 0, connect_timeout_secs |-> 3])
Wrong == File(<<Raw(1, {}, 2, {}, "tcp"), Raw(1, {}, 3, {}, "udp")>>,
              [buffer_bytes |-> 0, connect_timeout_secs |-> 0, keepalive_retries |-> 0,
               socket_buffer_bytes |-> {0}, udp_max_sessions |-> 0])
Lost  == File(<<Raw(1, {}, 2, {}, "tcp")>>,
              [metrics_addr |-> {"other"}, webhook_url |-> {"other"}, report_interval_secs |-> 0])
Twice == File(<<Raw(1, {3}, 2, {}, "tcp"), Raw(3, {}, 3, {}, "tcp")>>, <<>>)
Torn  == [Plain EXCEPT !.yaml = FALSE]
Gone  == [Plain EXCEPT !.readable = FALSE]

MCEdits == {Plain, Tuned, Wrong, Lost, Twice, Torn, Gone}

Flags == [keepalive_interval_secs |-> 20, socket_buffer_bytes |-> {512}, use_splice |-> TRUE,
          webhook_url |-> {"blank"}]

Sessions(n, m) == [udp_max_sessions |-> n, max_connections |-> m, use_splice |-> TRUE]

MCStarts ==
       {Start(FileOnly, <<>>, f, Roomy) : f \in GridFiles}
  \cup {Start(CliArgs(FALSE, t, <<>>), e, Gone, Roomy) :
          t \in {<<t>> : t \in Texts} \cup {<<t, u>> : t, u \in Texts}, e \in Envs}
  \cup {Start(CliArgs(TRUE, t, flags), e, f, Roomy) :
          t \in {<<>>, <<Text(4, "none", One({5}), One({2}))>>}, flags \in {<<>>, Flags},
          e \in Envs, f \in {Plain, Tuned, Wrong, Gone}}
  \cup {Start(CliArgs(FALSE, <<Text(4, p, One({5}), One({2}))>>, Sessions(n, m)), <<>>, Gone,
              [soft |-> s, hard |-> h]) :
          p \in Protocol, n \in {768, 2000}, m \in {{}, {300}, {MaxU64 \div 4}},
          s \in {256, 1024}, h \in {1024, 2256, MaxU64}}
=============================================================================
