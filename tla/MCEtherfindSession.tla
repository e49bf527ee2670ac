-------------------------- MODULE MCEtherfindSession --------------------------
(* Instances of EtherfindSession for TLC. *)
EXTENDS EtherfindSession

Run(argv, inputs) == [argv |-> argv, tty |-> TRUE, inputs |-> inputs]

Keys == {"confirm", "skip", "keep"}

\* The terminal UI without interruptions, with quits and failures, with
\* restarts, quits at any time; --listen; the simulation; JSON mode with and
\* without configuration and failures.
Started ==
  {Run(<<>>, Keys),
   Run(<<>>, Keys \union {"quit", "error"}),
   Run(<<"-i", "present", "--debug">>, Keys \union {"restart"}),
   Run(<<"--no-configure", "--all-interfaces">>, {"quit", "early"}),
   Run(<<"--listen">>, {"keep", "quit", "error"}),
   Run(<<"--simulate">>, Keys \union {"restart"}),
   Run(<<"--json", "-i", "present">>, {}),
   [Run(<<"--json">>, {"error"}) EXCEPT !.tty = FALSE],
   Run(<<"--json", "--no-configure">>, {"error", "spawn"}),
   Run(<<"--json", "-i", "present">>, {"quit"}),
   Run(<<"--json", "--simulate">>, {})}

\* Command lines that go no further than main() or the choice of the interface.
Refused ==
  {Run(argv, {"quit"}) : argv \in
     {<<"-i">>, <<"--help", "--unknown">>, <<"--json", "--help">>, <<"--version", "--cleanup">>,
      <<"--cleanup", "--json">>, <<"-i", "--json">>, <<"--json", "-i", "absent">>}}
  \union {[Run(<<"--simulate">>, {}) EXCEPT !.tty = FALSE]}

AllCommands == Started \union Refused
AllSessions == {OptionsOf(c) : c \in AllCommands}

\* Nothing; a connected adapter; beside it, before or after, one that has an
\* address and lacks something else, or nothing.
PluggedIn ==
  {[os |-> "linux", name |-> "other", wireless |-> FALSE, device |-> TRUE, operstate |-> "up",
    addressed |-> FALSE],
   [os |-> "windows", description |-> "other", media |-> "802.3", virtual |-> FALSE,
    status |-> "Up", addressed |-> FALSE]}
Addressed ==
  {a \in LinuxAdapter : a.addressed /\ a.name # "loopback" /\ a.operstate \in {"up", "down"}}
  \union {a \in WindowsAdapter : a.addressed /\ a.description # "loopback"
                                  /\ a.status \in {"Up", "Disconnected"}}
Pairs == {p \in PluggedIn \X Addressed : p[1].os = p[2].os}
AllMachines ==
  {<<>>} \union {<<a>> : a \in PluggedIn}
  \union {<<p[1], p[2]>> : p \in Pairs} \union {<<p[2], p[1]>> : p \in Pairs}
=============================================================================
