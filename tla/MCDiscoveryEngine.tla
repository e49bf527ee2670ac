-------------------------- MODULE MCDiscoveryEngine --------------------------
(* The instance of DiscoveryEngine for TLC; EtherfindSession covers the rest. *)
EXTENDS DiscoveryEngine

\* A user who skips the guidance and restarts.
RestartingSessions ==
  {[mode |-> "tui", skipReplug |-> FALSE, listenOnly |-> FALSE, configurable |-> TRUE,
    probe |-> TRUE, monitored |-> TRUE, inputs |-> {"skip", "restart"}]}
=============================================================================
