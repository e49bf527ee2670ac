----------------------- MODULE MCWindowsNetworkConfig -----------------------
(* An instance of WindowsNetworkConfig for TLC. *)
EXTENDS WindowsNetworkConfig, TLC

\* Sessions are interchangeable, and so are the addresses.
Symmetry == Permutations(Session) \union Permutations(Addr)
=============================================================================
