-------------------------- MODULE MCCleanupManager --------------------------
(* Instances of CleanupManager for TLC. *)
EXTENDS CleanupManager, TLC

\* Sessions and shutdown calls are interchangeable; addresses too.
Symmetry ==
  Permutations(Session) \union Permutations(ShutdownCall) \union Permutations(Addr)
=============================================================================
