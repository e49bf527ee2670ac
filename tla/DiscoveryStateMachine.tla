------------------------ MODULE DiscoveryStateMachine ------------------------
(***************************************************************************)
(* The phases of the workflow and the methods that move between them.      *)
(* Each method is a function from the phases it accepts to the phase it    *)
(* leads to; outside its domain it throws and changes nothing.  Nothing in *)
(* the repository calls fail(), so no phase leads to "error".              *)
(***************************************************************************)
VARIABLES
  phase,         \* #phase
  configActive   \* #configActive

Phase ==
  {"idle", "waiting-for-disconnect", "waiting-for-link", "listening", "device-found",
   "configuring", "verifying", "connected", "cleanup", "done", "error"}

Waiting == {"waiting-for-disconnect", "waiting-for-link"}

start(skipReplug) ==
  [p \in {"idle", "error", "done"} |->
     IF skipReplug THEN "listening" ELSE "waiting-for-disconnect"]
linkDown == [p \in Waiting |-> "waiting-for-link"]
linkUp ==
  [p \in {"waiting-for-link", "listening", "device-found", "verifying"} |->
     IF p = "waiting-for-link" THEN "listening" ELSE p]
confirmDisconnected == [p \in {"waiting-for-disconnect"} |-> "waiting-for-link"]
skipReplug == [p \in Waiting |-> "listening"]
deviceFound == [p \in {"listening"} |-> "device-found"]
startConfigure == [p \in {"device-found"} |-> "configuring"]
\* Mutants: the phase does not move.
configAppliedInPlace == [p \in {"configuring"} |-> p]
configureFailedInPlace == [p \in {"configuring"} |-> p]
configApplied == [p \in {"configuring"} |-> "verifying"]
configureFailed == [p \in {"configuring"} |-> "device-found"]
configureDeclined == [p \in {"device-found"} |-> "connected"]
startVerify == [p \in {"device-found"} |-> "verifying"]
verificationEnds == [p \in {"verifying"} |-> "connected"]
beginCleanup == [p \in Phase |-> IF p \in {"idle", "done"} THEN p ELSE "cleanup"]
cleanupComplete == [p \in {"cleanup", "idle", "done"} |-> IF p = "idle" THEN p ELSE "done"]
restart == [p \in Phase \ {"idle"} |-> "waiting-for-disconnect"]

Accepts(method) == phase \in DOMAIN method
Moves(method) == Accepts(method) /\ phase' = method[phase]
=============================================================================
