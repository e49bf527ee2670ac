------------------------------ MODULE LinkWatch ------------------------------
(***************************************************************************)
(* What the port LinkMonitor promises the engine, whoever implements it:   *)
(* while the engine watches, it is told of changes and of nothing else; it *)
(* is never told a state the link never had, save that it is unknown; and  *)
(* what the monitor holds in the end is the state of the link.  The engine *)
(* may be told late.                                                       *)
(***************************************************************************)
VARIABLES
  link,      \* the physical link
  had,       \* the states it has had
  held,      \* what current() returns
  watching,  \* the engine is subscribed
  told       \* what the engine was told last, if anything

vars == <<link, had, held, watching, told>>

Init ==
  /\ link \in {"up", "down"} /\ had = {link}
  /\ held = "unknown"
  /\ watching = FALSE /\ told = "nothing"

LinkChanges ==
  /\ link' \in {"up", "down"} \ {link}
  /\ had' = had \union {link'}
  /\ UNCHANGED <<held, watching, told>>

\* start() and subscribe(): nothing is told of what is already held.
Watch ==
  /\ watching' = TRUE
  /\ told' = IF watching THEN told ELSE "nothing"
  /\ UNCHANGED <<link, had, held>>

Report ==
  /\ held' \in (had \union {"unknown"}) \ {held}
  /\ told' = IF watching THEN held' ELSE told
  /\ UNCHANGED <<link, had, watching>>

Unwatch ==
  /\ watching' = FALSE
  /\ UNCHANGED <<link, had, held, told>>

Next == LinkChanges \/ Watch \/ Report \/ Unwatch

\* The promise to report in the end, if the link settles.
Settles == <>[][UNCHANGED link]_link
Reports == Settles /\ <>[]watching => <>[](held = link)

Spec == Init /\ [][Next]_vars
Promise == Spec /\ Reports
=============================================================================
