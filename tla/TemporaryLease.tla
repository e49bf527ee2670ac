---------------------------- MODULE TemporaryLease ----------------------------
(***************************************************************************)
(* What CleanupManager promises of the temporary addresses, session after  *)
(* session, if the journal can be written: it lends free addresses only;   *)
(* of each session at most one that is lent is not on record; a change is  *)
(* struck off the record only when its address is no longer lent; and a    *)
(* session opens with a clean record, all leftovers being returned.        *)
(***************************************************************************)
CONSTANTS
  Session,   \* who lends
  Addr,      \* what can be lent
  Change,    \* the loans that are possible: of c.addr, by session c.by
  None       \* not lent

VARIABLES
  lent,      \* lent[a]: the loan of address a
  record,    \* the loans on record
  open       \* the session that may lend, if any, as a set

vars == <<lent, record, open>>

Init ==
  /\ lent = [a \in Addr |-> None]
  /\ record = {}
  /\ open = {}

\* What is lent and not on record.
Loose == {lent[a] : a \in Addr} \ (record \union {None})

\* The leftovers of the sessions before are returned, and forgotten.
Open(s) ==
  /\ open = {} /\ record = {}
  /\ open' = {s}
  /\ UNCHANGED <<lent, record>>

Close ==
  /\ open' = {}
  /\ UNCHANGED <<lent, record>>

\* The loan may come into effect late, when its session is no more.
Lend(c) ==
  /\ lent[c.addr] = None
  /\ c \notin record
  /\ \A d \in Loose : d.by # c.by
  /\ lent' = [lent EXCEPT ![c.addr] = c]
  /\ UNCHANGED <<record, open>>

Note(c) ==
  /\ open = {c.by}
  /\ record' = record \union {c}
  /\ UNCHANGED <<lent, open>>

\* A loan ends: it is returned, or lost.
End(a) ==
  /\ lent' = [lent EXCEPT ![a] = None]
  /\ UNCHANGED <<record, open>>

Strike(c) ==
  /\ \A a \in Addr : lent[a] # c
  /\ record' = record \ {c}
  /\ UNCHANGED <<lent, open>>

\* A restart of the machine ends every loan and the session, not the record.
Restart ==
  /\ lent' = [a \in Addr |-> None]
  /\ open' = {}
  /\ UNCHANGED record

Next ==
  \/ \E s \in Session : Open(s)
  \/ \E c \in Change : Lend(c) \/ Note(c) \/ Strike(c)
  \/ \E a \in Addr : End(a)
  \/ Close
  \/ Restart

Spec == Init /\ [][Next]_vars
=============================================================================
