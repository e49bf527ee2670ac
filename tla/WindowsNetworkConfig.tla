------------------------ MODULE WindowsNetworkConfig ------------------------
(***************************************************************************)
(* WindowsNetworkConfigService under its caller, CleanupManager: a         *)
(* temporary address needs the interface's DHCP/static coexistence flag,   *)
(* which is the user's.  addAddress reads the flag, switches it on with    *)
(* the address in one elevated script, and says whether it was off; the    *)
(* record carries that answer to a removeAddress that may be another       *)
(* process's.                                                              *)
(*                                                                         *)
(* A script is a child process: its commands run one by one, whether or    *)
(* not the one before succeeded and whether or not the caller still lives, *)
(* and its exit code is the last command's.  The journal is reliable here; *)
(* CleanupManager is about what becomes of it.                             *)
(***************************************************************************)
EXTENDS Integers, Sequences

CONSTANTS
  Session,    \* processes, one at a time, each started at most once
  Addr,       \* the addresses the suggestion can name, on the one interface
  MaxLeases,  \* bound: applyTemporaryAddress calls over all sessions
  Faults,     \* what may go wrong, a subset of AllFaults
  None        \* no lease

AllFaults ==
  {"command",     \* a command of a script fails
   "declined",    \* the user declines the elevation
   "unreadable",  \* netsh labels the flag in another language
   "crash",       \* the process dies
   "reboot"}      \* the machine restarts

\* The recorded change, with restoreDetails.coexistenceEnabledByUs as "ours".
Lease == [id : 1..MaxLeases, addr : Addr, ours : BOOLEAN]

ASSUME MaxLeasesAssumption == MaxLeases \in Nat
ASSUME FaultsAssumption == Faults \subseteq AllFaults
ASSUME NoneAssumption == None \notin Lease

VARIABLES
  flag,     \* dhcpstaticipcoexistence of the interface
  user,     \* what the user last set it to
  present,  \* the temporary addresses on the interface
  journal,  \* #changes, which the next session loads
  stage,    \* stage[s]: where process s is in its life
  pc,       \* pc[s]: what it waits for
  doing,    \* doing[s]: the lease it is making or removing
  todo,     \* todo[s]: what its restore loop has left
  script,   \* script[s]: the elevated script it started
  nextId,   \* next lease number
  mishaps   \* history: what has gone wrong so far

vars == <<flag, user, present, journal, stage, pc, doing, todo, script, nextId, mishaps>>
interface == <<flag, user, present>>

Idle == [cmds |-> <<>>, addr |-> None, status |-> "none", complaint |-> FALSE]
Script(cmds, a) == [Idle EXCEPT !.cmds = cmds, !.addr = a]

Live(s) == stage[s] \in {"recovering", "open", "closing"}
Over(s) == script[s].cmds = <<>>

Init ==
  /\ user \in {"enabled", "disabled"}
  /\ flag = user
  /\ present = {}
  /\ journal = {}
  /\ stage = [s \in Session |-> "off"]
  /\ pc = [s \in Session |-> "idle"]
  /\ doing = [s \in Session |-> None]
  /\ todo = [s \in Session |-> {}]
  /\ script = [s \in Session |-> Idle]
  /\ nextId = 1
  /\ mishaps = {}

-----------------------------------------------------------------------------
(* The life of a process *)

\* run(): leftovers are restored first.
Start(s) ==
  /\ stage[s] = "off"
  /\ \A t \in Session : ~Live(t)
  /\ stage' = [stage EXCEPT ![s] = "recovering"]
  /\ todo' = [todo EXCEPT ![s] = journal]
  /\ UNCHANGED <<interface, journal, pc, doing, script, nextId, mishaps>>

\* Leftovers that stay make run() throw; shutdown() then tries them again.
RecoveryEnds(s) ==
  /\ stage[s] = "recovering"
  /\ pc[s] = "idle"
  /\ todo[s] = {}
  /\ stage' = [stage EXCEPT ![s] = IF journal = {} THEN "open" ELSE "closing"]
  /\ todo' = [todo EXCEPT ![s] = journal]
  /\ UNCHANGED <<interface, journal, pc, doing, script, nextId, mishaps>>

\* shutdown() between two operations; CleanupManager has the others.
Shutdown(s) ==
  /\ stage[s] = "open"
  /\ pc[s] = "idle"
  /\ stage' = [stage EXCEPT ![s] = "closing"]
  /\ todo' = [todo EXCEPT ![s] = journal]
  /\ UNCHANGED <<interface, journal, pc, doing, script, nextId, mishaps>>

Exit(s) ==
  /\ stage[s] = "closing"
  /\ pc[s] = "idle"
  /\ todo[s] = {}
  /\ stage' = [stage EXCEPT ![s] = "over"]
  /\ UNCHANGED <<interface, journal, pc, doing, todo, script, nextId, mishaps>>

\* A script that was started goes on without its process.
Crash(s) ==
  /\ "crash" \in Faults
  /\ Live(s)
  /\ stage' = [stage EXCEPT ![s] = "over"]
  /\ mishaps' = IF pc[s] = "adding" THEN mishaps \union {"lost"} ELSE mishaps
  /\ pc' = [pc EXCEPT ![s] = "idle"]
  /\ doing' = [doing EXCEPT ![s] = None]
  /\ todo' = [todo EXCEPT ![s] = {}]
  /\ UNCHANGED <<interface, journal, script, nextId>>

\* store=active: the addresses do not survive.  The flag does.
Reboot ==
  /\ "reboot" \in Faults
  /\ present' = {}
  /\ stage' = [s \in Session |-> IF Live(s) THEN "over" ELSE stage[s]]
  /\ script' = [s \in Session |-> Idle]
  /\ mishaps' = IF \E s \in Session : Live(s) /\ pc[s] = "adding"
                THEN mishaps \union {"lost"} ELSE mishaps
  /\ pc' = [s \in Session |-> "idle"]
  /\ doing' = [s \in Session |-> None]
  /\ todo' = [s \in Session |-> {}]
  /\ UNCHANGED <<flag, user, journal, nextId>>

\* The user decides on the flag while Etherfind has nothing to do with it.
UserSets ==
  /\ journal = {}
  /\ \A s \in Session : Over(s) /\ pc[s] = "idle"
  /\ user' \in {"enabled", "disabled"} \ {user}
  /\ flag' = user'
  /\ UNCHANGED <<present, journal, stage, pc, doing, todo, script, nextId, mishaps>>

-----------------------------------------------------------------------------
(* addAddress *)

\* applyTemporaryAddress takes its snapshot, which changes nothing ...
Apply(s, a) ==
  /\ stage[s] = "open"
  /\ pc[s] = "idle"
  /\ nextId <= MaxLeases
  /\ pc' = [pc EXCEPT ![s] = "snapshot"]
  /\ doing' = [doing EXCEPT ![s] = [id |-> nextId, addr |-> a, ours |-> FALSE]]
  /\ nextId' = nextId + 1
  /\ UNCHANGED <<interface, journal, stage, todo, script, mishaps>>

\* ... and whose unreadable output counts as no addresses.
Snapshot(s) ==
  /\ Live(s)
  /\ pc[s] = "snapshot"
  /\ pc' = [pc EXCEPT ![s] = "reading"]
  /\ UNCHANGED <<interface, journal, stage, doing, todo, script, nextId, mishaps>>

\* What #readCoexistence can answer.
CoexistenceRead == {flag} \union IF "unreadable" \in Faults THEN {"unknown"} ELSE {}

\* Mutant: an unreadable flag counts as disabled.
UnknownIsOurs(before) == before # "enabled"

\* Only a flag positively seen disabled was enabled by us.
EnabledByUs(before) == before = "disabled"

AddCommands(before) ==
  IF before = "enabled" THEN <<"add">> ELSE <<"enable", "add">>

AddAddress(s) ==
  /\ Live(s)
  /\ pc[s] = "reading"
  /\ \E before \in CoexistenceRead :
       /\ doing' = [doing EXCEPT ![s].ours = EnabledByUs(before)]
       /\ script' = [script EXCEPT ![s] = Script(AddCommands(before), doing[s].addr)]
       /\ mishaps' = IF before = "unknown" THEN mishaps \union {"unknown"} ELSE mishaps
  /\ pc' = [pc EXCEPT ![s] = "adding"]
  /\ UNCHANGED <<interface, journal, stage, todo, nextId>>

Answered(s) == Live(s) /\ Over(s) /\ script[s].status # "none"
Failed(s) == script[s].status = "failed"

\* The operation has returned or thrown; its variables are gone.
Settled(s) ==
  /\ pc' = [pc EXCEPT ![s] = "idle"]
  /\ doing' = [doing EXCEPT ![s] = None]
  /\ script' = [script EXCEPT ![s] = Idle]

\* The exit code is good and stderr says nothing of failure: CleanupManager
\* records the lease, on disk before it returns.
AddReturns(s) ==
  /\ Answered(s)
  /\ pc[s] = "adding"
  /\ ~Failed(s) /\ ~script[s].complaint
  /\ journal' = journal \union {doing[s]}
  /\ Settled(s)
  /\ UNCHANGED <<interface, stage, todo, nextId, mishaps>>

\* It throws, and nothing is recorded of what the script did do.
AddThrows(s) ==
  /\ Answered(s)
  /\ pc[s] = "adding"
  /\ Failed(s) \/ script[s].complaint
  /\ Settled(s)
  /\ UNCHANGED <<interface, journal, stage, todo, nextId, mishaps>>

-----------------------------------------------------------------------------
(* restore and removeAddress *)

\* Mutant: the oldest lease first.
NextOldest(s) == {c \in todo[s] : \A d \in todo[s] : c.id <= d.id}

\* The restore loop goes through the changes from the last to the first.
NextToRemove(s) == {c \in todo[s] : \A d \in todo[s] : d.id <= c.id}

\* Mutant: the flag is not switched off again.
RemoveAddressOnly(c) == <<"delete">>

RemoveCommands(c) ==
  IF c.ours THEN <<"delete", "disable">> ELSE <<"delete">>

RemoveAddress(s) ==
  /\ stage[s] \in {"recovering", "closing"}
  /\ pc[s] = "idle"
  /\ \E c \in NextToRemove(s) :
       /\ doing' = [doing EXCEPT ![s] = c]
       /\ todo' = [todo EXCEPT ![s] = @ \ {c}]
       /\ script' = [script EXCEPT ![s] = Script(RemoveCommands(c), c.addr)]
  /\ pc' = [pc EXCEPT ![s] = "removing"]
  /\ UNCHANGED <<interface, journal, stage, nextId, mishaps>>

\* The exit code is good: the lease is forgotten.
RemoveReturns(s) ==
  /\ Answered(s)
  /\ pc[s] = "removing"
  /\ ~Failed(s)
  /\ journal' = journal \ {doing[s]}
  /\ Settled(s)
  /\ UNCHANGED <<interface, stage, todo, nextId, mishaps>>

\* It throws: the lease stays recorded, the loop goes on.
RemoveThrows(s) ==
  /\ Answered(s)
  /\ pc[s] = "removing"
  /\ Failed(s)
  /\ Settled(s)
  /\ UNCHANGED <<interface, journal, stage, todo, nextId, mishaps>>

-----------------------------------------------------------------------------
(* The elevated script *)

\* The user, or the policy, says no: nothing runs, and the code is not zero.
Declined(s) ==
  /\ "declined" \in Faults
  /\ ~Over(s)
  /\ script[s].status = "none"
  /\ script' = [script EXCEPT ![s] = [Idle EXCEPT !.status = "failed", !.complaint = TRUE]]
  /\ mishaps' = mishaps \union {"declined"}
  /\ UNCHANGED <<interface, journal, stage, pc, doing, todo, nextId>>

CanSucceed(op, a) ==
  /\ op = "add" => a \notin present
  /\ op = "delete" => a \in present

Effect(op, a) ==
  /\ flag' = CASE op = "enable" -> "enabled"
               [] op = "disable" -> "disabled"
               [] OTHER -> flag
  /\ present' = CASE op = "add" -> present \union {a}
                  [] op = "delete" -> present \ {a}
                  [] OTHER -> present

\* A command of a script whose process is gone runs late.
Late(s) == IF Live(s) THEN {} ELSE {"late"}

CommandSucceeds(s) ==
  /\ ~Over(s)
  /\ CanSucceed(Head(script[s].cmds), script[s].addr)
  /\ Effect(Head(script[s].cmds), script[s].addr)
  /\ script' = [script EXCEPT ![s].cmds = Tail(@), ![s].status = "ok"]
  /\ mishaps' = mishaps \union Late(s)
  /\ UNCHANGED <<user, journal, stage, pc, doing, todo, nextId>>

\* netsh complains on stdout, PowerShell itself on stderr.
CommandFails(s) ==
  /\ ~Over(s)
  /\ "command" \in Faults \/ ~CanSucceed(Head(script[s].cmds), script[s].addr)
  /\ \E complaint \in {script[s].complaint, TRUE} :
       script' = [script EXCEPT ![s].cmds = Tail(@), ![s].status = "failed",
                                ![s].complaint = complaint]
  /\ mishaps' = mishaps \union {"failed"} \union Late(s)
  /\ UNCHANGED <<interface, journal, stage, pc, doing, todo, nextId>>

-----------------------------------------------------------------------------
Next ==
  \/ \E s \in Session :
       \/ Start(s)
       \/ RecoveryEnds(s)
       \/ Shutdown(s)
       \/ Exit(s)
       \/ Crash(s)
       \/ \E a \in Addr : Apply(s, a)
       \/ Snapshot(s)
       \/ AddAddress(s)
       \/ AddReturns(s)
       \/ AddThrows(s)
       \/ RemoveAddress(s)
       \/ RemoveReturns(s)
       \/ RemoveThrows(s)
       \/ Declined(s)
       \/ CommandSucceeds(s)
       \/ CommandFails(s)
  \/ Reboot
  \/ UserSets

Spec == Init /\ [][Next]_vars

-----------------------------------------------------------------------------
(* Properties *)

Scripts == {<<>>, <<"add">>, <<"enable", "add">>, <<"delete">>, <<"disable">>,
            <<"delete", "disable">>}

ScriptState ==
  {sc \in [cmds : Scripts, addr : Addr \union {None},
           status : {"none", "ok", "failed"}, complaint : BOOLEAN] :
     sc.cmds # <<>> => sc.addr \in Addr}

\* The variables keep to their types, and an operation has a lease.
TypeOK ==
  /\ flag \in {"enabled", "disabled"}
  /\ user \in {"enabled", "disabled"}
  /\ present \subseteq Addr
  /\ journal \subseteq Lease
  /\ stage \in [Session -> {"off", "recovering", "open", "closing", "over"}]
  /\ pc \in [Session -> {"idle", "snapshot", "reading", "adding", "removing"}]
  /\ doing \in [Session -> Lease \union {None}]
  /\ \A s \in Session : pc[s] # "idle" => doing[s] \in Lease
  /\ todo \in [Session -> SUBSET Lease]
  /\ script \in [Session -> ScriptState]
  /\ nextId \in 1..(MaxLeases + 1)
  /\ mishaps \subseteq {"failed", "declined", "unknown", "lost", "late"}

\* A flag that the user has enabled is never off: whatever fails, crashes or
\* is restored by whom, cleanup leaves the user's setting alone.
\* (removeAddress: "only if we enabled it")
UserEnabledKept == user = "enabled" => flag = "enabled"

\* No recorded address is on the interface without the flag it needs, not even
\* while several are removed, and not by recovery after a crash or a reboot,
\* unless a command failed, was declined, or ran after its process.
LeasedWithFlag ==
  mishaps \intersect {"failed", "declined", "late"} = {} =>
    \A c \in journal : c.addr \in present => flag = "enabled"

\* Whatever a removal will have to undo is on record, or is being added: a
\* temporary address on the interface, and a flag that is on against the
\* user's will; unless a command failed, the process died in the middle of an
\* add or, for the flag, it could not be read.
LeftoversOnRecord ==
  mishaps \intersect {"failed", "lost"} = {} =>
    /\ \A a \in present :
         \/ \E c \in journal : c.addr = a
         \/ \E s \in Session : pc[s] = "adding" /\ doing[s].addr = a
    /\ flag = "enabled" /\ user = "disabled" /\ "unknown" \notin mishaps =>
         \/ \E c \in journal : c.ours
         \/ \E s \in Session : pc[s] = "adding" /\ doing[s].ours
=============================================================================
