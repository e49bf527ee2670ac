--------------------- MODULE WindowsNetworkConfigProofs ---------------------
(* Theorems about WindowsNetworkConfig, for any number of sessions, addresses *)
(* and leases, and every set of faults.                                       *)
EXTENDS WindowsNetworkConfig, TLAPS

-----------------------------------------------------------------------------
(* The inductive invariant behind UserEnabledKept *)

\* Only one process lives, and only it has a restore loop or an operation.
OneAtATime ==
  /\ \A s, t \in Session : Live(s) /\ Live(t) => s = t
  /\ \A s \in Session : ~Live(s) => todo[s] = {} /\ doing[s] = None /\ pc[s] = "idle"

\* What a restore has left to do is recorded, and so is what it is removing,
\* which it has taken from there.
LoopRecorded ==
  \A s \in Session :
    /\ todo[s] \subseteq journal
    /\ pc[s] = "removing" => doing[s] \notin todo[s]
    /\ pc[s] = "idle" => doing[s] = None

\* What a script with a switch-off has left to run.
SwitchOff == {<<"disable">>, <<"delete", "disable">>}

\* The flag is claimed only where the user has it disabled: in the records, in
\* an operation under way, and in a script, whoever it outlives.
RecordsJust == \A c \in journal : c.ours => user = "disabled"
DoingJust == \A s \in Session : doing[s] # None /\ doing[s].ours => user = "disabled"
ScriptsJust ==
  \A s \in Session :
    script[s].cmds \in SwitchOff => user = "disabled"
ClaimsJust == RecordsJust /\ DoingJust /\ ScriptsJust

IInv == TypeOK /\ OneAtATime /\ LoopRecorded /\ ClaimsJust /\ UserEnabledKept

-----------------------------------------------------------------------------
(* Type correctness *)

\* The commands that remain of a script are a script.
LEMMA ScriptTail ==
  ASSUME NEW cmds \in Scripts, cmds # <<>>
  PROVE  Tail(cmds) \in Scripts
<1>1. \A op : Tail(<<op>>) = <<>>
  OBVIOUS
<1>2. \A op1, op2 : Tail(<<op1, op2>>) = <<op2>>
  OBVIOUS
<1>3. CASE cmds \in {<<"add">>, <<"delete">>, <<"disable">>}
  BY <1>1, <1>3 DEF Scripts
<1>4. CASE cmds = <<"enable", "add">>
  BY <1>2, <1>4 DEF Scripts
<1>5. CASE cmds = <<"delete", "disable">>
  BY <1>2, <1>5 DEF Scripts
<1> QED BY <1>3, <1>4, <1>5 DEF Scripts

\* What a script may be.
LEMMA ScriptTypes ==
  /\ Idle \in ScriptState
  /\ \A a \in Addr : \A before : Script(AddCommands(before), a) \in ScriptState
  /\ \A c \in Lease : Script(RemoveCommands(c), c.addr) \in ScriptState
<1>1. Idle \in ScriptState
  BY DEF Idle, ScriptState, Scripts
<1>2. ASSUME NEW before, NEW a \in Addr
      PROVE  Script(AddCommands(before), a) \in ScriptState
  <2>1. AddCommands(before) \in Scripts
    BY DEF AddCommands, Scripts
  <2> QED BY <2>1 DEF Script, Idle, ScriptState
<1>3. ASSUME NEW c \in Lease PROVE Script(RemoveCommands(c), c.addr) \in ScriptState
  <2>1. RemoveCommands(c) \in Scripts
    BY DEF RemoveCommands, Scripts
  <2>2. c.addr \in Addr
    BY DEF Lease
  <2> QED BY <2>1, <2>2 DEF Script, Idle, ScriptState
<1> QED BY <1>1, <1>2, <1>3

\* A script that has run a command is a script.
LEMMA ScriptUpdate ==
  ASSUME NEW sc \in ScriptState, sc.cmds # <<>>, NEW cmds \in Scripts,
         NEW status \in {"ok", "failed"}, NEW complaint \in BOOLEAN
  PROVE  /\ [sc EXCEPT !.cmds = cmds, !.status = status] \in ScriptState
         /\ [sc EXCEPT !.cmds = cmds, !.status = status, !.complaint = complaint] \in ScriptState
<1> DEFINE one == [sc EXCEPT !.cmds = cmds, !.status = status]
           two == [sc EXCEPT !.cmds = cmds, !.status = status, !.complaint = complaint]
<1>1. sc.addr \in Addr
  BY DEF ScriptState
<1>2. one.addr = sc.addr /\ two.addr = sc.addr
  BY DEF ScriptState
<1>3. /\ one \in [cmds : Scripts, addr : Addr \union {None},
                   status : {"none", "ok", "failed"}, complaint : BOOLEAN]
      /\ two \in [cmds : Scripts, addr : Addr \union {None},
                   status : {"none", "ok", "failed"}, complaint : BOOLEAN]
  BY DEF ScriptState
<1> HIDE DEF one, two
<1>4. one \in ScriptState /\ two \in ScriptState
  BY <1>1, <1>2, <1>3 DEF ScriptState
<1> QED BY <1>4 DEF one, two

\* They hold at first.
LEMMA TypeInit == Init => TypeOK
<1> SUFFICES ASSUME Init PROVE TypeOK
  OBVIOUS
<1>1. nextId \in 1..(MaxLeases + 1)
  BY MaxLeasesAssumption DEF Init
<1>2. script \in [Session -> ScriptState]
  BY ScriptTypes DEF Init
<1> QED BY <1>1, <1>2 DEF Init, TypeOK

\* Every step keeps the types.
LEMMA TypeStep == TypeOK /\ [Next]_vars => TypeOK'
<1> SUFFICES ASSUME TypeOK, [Next]_vars PROVE TypeOK'
  OBVIOUS
<1> USE DEF TypeOK

<1>1. ASSUME NEW s \in Session, Start(s) PROVE TypeOK'
  BY <1>1 DEF Start, interface
<1>2. ASSUME NEW s \in Session, RecoveryEnds(s) PROVE TypeOK'
  BY <1>2 DEF RecoveryEnds, interface
<1>3. ASSUME NEW s \in Session, Shutdown(s) PROVE TypeOK'
  BY <1>3 DEF Shutdown, interface
<1>4. ASSUME NEW s \in Session, Exit(s) PROVE TypeOK'
  BY <1>4 DEF Exit, interface
<1>5. ASSUME NEW s \in Session, Crash(s) PROVE TypeOK'
  BY <1>5 DEF Crash, interface
<1>6. ASSUME NEW s \in Session, NEW a \in Addr, Apply(s, a) PROVE TypeOK'
  <2>1. [id |-> nextId, addr |-> a, ours |-> FALSE] \in Lease
    BY <1>6, MaxLeasesAssumption DEF Apply, Lease
  <2>2. nextId' \in 1..(MaxLeases + 1)
    BY <1>6, MaxLeasesAssumption DEF Apply
  <2> QED BY <1>6, <2>1, <2>2 DEF Apply, interface
<1>7. ASSUME NEW s \in Session, Snapshot(s) PROVE TypeOK'
  BY <1>7 DEF Snapshot, interface
<1>8. ASSUME NEW s \in Session, AddAddress(s) PROVE TypeOK'
  <2>1. doing[s] \in Lease
    BY <1>8 DEF AddAddress
  <2>2. PICK before \in CoexistenceRead :
          /\ doing' = [doing EXCEPT ![s].ours = EnabledByUs(before)]
          /\ script' = [script EXCEPT ![s] = Script(AddCommands(before), doing[s].addr)]
          /\ mishaps' = IF before = "unknown" THEN mishaps \union {"unknown"} ELSE mishaps
    BY <1>8 DEF AddAddress
  <2>3. EnabledByUs(before) \in BOOLEAN
    BY DEF EnabledByUs
  <2>4. [doing[s] EXCEPT !.ours = EnabledByUs(before)] \in Lease
    BY <2>1, <2>3 DEF Lease
  <2>5. doing' = [doing EXCEPT ![s] = [doing[s] EXCEPT !.ours = EnabledByUs(before)]]
    BY <2>2
  <2>6. /\ doing' \in [Session -> Lease \union {None}]
        /\ \A t \in Session : pc'[t] # "idle" => doing'[t] \in Lease
    BY <1>8, <2>4, <2>5 DEF AddAddress
  <2>7. script' \in [Session -> ScriptState]
    <3>1. doing[s].addr \in Addr
      BY <2>1 DEF Lease
    <3> QED BY <2>2, <3>1, ScriptTypes
  <2> QED BY <1>8, <2>2, <2>6, <2>7 DEF AddAddress, interface
<1>9. ASSUME NEW s \in Session, AddReturns(s) PROVE TypeOK'
  BY <1>9, ScriptTypes DEF AddReturns, Settled, interface
<1>10. ASSUME NEW s \in Session, AddThrows(s) PROVE TypeOK'
  BY <1>10, ScriptTypes DEF AddThrows, Settled, interface
<1>11. ASSUME NEW s \in Session, RemoveAddress(s) PROVE TypeOK'
  <2>1. PICK c \in todo[s] :
          /\ doing' = [doing EXCEPT ![s] = c]
          /\ todo' = [todo EXCEPT ![s] = @ \ {c}]
          /\ script' = [script EXCEPT ![s] = Script(RemoveCommands(c), c.addr)]
    BY <1>11 DEF RemoveAddress, NextToRemove
  <2>2. c \in Lease
    BY <2>1
  <2>3. Script(RemoveCommands(c), c.addr) \in ScriptState
    BY <2>2, ScriptTypes
  <2> QED BY <1>11, <2>1, <2>2, <2>3 DEF RemoveAddress, interface
<1>12. ASSUME NEW s \in Session, RemoveReturns(s) PROVE TypeOK'
  BY <1>12, ScriptTypes DEF RemoveReturns, Settled, interface
<1>13. ASSUME NEW s \in Session, RemoveThrows(s) PROVE TypeOK'
  BY <1>13, ScriptTypes DEF RemoveThrows, Settled, interface
<1>14. ASSUME NEW s \in Session, Declined(s) PROVE TypeOK'
  <2>1. [Idle EXCEPT !.status = "failed", !.complaint = TRUE] \in ScriptState
    BY DEF Idle, ScriptState, Scripts
  <2> QED BY <1>14, <2>1 DEF Declined, interface
<1>15. ASSUME NEW s \in Session, CommandSucceeds(s) PROVE TypeOK'
  <2>1. Tail(script[s].cmds) \in Scripts
    BY <1>15, ScriptTail DEF CommandSucceeds, Over, ScriptState
  <2>2. script' = [script EXCEPT ![s] = [script[s] EXCEPT !.cmds = Tail(@), !.status = "ok"]]
    BY <1>15 DEF CommandSucceeds
  <2>3. [script[s] EXCEPT !.cmds = Tail(@), !.status = "ok"] \in ScriptState
    <3>1. script[s].cmds # <<>>
      BY <1>15 DEF CommandSucceeds, Over
    <3> QED BY <2>1, <3>1, ScriptUpdate
  <2>4. script' \in [Session -> ScriptState]
    BY <2>2, <2>3
  <2>5. flag' \in {"enabled", "disabled"}
    BY <1>15 DEF CommandSucceeds, Effect
  <2>6. present' \subseteq Addr
    <3>1. script[s].addr \in Addr
      BY <1>15 DEF CommandSucceeds, Over, ScriptState
    <3> QED BY <1>15, <3>1 DEF CommandSucceeds, Effect
  <2> QED BY <1>15, <2>4, <2>5, <2>6 DEF CommandSucceeds, Late
<1>16. ASSUME NEW s \in Session, CommandFails(s) PROVE TypeOK'
  <2>1. Tail(script[s].cmds) \in Scripts
    BY <1>16, ScriptTail DEF CommandFails, Over, ScriptState
  <2>2. PICK complaint \in {script[s].complaint, TRUE} :
          script' = [script EXCEPT ![s].cmds = Tail(@), ![s].status = "failed",
                                   ![s].complaint = complaint]
    BY <1>16 DEF CommandFails
  <2>3. complaint \in BOOLEAN
    BY <2>2 DEF ScriptState
  <2>4. script' = [script EXCEPT ![s] = [script[s] EXCEPT !.cmds = Tail(@), !.status = "failed",
                                                          !.complaint = complaint]]
    BY <2>2
  <2>5. [script[s] EXCEPT !.cmds = Tail(@), !.status = "failed", !.complaint = complaint]
          \in ScriptState
    <3>1. script[s].cmds # <<>>
      BY <1>16 DEF CommandFails, Over
    <3> QED BY <2>1, <2>3, <3>1, ScriptUpdate
  <2>6. script' \in [Session -> ScriptState]
    BY <2>4, <2>5
  <2> QED BY <1>16, <2>6 DEF CommandFails, Late, interface
<1>17. CASE Reboot
  BY <1>17, ScriptTypes DEF Reboot
<1>18. CASE UserSets
  BY <1>18 DEF UserSets
<1>19. CASE UNCHANGED vars
  BY <1>19 DEF vars
<1> QED
  BY <1>1, <1>2, <1>3, <1>4, <1>5, <1>6, <1>7, <1>8, <1>9, <1>10, <1>11, <1>12, <1>13,
     <1>14, <1>15, <1>16, <1>17, <1>18, <1>19
    DEF Next

\* The state of WindowsNetworkConfigService, its caller and the interface keep
\* to their types, and an operation under way has a lease to work on.
THEOREM TypeCorrect == Spec => []TypeOK
BY TypeInit, TypeStep, PTL DEF Spec

-----------------------------------------------------------------------------
(* UserEnabledKept *)

\* The part of IInv that TypeStep does not give.
Claims == OneAtATime /\ LoopRecorded /\ ClaimsJust /\ UserEnabledKept

\* A script switches the flag off only for a lease that claims it.
LEMMA DisableClaimed ==
  /\ \A before : AddCommands(before) \notin SwitchOff
  /\ \A c : RemoveCommands(c) \in SwitchOff => c.ours
  /\ \A c, a : Script(c, a).cmds = c
  /\ Idle.cmds = <<>> /\ <<>> \notin SwitchOff
BY DEF AddCommands, RemoveCommands, Script, Idle, SwitchOff

\* What is left of a script switches the flag off only if the script did.
LEMMA TailClaims ==
  ASSUME NEW cmds \in Scripts, cmds # <<>>,
         Tail(cmds) \in SwitchOff \/ Head(cmds) = "disable"
  PROVE  cmds \in SwitchOff
<1>1. \A op : Tail(<<op>>) = <<>> /\ Head(<<op>>) = op
  OBVIOUS
<1>2. \A op1, op2 : Tail(<<op1, op2>>) = <<op2>> /\ Head(<<op1, op2>>) = op1
  OBVIOUS
<1>3. CASE cmds = <<"add">>
  BY <1>1, <1>3 DEF SwitchOff
<1>4. CASE cmds = <<"delete">>
  BY <1>1, <1>4 DEF SwitchOff
<1>5. CASE cmds = <<"enable", "add">>
  BY <1>2, <1>5 DEF SwitchOff
<1> QED BY <1>3, <1>4, <1>5 DEF Scripts, SwitchOff

\* A script may take the place of another if it has a claim too.
LEMMA ScriptReplaced ==
  ASSUME TypeOK, ScriptsJust, user' = user, NEW s \in Session, NEW sc,
         sc.cmds \in SwitchOff => user = "disabled",
         script' = [script EXCEPT ![s] = sc]
  PROVE  ScriptsJust'
BY DEF TypeOK, ScriptsJust

\* Every step keeps them.
LEMMA ClaimsStep == IInv /\ [Next]_vars => Claims'
<1> SUFFICES ASSUME IInv, [Next]_vars PROVE Claims'
  OBVIOUS
<1>t. TypeOK /\ TypeOK'
  BY TypeStep DEF IInv
<1> USE <1>t DEF IInv, Claims
<1>1. ASSUME NEW s \in Session, Start(s) PROVE Claims'
  <2>1. OneAtATime'
    BY <1>1 DEF Start, interface, OneAtATime, LoopRecorded, Live, TypeOK
  <2>2. LoopRecorded'
    BY <1>1 DEF Start, interface, LoopRecorded, OneAtATime, Live, TypeOK
  <2>3. ClaimsJust'
    <3>1. RecordsJust'
      BY <1>1 DEF Start, interface, ClaimsJust, RecordsJust
    <3>2. DoingJust'
      BY <1>1 DEF Start, interface, ClaimsJust, DoingJust, TypeOK
    <3>3. ScriptsJust'
      BY <1>1 DEF Start, interface, ClaimsJust, ScriptsJust
    <3> QED BY <3>1, <3>2, <3>3 DEF ClaimsJust
  <2>4. UserEnabledKept'
    BY <1>1 DEF Start, interface, UserEnabledKept
  <2> QED BY <2>1, <2>2, <2>3, <2>4
<1>2. ASSUME NEW s \in Session, RecoveryEnds(s) PROVE Claims'
  <2>1. OneAtATime'
    BY <1>2 DEF RecoveryEnds, interface, OneAtATime, LoopRecorded, Live, TypeOK
  <2>2. LoopRecorded'
    BY <1>2 DEF RecoveryEnds, interface, LoopRecorded, OneAtATime, Live, TypeOK
  <2>3. ClaimsJust'
    <3>1. RecordsJust'
      BY <1>2 DEF RecoveryEnds, interface, ClaimsJust, RecordsJust
    <3>2. DoingJust'
      BY <1>2 DEF RecoveryEnds, interface, ClaimsJust, DoingJust, TypeOK
    <3>3. ScriptsJust'
      BY <1>2 DEF RecoveryEnds, interface, ClaimsJust, ScriptsJust
    <3> QED BY <3>1, <3>2, <3>3 DEF ClaimsJust
  <2>4. UserEnabledKept'
    BY <1>2 DEF RecoveryEnds, interface, UserEnabledKept
  <2> QED BY <2>1, <2>2, <2>3, <2>4
<1>3. ASSUME NEW s \in Session, Shutdown(s) PROVE Claims'
  <2>1. OneAtATime'
    BY <1>3 DEF Shutdown, interface, OneAtATime, LoopRecorded, Live, TypeOK
  <2>2. LoopRecorded'
    BY <1>3 DEF Shutdown, interface, LoopRecorded, OneAtATime, Live, TypeOK
  <2>3. ClaimsJust'
    <3>1. RecordsJust'
      BY <1>3 DEF Shutdown, interface, ClaimsJust, RecordsJust
    <3>2. DoingJust'
      BY <1>3 DEF Shutdown, interface, ClaimsJust, DoingJust, TypeOK
    <3>3. ScriptsJust'
      BY <1>3 DEF Shutdown, interface, ClaimsJust, ScriptsJust
    <3> QED BY <3>1, <3>2, <3>3 DEF ClaimsJust
  <2>4. UserEnabledKept'
    BY <1>3 DEF Shutdown, interface, UserEnabledKept
  <2> QED BY <2>1, <2>2, <2>3, <2>4
<1>4. ASSUME NEW s \in Session, Exit(s) PROVE Claims'
  <2>1. OneAtATime'
    BY <1>4 DEF Exit, interface, OneAtATime, LoopRecorded, Live, TypeOK
  <2>2. LoopRecorded'
    BY <1>4 DEF Exit, interface, LoopRecorded, OneAtATime, Live, TypeOK
  <2>3. ClaimsJust'
    <3>1. RecordsJust'
      BY <1>4 DEF Exit, interface, ClaimsJust, RecordsJust
    <3>2. DoingJust'
      BY <1>4 DEF Exit, interface, ClaimsJust, DoingJust, TypeOK
    <3>3. ScriptsJust'
      BY <1>4 DEF Exit, interface, ClaimsJust, ScriptsJust
    <3> QED BY <3>1, <3>2, <3>3 DEF ClaimsJust
  <2>4. UserEnabledKept'
    BY <1>4 DEF Exit, interface, UserEnabledKept
  <2> QED BY <2>1, <2>2, <2>3, <2>4
<1>5. ASSUME NEW s \in Session, Crash(s) PROVE Claims'
  <2>1. OneAtATime'
    BY <1>5 DEF Crash, interface, OneAtATime, LoopRecorded, Live, TypeOK
  <2>2. LoopRecorded'
    BY <1>5 DEF Crash, interface, LoopRecorded, OneAtATime, Live, TypeOK
  <2>3. ClaimsJust'
    <3>1. RecordsJust'
      BY <1>5 DEF Crash, interface, ClaimsJust, RecordsJust
    <3>2. DoingJust'
      BY <1>5 DEF Crash, interface, ClaimsJust, DoingJust, TypeOK
    <3>3. ScriptsJust'
      BY <1>5 DEF Crash, interface, ClaimsJust, ScriptsJust
    <3> QED BY <3>1, <3>2, <3>3 DEF ClaimsJust
  <2>4. UserEnabledKept'
    BY <1>5 DEF Crash, interface, UserEnabledKept
  <2> QED BY <2>1, <2>2, <2>3, <2>4
<1>6. ASSUME NEW s \in Session, NEW a \in Addr, Apply(s, a) PROVE Claims'
  <2>1. OneAtATime'
    BY <1>6 DEF Apply, interface, OneAtATime, LoopRecorded, Live, TypeOK
  <2>2. LoopRecorded'
    BY <1>6 DEF Apply, interface, LoopRecorded, OneAtATime, Live, TypeOK
  <2>3. ClaimsJust'
    <3>1. RecordsJust'
      BY <1>6 DEF Apply, interface, ClaimsJust, RecordsJust
    <3>2. DoingJust'
      BY <1>6 DEF Apply, interface, ClaimsJust, DoingJust, TypeOK
    <3>3. ScriptsJust'
      BY <1>6 DEF Apply, interface, ClaimsJust, ScriptsJust
    <3> QED BY <3>1, <3>2, <3>3 DEF ClaimsJust
  <2>4. UserEnabledKept'
    BY <1>6 DEF Apply, interface, UserEnabledKept
  <2> QED BY <2>1, <2>2, <2>3, <2>4
<1>7. ASSUME NEW s \in Session, Snapshot(s) PROVE Claims'
  <2>1. OneAtATime'
    BY <1>7 DEF Snapshot, interface, OneAtATime, LoopRecorded, Live, TypeOK
  <2>2. LoopRecorded'
    BY <1>7 DEF Snapshot, interface, LoopRecorded, OneAtATime, Live, TypeOK
  <2>3. ClaimsJust'
    <3>1. RecordsJust'
      BY <1>7 DEF Snapshot, interface, ClaimsJust, RecordsJust
    <3>2. DoingJust'
      BY <1>7 DEF Snapshot, interface, ClaimsJust, DoingJust, TypeOK
    <3>3. ScriptsJust'
      BY <1>7 DEF Snapshot, interface, ClaimsJust, ScriptsJust
    <3> QED BY <3>1, <3>2, <3>3 DEF ClaimsJust
  <2>4. UserEnabledKept'
    BY <1>7 DEF Snapshot, interface, UserEnabledKept
  <2> QED BY <2>1, <2>2, <2>3, <2>4
<1>8. ASSUME NEW s \in Session, AddAddress(s) PROVE Claims'
  <2>1. OneAtATime'
    BY <1>8
      DEF AddAddress, interface, OneAtATime, LoopRecorded, Live, TypeOK,
          CoexistenceRead, EnabledByUs
  <2>2. LoopRecorded'
    BY <1>8
      DEF AddAddress, interface, LoopRecorded, OneAtATime, Live, TypeOK,
          CoexistenceRead, EnabledByUs
  <2>3. ClaimsJust'
    <3>1. RecordsJust'
      BY <1>8 DEF AddAddress, interface, ClaimsJust, RecordsJust
    <3>2. DoingJust'
      <4>1. doing[s] \in Lease
        BY <1>8 DEF AddAddress, TypeOK
      <4>2. PICK before \in CoexistenceRead :
              doing' = [doing EXCEPT ![s] = [doing[s] EXCEPT !.ours = EnabledByUs(before)]]
        BY <1>8 DEF AddAddress
      <4>3. EnabledByUs(before) => user = "disabled"
        BY DEF EnabledByUs, CoexistenceRead, UserEnabledKept, TypeOK
      <4>4. [doing[s] EXCEPT !.ours = EnabledByUs(before)].ours => user = "disabled"
        BY <4>1, <4>3 DEF Lease
      <4>5. user' = user
        BY <1>8 DEF AddAddress, interface
      <4> QED BY <4>2, <4>4, <4>5 DEF ClaimsJust, DoingJust, TypeOK
    <3>3. ScriptsJust'
      BY <1>8, DisableClaimed DEF AddAddress, interface, ClaimsJust, ScriptsJust, TypeOK
    <3> QED BY <3>1, <3>2, <3>3 DEF ClaimsJust
  <2>4. UserEnabledKept'
    BY <1>8 DEF AddAddress, interface, UserEnabledKept
  <2> QED BY <2>1, <2>2, <2>3, <2>4
<1>9. ASSUME NEW s \in Session, AddReturns(s) PROVE Claims'
  <2>1. OneAtATime'
    BY <1>9
      DEF AddReturns, interface, OneAtATime, LoopRecorded, Live, TypeOK, Settled,
          Answered
  <2>2. LoopRecorded'
    BY <1>9
      DEF AddReturns, interface, LoopRecorded, OneAtATime, Live, TypeOK, Settled,
          Answered
  <2>3. ClaimsJust'
    <3>1. RecordsJust'
      <4>1. doing[s] # None
        BY <1>9, NoneAssumption DEF AddReturns, TypeOK
      <4>2. journal' = journal \union {doing[s]} /\ user' = user
        BY <1>9 DEF AddReturns, interface
      <4> QED BY <4>1, <4>2 DEF ClaimsJust, RecordsJust, DoingJust
    <3>2. DoingJust'
      BY <1>9 DEF AddReturns, interface, ClaimsJust, DoingJust, TypeOK, Settled
    <3>3. ScriptsJust'
      BY <1>9, ScriptReplaced, DisableClaimed
        DEF AddReturns, Settled, interface, ClaimsJust
    <3> QED BY <3>1, <3>2, <3>3 DEF ClaimsJust
  <2>4. UserEnabledKept'
    BY <1>9 DEF AddReturns, interface, UserEnabledKept, Settled
  <2> QED BY <2>1, <2>2, <2>3, <2>4
<1>10. ASSUME NEW s \in Session, AddThrows(s) PROVE Claims'
  <2>1. OneAtATime'
    BY <1>10
      DEF AddThrows, interface, OneAtATime, LoopRecorded, Live, TypeOK, Settled,
          Answered
  <2>2. LoopRecorded'
    BY <1>10
      DEF AddThrows, interface, LoopRecorded, OneAtATime, Live, TypeOK, Settled,
          Answered
  <2>3. ClaimsJust'
    <3>1. RecordsJust'
      BY <1>10 DEF AddThrows, interface, ClaimsJust, RecordsJust, Settled
    <3>2. DoingJust'
      BY <1>10 DEF AddThrows, interface, ClaimsJust, DoingJust, TypeOK, Settled
    <3>3. ScriptsJust'
      BY <1>10, ScriptReplaced, DisableClaimed
        DEF AddThrows, Settled, interface, ClaimsJust
    <3> QED BY <3>1, <3>2, <3>3 DEF ClaimsJust
  <2>4. UserEnabledKept'
    BY <1>10 DEF AddThrows, interface, UserEnabledKept, Settled
  <2> QED BY <2>1, <2>2, <2>3, <2>4
<1>11. ASSUME NEW s \in Session, RemoveAddress(s) PROVE Claims'
  <2>1. OneAtATime'
    BY <1>11
      DEF RemoveAddress, interface, OneAtATime, LoopRecorded, Live, TypeOK,
          NextToRemove
  <2>2. LoopRecorded'
    BY <1>11
      DEF RemoveAddress, interface, LoopRecorded, OneAtATime, Live, TypeOK,
          NextToRemove
  <2>3. ClaimsJust'
    <3>1. RecordsJust'
      BY <1>11 DEF RemoveAddress, interface, ClaimsJust, RecordsJust
    <3>2. DoingJust'
      BY <1>11
        DEF RemoveAddress, interface, ClaimsJust, DoingJust, TypeOK, RecordsJust,
            LoopRecorded, NextToRemove
    <3>3. ScriptsJust'
      BY <1>11, DisableClaimed
        DEF RemoveAddress, interface, ClaimsJust, ScriptsJust, RecordsJust,
            LoopRecorded, TypeOK, NextToRemove
    <3> QED BY <3>1, <3>2, <3>3 DEF ClaimsJust
  <2>4. UserEnabledKept'
    BY <1>11 DEF RemoveAddress, interface, UserEnabledKept
  <2> QED BY <2>1, <2>2, <2>3, <2>4
<1>12. ASSUME NEW s \in Session, RemoveReturns(s) PROVE Claims'
  <2>1. OneAtATime'
    BY <1>12
      DEF RemoveReturns, interface, OneAtATime, LoopRecorded, Live, TypeOK, Settled,
          Answered
  <2>2. LoopRecorded'
    BY <1>12
      DEF RemoveReturns, interface, LoopRecorded, OneAtATime, Live, TypeOK, Settled,
          Answered
  <2>3. ClaimsJust'
    <3>1. RecordsJust'
      BY <1>12 DEF RemoveReturns, interface, ClaimsJust, RecordsJust, Settled
    <3>2. DoingJust'
      BY <1>12 DEF RemoveReturns, interface, ClaimsJust, DoingJust, TypeOK, Settled
    <3>3. ScriptsJust'
      BY <1>12, ScriptReplaced, DisableClaimed
        DEF RemoveReturns, Settled, interface, ClaimsJust
    <3> QED BY <3>1, <3>2, <3>3 DEF ClaimsJust
  <2>4. UserEnabledKept'
    BY <1>12 DEF RemoveReturns, interface, UserEnabledKept, Settled
  <2> QED BY <2>1, <2>2, <2>3, <2>4
<1>13. ASSUME NEW s \in Session, RemoveThrows(s) PROVE Claims'
  <2>1. OneAtATime'
    BY <1>13
      DEF RemoveThrows, interface, OneAtATime, LoopRecorded, Live, TypeOK, Settled,
          Answered
  <2>2. LoopRecorded'
    BY <1>13
      DEF RemoveThrows, interface, LoopRecorded, OneAtATime, Live, TypeOK, Settled,
          Answered
  <2>3. ClaimsJust'
    <3>1. RecordsJust'
      BY <1>13 DEF RemoveThrows, interface, ClaimsJust, RecordsJust, Settled
    <3>2. DoingJust'
      BY <1>13 DEF RemoveThrows, interface, ClaimsJust, DoingJust, TypeOK, Settled
    <3>3. ScriptsJust'
      BY <1>13, ScriptReplaced, DisableClaimed
        DEF RemoveThrows, Settled, interface, ClaimsJust
    <3> QED BY <3>1, <3>2, <3>3 DEF ClaimsJust
  <2>4. UserEnabledKept'
    BY <1>13 DEF RemoveThrows, interface, UserEnabledKept, Settled
  <2> QED BY <2>1, <2>2, <2>3, <2>4
<1>14. ASSUME NEW s \in Session, Declined(s) PROVE Claims'
  <2>1. OneAtATime'
    BY <1>14 DEF Declined, interface, OneAtATime, LoopRecorded, Live, TypeOK
  <2>2. LoopRecorded'
    BY <1>14 DEF Declined, interface, LoopRecorded, OneAtATime, Live, TypeOK
  <2>3. ClaimsJust'
    <3>1. RecordsJust'
      BY <1>14 DEF Declined, interface, ClaimsJust, RecordsJust
    <3>2. DoingJust'
      BY <1>14 DEF Declined, interface, ClaimsJust, DoingJust, TypeOK
    <3>3. ScriptsJust'
      <4>1. [Idle EXCEPT !.status = "failed", !.complaint = TRUE].cmds = <<>>
        BY DEF Idle
      <4> QED BY <1>14, <4>1, ScriptReplaced, DisableClaimed
        DEF Declined, interface, ClaimsJust
    <3> QED BY <3>1, <3>2, <3>3 DEF ClaimsJust
  <2>4. UserEnabledKept'
    BY <1>14 DEF Declined, interface, UserEnabledKept
  <2> QED BY <2>1, <2>2, <2>3, <2>4
<1>15. ASSUME NEW s \in Session, CommandSucceeds(s) PROVE Claims'
  <2>1. OneAtATime'
    BY <1>15
      DEF CommandSucceeds, interface, OneAtATime, LoopRecorded, Live, TypeOK, Effect,
          Over
  <2>2. LoopRecorded'
    BY <1>15
      DEF CommandSucceeds, interface, LoopRecorded, OneAtATime, Live, TypeOK, Effect,
          Over
  <2>3. ClaimsJust'
    <3>1. RecordsJust'
      BY <1>15 DEF CommandSucceeds, interface, ClaimsJust, RecordsJust
    <3>2. DoingJust'
      BY <1>15 DEF CommandSucceeds, interface, ClaimsJust, DoingJust, TypeOK
    <3>3. ScriptsJust'
      <4>1. Tail(script[s].cmds) \in SwitchOff => user = "disabled"
        BY <1>15, TailClaims
          DEF CommandSucceeds, Over, ClaimsJust, ScriptsJust, TypeOK, ScriptState
      <4> DEFINE left == [script[s] EXCEPT !.cmds = Tail(@), !.status = "ok"]
      <4>2. left.cmds = Tail(script[s].cmds)
        BY DEF TypeOK, ScriptState
      <4>3. script' = [script EXCEPT ![s] = left] /\ user' = user
        BY <1>15 DEF CommandSucceeds
      <4> HIDE DEF left
      <4> QED BY <4>1, <4>2, <4>3, ScriptReplaced DEF ClaimsJust
    <3> QED BY <3>1, <3>2, <3>3 DEF ClaimsJust
  <2>4. UserEnabledKept'
    BY <1>15, TailClaims
      DEF CommandSucceeds, UserEnabledKept, ClaimsJust, ScriptsJust, TypeOK,
          ScriptState, Effect, Over, SwitchOff
  <2> QED BY <2>1, <2>2, <2>3, <2>4
<1>16. ASSUME NEW s \in Session, CommandFails(s) PROVE Claims'
  <2>1. OneAtATime'
    BY <1>16 DEF CommandFails, interface, OneAtATime, LoopRecorded, Live, TypeOK, Over
  <2>2. LoopRecorded'
    BY <1>16 DEF CommandFails, interface, LoopRecorded, OneAtATime, Live, TypeOK, Over
  <2>3. ClaimsJust'
    <3>1. RecordsJust'
      BY <1>16 DEF CommandFails, interface, ClaimsJust, RecordsJust
    <3>2. DoingJust'
      BY <1>16 DEF CommandFails, interface, ClaimsJust, DoingJust, TypeOK
    <3>3. ScriptsJust'
      <4>1. Tail(script[s].cmds) \in SwitchOff => user = "disabled"
        BY <1>16, TailClaims
          DEF CommandFails, Over, ClaimsJust, ScriptsJust, TypeOK, ScriptState
      <4>2. PICK complaint :
              script' = [script EXCEPT ![s] = [script[s] EXCEPT !.cmds = Tail(@),
                                                 !.status = "failed", !.complaint = complaint]]
        BY <1>16 DEF CommandFails
      <4> DEFINE left == [script[s] EXCEPT !.cmds = Tail(@), !.status = "failed",
                                           !.complaint = complaint]
      <4>3. left.cmds = Tail(script[s].cmds)
        BY DEF TypeOK, ScriptState
      <4>4. script' = [script EXCEPT ![s] = left] /\ user' = user
        BY <1>16, <4>2 DEF CommandFails, interface
      <4> HIDE DEF left
      <4> QED BY <4>1, <4>3, <4>4, ScriptReplaced DEF ClaimsJust
    <3> QED BY <3>1, <3>2, <3>3 DEF ClaimsJust
  <2>4. UserEnabledKept'
    BY <1>16 DEF CommandFails, interface, UserEnabledKept
  <2> QED BY <2>1, <2>2, <2>3, <2>4
<1>17. ASSUME Reboot PROVE Claims'
  <2>1. OneAtATime' /\ LoopRecorded'
    BY <1>17 DEF Reboot, OneAtATime, LoopRecorded, Live, TypeOK
  <2>2. RecordsJust' /\ DoingJust'
    BY <1>17 DEF Reboot, ClaimsJust, RecordsJust, DoingJust
  <2>3. ScriptsJust'
    BY <1>17, DisableClaimed DEF Reboot, ScriptsJust
  <2>4. UserEnabledKept'
    BY <1>17 DEF Reboot, UserEnabledKept
  <2> QED BY <2>1, <2>2, <2>3, <2>4 DEF ClaimsJust
<1>18. ASSUME UserSets PROVE Claims'
  <2>1. OneAtATime' /\ LoopRecorded'
    BY <1>18 DEF UserSets, OneAtATime, LoopRecorded, Live, TypeOK
  <2>2. RecordsJust' /\ DoingJust'
    BY <1>18 DEF UserSets, RecordsJust, DoingJust, LoopRecorded
  <2>3. ScriptsJust'
    BY <1>18, DisableClaimed DEF UserSets, ScriptsJust, Over
  <2>4. UserEnabledKept'
    BY <1>18 DEF UserSets, UserEnabledKept
  <2> QED BY <2>1, <2>2, <2>3, <2>4 DEF ClaimsJust
<1>19. CASE UNCHANGED vars
  BY <1>19
    DEF vars, OneAtATime, LoopRecorded, ClaimsJust, RecordsJust, DoingJust,
        ScriptsJust, UserEnabledKept, Live
<1> QED
  BY <1>1, <1>2, <1>3, <1>4, <1>5, <1>6, <1>7, <1>8, <1>9, <1>10, <1>11, <1>12, <1>13,
     <1>14, <1>15, <1>16, <1>17, <1>18, <1>19
    DEF Next

\* The invariant holds throughout.
LEMMA IInvAlways == Spec => []IInv
<1>1. Init => IInv
  <2> SUFFICES ASSUME Init PROVE IInv
    OBVIOUS
  <2>1. TypeOK
    BY TypeInit
  <2>2. Claims
    BY DisableClaimed
      DEF Init, Claims, OneAtATime, LoopRecorded, ClaimsJust, RecordsJust, DoingJust,
          ScriptsJust, UserEnabledKept, Live
  <2> QED BY <2>1, <2>2 DEF IInv, Claims
<1>2. IInv /\ [Next]_vars => IInv'
  BY TypeStep, ClaimsStep DEF IInv, Claims
<1> QED BY <1>1, <1>2, PTL DEF Spec

\* A flag that the user has enabled is never off, whatever commands fail,
\* whoever crashes between which steps, and whichever session restores.
THEOREM UserEnabledAlwaysKept == Spec => []UserEnabledKept
<1>1. IInv => UserEnabledKept
  BY DEF IInv
<1> QED BY <1>1, IInvAlways, PTL

-----------------------------------------------------------------------------
(* LeftoversOnRecord *)

\* What a script that adds, or removes c, has left to run.
Adds == {<<"enable", "add">>, <<"add">>}
Removes(c) == IF c.ours THEN {<<"delete", "disable">>, <<"disable">>} ELSE {<<"delete">>}

\* A script runs for the operation that waits for it, and tells it in what order.
ScriptOfAdd(s) ==
  /\ script[s].cmds \in Adds => pc[s] = "adding"
  /\ pc[s] = "adding" /\ script[s].cmds # <<>> =>
       /\ script[s].cmds \in Adds
       /\ script[s].addr = doing[s].addr
       /\ script[s].cmds = <<"enable", "add">> /\ "unknown" \notin mishaps => doing[s].ours
ScriptOfRemove(s) ==
  pc[s] = "removing" =>
    /\ script[s].cmds # <<>> =>
         script[s].cmds \in Removes(doing[s]) /\ script[s].addr = doing[s].addr
    /\ script[s].status = "ok" =>
         /\ doing[s].addr \notin present
         /\ doing[s].ours /\ script[s].cmds = <<>> => flag = "disabled"
ScriptStatus(s) ==
  /\ script[s].status = "none" => script[s].cmds # <<"disable">>
  /\ script[s].status = "failed" => script[s].cmds = <<>>
  /\ script[s].complaint => script[s].status = "failed"
ScriptOK(s) == ScriptOfAdd(s) /\ ScriptOfRemove(s) /\ ScriptStatus(s)

\* An add under way that has done something, and nothing but what it should.
Adding(s) == pc[s] = "adding" /\ script[s].status = "ok"

Held(a) == (\E c \in journal : c.addr = a) \/ \E s \in Session : Adding(s) /\ doing[s].addr = a
FlagHeld == (\E c \in journal : c.ours) \/ \E s \in Session : Adding(s) /\ doing[s].ours
HeldOff == flag = "enabled" /\ user = "disabled" /\ "unknown" \notin mishaps => FlagHeld

OnRecord ==
  /\ \A s \in Session : ScriptOK(s)
  /\ \A a \in present : Held(a)
  /\ HeldOff

Unfailed == mishaps \intersect {"failed", "lost"} = {}

\* What a script has run is its first command.
LEMMA ScriptParts ==
  /\ Head(<<"enable", "add">>) = "enable" /\ Tail(<<"enable", "add">>) = <<"add">>
  /\ Head(<<"add">>) = "add" /\ Tail(<<"add">>) = <<>>
  /\ Head(<<"delete", "disable">>) = "delete" /\ Tail(<<"delete", "disable">>) = <<"disable">>
  /\ Head(<<"delete">>) = "delete" /\ Tail(<<"delete">>) = <<>>
  /\ Head(<<"disable">>) = "disable" /\ Tail(<<"disable">>) = <<>>
<1>1. \A op : Tail(<<op>>) = <<>> /\ Head(<<op>>) = op
  OBVIOUS
<1>2. \A op1, op2 : Tail(<<op1, op2>>) = <<op2>> /\ Head(<<op1, op2>>) = op1
  OBVIOUS
<1>. QED BY <1>1, <1>2

LEMMA ScriptsDiffer ==
  /\ <<"enable", "add">> \notin
       {<<>>, <<"add">>, <<"delete">>, <<"disable">>, <<"delete", "disable">>}
  /\ <<"delete", "disable">> \notin {<<>>, <<"add">>, <<"delete">>, <<"disable">>}
  /\ <<"add">> \notin {<<>>, <<"delete">>, <<"disable">>}
  /\ <<"delete">> \notin {<<>>, <<"disable">>}
  /\ <<"disable">> # <<>>
<1>1. \A op : Len(<<op>>) = 1 /\ <<op>>[1] = op
  OBVIOUS
<1>2. \A op1, op2 : Len(<<op1, op2>>) = 2 /\ <<op1, op2>>[1] = op1
  OBVIOUS
<1>3. Len(<<>>) = 0
  OBVIOUS
<1>. QED BY <1>1, <1>2, <1>3

\* The script that has run a command.
Ran(s) ==
  /\ script'[s].cmds = Tail(script[s].cmds) /\ script'[s].addr = script[s].addr
  /\ script'[s].status = "ok" /\ script'[s].complaint = script[s].complaint
  /\ \A t \in Session : t # s => script'[t] = script[t]

LEMMA ScriptRan ==
  ASSUME TypeOK, NEW s \in Session, CommandSucceeds(s)
  PROVE  Ran(s)
<1>1. script' = [script EXCEPT ![s] = [script[s] EXCEPT !.cmds = Tail(@), !.status = "ok"]]
  BY DEF CommandSucceeds
<1>2. script[s] \in ScriptState
  BY DEF TypeOK
<1>. QED BY <1>1, <1>2 DEF Ran, TypeOK, ScriptState

\* A step that leaves the interface, the records and the scripts alone, and no
\* operation but one that has no script.
OffScript ==
  /\ UNCHANGED <<flag, user, present, journal, script>>
  /\ \A t \in Session :
       \/ pc'[t] = pc[t] /\ doing'[t] = doing[t]
       \/ pc[t] # "adding" /\ pc'[t] \notin {"adding", "removing"}

LEMMA OffScriptSteps ==
  ASSUME TypeOK, Unfailed', NEW s \in Session,
         \/ Start(s) \/ RecoveryEnds(s) \/ Shutdown(s) \/ Exit(s) \/ Crash(s)
         \/ (\E a \in Addr : Apply(s, a)) \/ Snapshot(s)
  PROVE  OffScript
<1>1. CASE Start(s) \/ RecoveryEnds(s) \/ Shutdown(s) \/ Exit(s)
  BY <1>1 DEF Start, RecoveryEnds, Shutdown, Exit, interface, OffScript
<1>2. CASE Crash(s)
  <2>1. pc[s] # "adding"
    BY <1>2 DEF Crash, Unfailed
  <2>. QED BY <1>2, <2>1 DEF Crash, interface, OffScript, TypeOK
<1>3. ASSUME NEW a \in Addr, Apply(s, a) PROVE OffScript
  BY <1>3 DEF Apply, interface, OffScript, TypeOK
<1>4. CASE Snapshot(s)
  BY <1>4 DEF Snapshot, interface, OffScript, TypeOK
<1>. QED BY <1>1, <1>2, <1>3, <1>4

LEMMA RecordOffScript ==
  ASSUME TypeOK, OnRecord, OffScript, mishaps \subseteq mishaps'
  PROVE  OnRecord'
<1>1. ASSUME NEW t \in Session PROVE ScriptOK(t)'
  <2>1. ScriptOK(t)
    BY DEF OnRecord
  <2>2. CASE pc'[t] = pc[t] /\ doing'[t] = doing[t]
    BY <2>1, <2>2 DEF OffScript, ScriptOK, ScriptOfAdd, ScriptOfRemove, ScriptStatus, Removes
  <2>3. CASE pc[t] # "adding" /\ pc'[t] \notin {"adding", "removing"}
    BY <2>1, <2>3 DEF OffScript, ScriptOK, ScriptOfAdd, ScriptOfRemove, ScriptStatus
  <2>. QED BY <2>2, <2>3 DEF OffScript
<1>2. \A t \in Session : Adding(t) => Adding(t)' /\ doing'[t] = doing[t]
  BY DEF Adding, OffScript
<1>3. \A a \in present' : Held(a)'
  BY <1>2 DEF OffScript, OnRecord, Held
<1>4. HeldOff'
  BY <1>2 DEF OffScript, OnRecord, HeldOff, FlagHeld
<1>. QED BY <1>1, <1>3, <1>4 DEF OnRecord

\* An operation begins with its script.
LEMMA RecordBegins ==
  ASSUME TypeOK, OnRecord, NEW s \in Session, AddAddress(s) \/ RemoveAddress(s)
  PROVE  OnRecord'
<1>1. UNCHANGED interface /\ UNCHANGED journal /\ pc[s] \notin {"adding", "removing"}
  BY DEF AddAddress, RemoveAddress
<1>2. \A t \in Session : t # s => pc'[t] = pc[t] /\ doing'[t] = doing[t] /\ script'[t] = script[t]
  BY DEF AddAddress, RemoveAddress, TypeOK
<1>3. mishaps \subseteq mishaps'
  BY DEF AddAddress, RemoveAddress
<1>4. \A t \in Session : t # s => ScriptOK(t)'
  BY <1>1, <1>2, <1>3
     DEF interface, OnRecord, ScriptOK, ScriptOfAdd, ScriptOfRemove, ScriptStatus, Removes
<1>5. ScriptOK(s)'
  <2>1. CASE AddAddress(s)
    <3>1. PICK before \in CoexistenceRead :
            /\ doing' = [doing EXCEPT ![s].ours = EnabledByUs(before)]
            /\ script' = [script EXCEPT ![s] = Script(AddCommands(before), doing[s].addr)]
            /\ mishaps' = IF before = "unknown" THEN mishaps \union {"unknown"} ELSE mishaps
      BY <2>1 DEF AddAddress
    <3>2. /\ script'[s].cmds = AddCommands(before) /\ script'[s].addr = doing[s].addr
          /\ script'[s].status = "none" /\ script'[s].complaint = FALSE
      BY <3>1 DEF Script, Idle, TypeOK
    <3>3. doing[s] \in Lease
      BY <2>1 DEF AddAddress, TypeOK
    <3>4. doing'[s].ours = EnabledByUs(before) /\ doing'[s].addr = doing[s].addr
      BY <3>1, <3>3 DEF TypeOK, Lease
    <3>5. pc'[s] = "adding"
      BY <2>1 DEF AddAddress, TypeOK
    <3>6. AddCommands(before) \in Adds
      BY DEF AddCommands, Adds
    <3>7. AddCommands(before) = <<"enable", "add">> /\ "unknown" \notin mishaps'
          => EnabledByUs(before)
      <4>1. AddCommands(before) = <<"enable", "add">> => before # "enabled"
        BY ScriptsDiffer DEF AddCommands
      <4>. QED BY <3>1, <4>1 DEF CoexistenceRead, EnabledByUs, TypeOK
    <3>8. AddCommands(before) # <<"disable">>
      BY ScriptsDiffer DEF AddCommands
    <3>. QED BY <3>2, <3>4, <3>5, <3>6, <3>7, <3>8
         DEF ScriptOK, ScriptOfAdd, ScriptOfRemove, ScriptStatus
  <2>2. CASE RemoveAddress(s)
    <3>1. PICK c \in todo[s] :
            /\ doing' = [doing EXCEPT ![s] = c]
            /\ script' = [script EXCEPT ![s] = Script(RemoveCommands(c), c.addr)]
      BY <2>2 DEF RemoveAddress, NextToRemove
    <3>2. /\ script'[s].cmds = RemoveCommands(c) /\ script'[s].addr = c.addr
          /\ script'[s].status = "none" /\ script'[s].complaint = FALSE
      BY <3>1 DEF Script, Idle, TypeOK
    <3>3. doing'[s] = c /\ pc'[s] = "removing"
      BY <2>2, <3>1 DEF RemoveAddress, TypeOK
    <3>4. RemoveCommands(c) \in Removes(c)
      BY DEF RemoveCommands, Removes
    <3>5. RemoveCommands(c) \notin Adds \union {<<"disable">>}
      BY ScriptsDiffer DEF RemoveCommands, Adds
    <3>. QED BY <3>2, <3>3, <3>4, <3>5
         DEF ScriptOK, ScriptOfAdd, ScriptOfRemove, ScriptStatus, Removes
  <2>. QED BY <2>1, <2>2
<1>6. \A t \in Session : Adding(t) => Adding(t)' /\ doing'[t] = doing[t]
  BY <1>1, <1>2 DEF Adding
<1>7. \A a \in present' : Held(a)'
  BY <1>1, <1>6 DEF interface, OnRecord, Held
<1>8. HeldOff'
  BY <1>1, <1>3, <1>6 DEF interface, OnRecord, HeldOff, FlagHeld
<1>. QED BY <1>4, <1>5, <1>7, <1>8 DEF OnRecord

\* An operation is over; what it was for is on record or was not done.
LEMMA RecordSettles ==
  ASSUME TypeOK, TypeOK', OnRecord, NEW s \in Session,
         AddReturns(s) \/ AddThrows(s) \/ RemoveReturns(s) \/ RemoveThrows(s)
  PROVE  OnRecord'
<1>1. UNCHANGED <<interface, mishaps>> /\ Settled(s) /\ Over(s)
  BY DEF AddReturns, AddThrows, RemoveReturns, RemoveThrows, Answered
<1>2. \A t \in Session : t # s => pc'[t] = pc[t] /\ doing'[t] = doing[t] /\ script'[t] = script[t]
  BY <1>1 DEF Settled, TypeOK
<1>3. pc'[s] = "idle" /\ script'[s] = Idle
  BY <1>1 DEF Settled, TypeOK
<1>4. \A t \in Session : t # s => ScriptOK(t)'
  BY <1>1, <1>2
     DEF interface, OnRecord, ScriptOK, ScriptOfAdd, ScriptOfRemove, ScriptStatus, Removes
<1>5. ScriptOK(s)'
  <2>1. Idle.cmds = <<>> /\ Idle.status = "none" /\ Idle.complaint = FALSE
    BY DEF Idle
  <2>2. <<>> \notin Adds \union {<<"disable">>}
    BY ScriptsDiffer DEF Adds
  <2>. QED BY <1>3, <2>1, <2>2 DEF ScriptOK, ScriptOfAdd, ScriptOfRemove, ScriptStatus
<1>6. \A t \in Session : t # s /\ Adding(t) => Adding(t)' /\ doing'[t] = doing[t]
  BY <1>2 DEF Adding
<1>7. CASE AddReturns(s)
  <2>1. journal' = journal \union {doing[s]}
    BY <1>7 DEF AddReturns
  <2>2. \A a \in present' : Held(a)'
    BY <1>1, <1>6, <2>1 DEF interface, OnRecord, Held
  <2>3. HeldOff'
    BY <1>1, <1>6, <2>1 DEF interface, OnRecord, HeldOff, FlagHeld
  <2>. QED BY <1>4, <1>5, <2>2, <2>3 DEF OnRecord
<1>8. CASE AddThrows(s) \/ RemoveThrows(s)
  <2>1. ~Adding(s) /\ UNCHANGED journal
    BY <1>8 DEF AddThrows, RemoveThrows, Failed, OnRecord, ScriptOK, ScriptStatus, Adding
  <2>2. \A a \in present' : Held(a)'
    BY <1>1, <1>6, <2>1 DEF interface, OnRecord, Held
  <2>3. HeldOff'
    BY <1>1, <1>6, <2>1 DEF interface, OnRecord, HeldOff, FlagHeld
  <2>. QED BY <1>4, <1>5, <2>2, <2>3 DEF OnRecord
<1>9. CASE RemoveReturns(s)
  <2>1. /\ pc[s] = "removing" /\ journal' = journal \ {doing[s]} /\ ~Adding(s)
        /\ script[s].status # "none" /\ script[s].status # "failed"
    BY <1>9 DEF RemoveReturns, Adding, Answered, Failed
  <2>2. script[s].status = "ok"
    BY <2>1 DEF TypeOK, ScriptState
  <2>3. ScriptOfRemove(s)
    BY DEF OnRecord, ScriptOK
  <2>4. doing[s].addr \notin present /\ (doing[s].ours => flag = "disabled")
    BY <1>1, <2>1, <2>2, <2>3 DEF Over, ScriptOfRemove
  <2>5. \A a \in present' : Held(a)'
    BY <1>1, <1>6, <2>1, <2>4 DEF interface, OnRecord, Held
  <2>6. HeldOff'
    BY <1>1, <1>6, <2>1, <2>4 DEF interface, OnRecord, HeldOff, FlagHeld
  <2>. QED BY <1>4, <1>5, <2>5, <2>6 DEF OnRecord
<1>. QED BY <1>7, <1>8, <1>9

\* A command of a script has run.
LEMMA RecordRuns ==
  ASSUME TypeOK, OneAtATime, OnRecord, Unfailed, NEW s \in Session, CommandSucceeds(s)
  PROVE  OnRecord'
<1>. DEFINE cmds == script[s].cmds
            a == script[s].addr
<1>1. UNCHANGED <<user, journal, pc, doing>> /\ mishaps \subseteq mishaps'
      /\ ("unknown" \in mishaps' => "unknown" \in mishaps)
  BY DEF CommandSucceeds, Late
<1>2. Ran(s)
  BY ScriptRan
<1>3. /\ cmds \in Scripts /\ cmds # <<>> /\ ScriptOK(s)
      /\ CanSucceed(Head(cmds), a) /\ Effect(Head(cmds), a)
  BY DEF CommandSucceeds, Over, OnRecord, TypeOK, ScriptState
<1>4. script[s].status # "failed" /\ ~script[s].complaint
  BY <1>3 DEF ScriptOK, ScriptStatus
<1>5. ScriptStatus(s)'
  BY <1>2, <1>4 DEF Ran, ScriptStatus
<1>6. \A t \in Session : Adding(t) => Adding(t)'
  BY <1>1, <1>2 DEF Adding, Ran
<1>7. \A t \in Session : t # s /\ pc[t] \in {"adding", "removing"} => pc[s] = "idle"
  BY DEF OneAtATime
<1>8. \A t \in Session : t # s => ScriptOfAdd(t)' /\ ScriptStatus(t)'
  BY <1>1, <1>2 DEF OnRecord, ScriptOK, ScriptOfAdd, ScriptStatus, Ran
<1>9. CASE cmds \in Adds
  <2>1. pc[s] = "adding" /\ a = doing[s].addr /\ Adding(s)'
    BY <1>1, <1>2, <1>3, <1>9 DEF ScriptOK, ScriptOfAdd, Adding, Ran
  <2>2. ScriptOK(s)'
    <3>1. Tail(cmds) \in {<<"add">>, <<>>}
      BY <1>9, ScriptParts DEF Adds
    <3>2. Tail(cmds) # <<>> => Tail(cmds) \in Adds
      BY <3>1 DEF Adds
    <3>3. Tail(cmds) # <<"enable", "add">>
      BY <3>1, ScriptsDiffer
    <3>. QED BY <1>1, <1>2, <1>5, <2>1, <3>2, <3>3 DEF ScriptOK, ScriptOfAdd, ScriptOfRemove, Ran
  <2>3. \A t \in Session : t # s => ScriptOfRemove(t)'
    BY <1>1, <1>7, <2>1 DEF ScriptOfRemove
  <2>4. CASE cmds = <<"enable", "add">>
    <3>1. present' = present /\ flag' = "enabled"
      BY <1>3, <2>4, ScriptParts DEF Effect
    <3>2. \A b \in present' : Held(b)'
      BY <1>1, <1>6, <3>1 DEF OnRecord, Held
    <3>3. HeldOff'
      <4>1. "unknown" \notin mishaps' => doing'[s].ours
        BY <1>1, <1>3, <2>1, <2>4 DEF ScriptOK, ScriptOfAdd
      <4>. QED BY <2>1, <4>1 DEF HeldOff, FlagHeld
    <3>. QED BY <1>8, <2>2, <2>3, <3>2, <3>3 DEF OnRecord, ScriptOK
  <2>5. CASE cmds = <<"add">>
    <3>1. present' = present \union {a} /\ flag' = flag
      BY <1>3, <2>5, ScriptParts DEF Effect
    <3>2. \A b \in present' : Held(b)'
      BY <1>1, <1>6, <2>1, <3>1 DEF OnRecord, Held
    <3>3. HeldOff'
      BY <1>1, <1>6, <3>1 DEF OnRecord, HeldOff, FlagHeld
    <3>. QED BY <1>8, <2>2, <2>3, <3>2, <3>3 DEF OnRecord, ScriptOK
  <2>. QED BY <1>9, <2>4, <2>5 DEF Adds
<1>10. CASE cmds \notin Adds
  <2>1. cmds \in {<<"delete">>, <<"disable">>, <<"delete", "disable">>}
    BY <1>3, <1>10 DEF Scripts, Adds
  <2>2. /\ Head(cmds) \in {"delete", "disable"}
        /\ Tail(cmds) \in {<<>>, <<"disable">>}
        /\ Head(cmds) = "disable" => cmds = <<"disable">>
        /\ Tail(cmds) = <<"disable">> => cmds = <<"delete", "disable">>
        /\ Tail(cmds) = <<>> => cmds # <<"delete", "disable">>
    BY <2>1, ScriptParts, ScriptsDiffer
  <2>3. /\ present' \subseteq present /\ (flag' = flag \/ flag' = "disabled")
        /\ Head(cmds) = "delete" => a \notin present'
        /\ Head(cmds) = "disable" => flag' = "disabled"
    BY <1>3, <2>2 DEF Effect
  <2>4. Tail(cmds) \notin Adds
    BY <2>2, ScriptsDiffer DEF Adds
  <2>5. pc[s] # "adding"
    BY <1>3, <1>10 DEF ScriptOK, ScriptOfAdd
  <2>6. ScriptOfRemove(s)'
    <3>. SUFFICES ASSUME pc[s] = "removing" PROVE ScriptOfRemove(s)'
      BY <1>1 DEF ScriptOfRemove
    <3>1. cmds \in Removes(doing[s]) /\ a = doing[s].addr
      BY <1>3 DEF ScriptOK, ScriptOfRemove
    <3>2. Tail(cmds) # <<>> => Tail(cmds) \in Removes(doing[s])
      BY <2>2, <3>1, ScriptsDiffer DEF Removes
    <3>3. doing[s].addr \notin present'
      <4>1. CASE Head(cmds) = "delete"
        BY <2>3, <3>1, <4>1
      <4>2. CASE Head(cmds) = "disable"
        <5>1. cmds = <<"disable">> /\ script[s].status # "none"
          BY <1>3, <2>2, <4>2 DEF ScriptOK, ScriptStatus
        <5>2. script[s].status = "ok"
          BY <1>4, <5>1 DEF TypeOK, ScriptState
        <5>. QED BY <1>3, <2>3, <5>2 DEF ScriptOK, ScriptOfRemove
      <4>. QED BY <2>2, <4>1, <4>2
    <3>4. doing[s].ours /\ Tail(cmds) = <<>> => flag' = "disabled"
      <4>1. doing[s].ours /\ Tail(cmds) = <<>> => cmds = <<"disable">>
        BY <2>2, <3>1 DEF Removes
      <4>. QED BY <2>3, <4>1, ScriptParts
    <3>. QED BY <1>1, <1>2, <3>1, <3>2, <3>3, <3>4 DEF ScriptOfRemove, Ran, Removes
  <2>7. ScriptOfAdd(s)'
    BY <1>1, <1>2, <2>4, <2>5 DEF ScriptOfAdd, Ran
  <2>8. \A t \in Session : t # s => ScriptOfRemove(t)'
    BY <1>1, <1>2, <2>3 DEF OnRecord, ScriptOK, ScriptOfRemove, Ran, Removes
  <2>9. \A b \in present' : Held(b)'
    BY <1>1, <1>6, <2>3 DEF OnRecord, Held
  <2>10. HeldOff'
    BY <1>1, <1>6, <2>3 DEF OnRecord, HeldOff, FlagHeld
  <2>. QED BY <1>5, <1>8, <2>6, <2>7, <2>8, <2>9, <2>10 DEF OnRecord, ScriptOK
<1>. QED BY <1>9, <1>10

\* A script is declined before it has done anything.
LEMMA RecordDeclined ==
  ASSUME TypeOK, OnRecord, NEW s \in Session, Declined(s)
  PROVE  OnRecord'
<1>1. UNCHANGED <<flag, user, present, journal, pc, doing>> /\ mishaps \subseteq mishaps'
      /\ script[s].status = "none" /\ ("unknown" \in mishaps' => "unknown" \in mishaps)
  BY DEF Declined, interface
<1>2. /\ script'[s].cmds = <<>> /\ script'[s].status = "failed"
      /\ \A t \in Session : t # s => script'[t] = script[t]
  BY DEF Declined, Idle, TypeOK
<1>3. <<>> \notin Adds \union {<<"disable">>}
  BY ScriptsDiffer DEF Adds
<1>4. ScriptOK(s)'
  BY <1>1, <1>2, <1>3 DEF ScriptOK, ScriptOfAdd, ScriptOfRemove, ScriptStatus
<1>5. \A t \in Session : t # s => ScriptOK(t)'
  BY <1>1, <1>2 DEF OnRecord, ScriptOK, ScriptOfAdd, ScriptOfRemove, ScriptStatus, Removes
<1>6. \A t \in Session : Adding(t) => Adding(t)'
  BY <1>1, <1>2 DEF Adding
<1>7. \A a \in present' : Held(a)'
  BY <1>1, <1>6 DEF OnRecord, Held
<1>8. HeldOff'
  BY <1>1, <1>6 DEF OnRecord, HeldOff, FlagHeld
<1>. QED BY <1>4, <1>5, <1>7, <1>8 DEF OnRecord

LEMMA RecordRests ==
  ASSUME TypeOK, OneAtATime, OnRecord, Unfailed', Reboot \/ UserSets
  PROVE  OnRecord'
<1>0. <<>> \notin Adds \union {<<"disable">>} /\ Idle.cmds = <<>> /\ Idle.status = "none"
      /\ Idle.complaint = FALSE
  BY ScriptsDiffer DEF Adds, Idle
<1>1. CASE Reboot
  <2>1. \A s \in Session : pc'[s] = "idle" /\ script'[s] = Idle
    BY <1>1 DEF Reboot
  <2>2. \A s \in Session : ScriptOK(s)'
    BY <1>0, <2>1 DEF ScriptOK, ScriptOfAdd, ScriptOfRemove, ScriptStatus
  <2>3. present' = {} /\ UNCHANGED <<flag, user, journal>> /\ mishaps \subseteq mishaps'
    BY <1>1 DEF Reboot
  <2>4. \A s \in Session : ~Adding(s)
    BY <1>1 DEF Reboot, Unfailed, Adding, OneAtATime
  <2>. QED BY <2>2, <2>3, <2>4 DEF OnRecord, HeldOff, FlagHeld
<1>2. CASE UserSets
  <2>1. UNCHANGED <<present, journal, pc, doing, script, mishaps>> /\ flag' = user'
    BY <1>2 DEF UserSets
  <2>2. \A s \in Session : pc[s] = "idle"
    BY <1>2 DEF UserSets
  <2>3. \A s \in Session : ScriptOK(s)'
    BY <2>1, <2>2 DEF OnRecord, ScriptOK, ScriptOfAdd, ScriptOfRemove, ScriptStatus
  <2>4. \A a \in present' : Held(a)'
    BY <2>1 DEF OnRecord, Held, Adding
  <2>. QED BY <2>1, <2>3, <2>4 DEF OnRecord, HeldOff
<1>. QED BY <1>1, <1>2

LEMMA RecordStep ==
  ASSUME TypeOK, TypeOK', OneAtATime, Unfailed => OnRecord, [Next]_vars, Unfailed'
  PROVE  OnRecord'
<1>1. mishaps \subseteq mishaps'
  BY DEF Next, vars, Start, RecoveryEnds, Shutdown, Exit, Crash, Apply, Snapshot, AddAddress,
         AddReturns, AddThrows, RemoveAddress, RemoveReturns, RemoveThrows, Declined,
         CommandSucceeds, CommandFails, Reboot, UserSets
<1>2. Unfailed /\ OnRecord
  BY <1>1 DEF Unfailed
<1>3. ASSUME NEW s \in Session,
             \/ Start(s) \/ RecoveryEnds(s) \/ Shutdown(s) \/ Exit(s) \/ Crash(s)
             \/ (\E a \in Addr : Apply(s, a)) \/ Snapshot(s)
      PROVE  OnRecord'
  BY <1>1, <1>2, <1>3, OffScriptSteps, RecordOffScript
<1>4. ASSUME NEW s \in Session, CommandFails(s) PROVE FALSE
  BY <1>4 DEF CommandFails, Unfailed
<1>5. CASE UNCHANGED vars
  <2>1. OffScript
    BY <1>5 DEF vars, OffScript
  <2>. QED BY <1>1, <1>2, <2>1, RecordOffScript
<1>. QED BY <1>2, <1>3, <1>4, <1>5, RecordBegins, RecordSettles, RecordRuns, RecordDeclined,
            RecordRests
     DEF Next

\* What a removal will have to undo is on record, or is being added, whatever
\* is declined, whichever process dies outside an add, in any order of leases,
\* restores and reboots.
THEOREM LeftoversAlwaysOnRecord == Spec => []LeftoversOnRecord
<1>1. Init => (Unfailed => OnRecord)
  <2>. SUFFICES ASSUME Init PROVE OnRecord
    OBVIOUS
  <2>1. <<>> \notin Adds \union {<<"disable">>} /\ Idle.cmds = <<>> /\ Idle.status = "none"
        /\ Idle.complaint = FALSE
    BY ScriptsDiffer DEF Adds, Idle
  <2>2. \A s \in Session : ScriptOK(s)
    BY <2>1 DEF Init, ScriptOK, ScriptOfAdd, ScriptOfRemove, ScriptStatus
  <2>. QED BY <2>2 DEF Init, OnRecord, HeldOff
<1>2. TypeOK /\ OneAtATime /\ (Unfailed => OnRecord) /\ [Next]_vars /\ TypeOK'
      => (Unfailed => OnRecord)'
  BY RecordStep
<1>3. (Unfailed => OnRecord) => LeftoversOnRecord
  BY DEF Unfailed, OnRecord, HeldOff, FlagHeld, Held, Adding, LeftoversOnRecord
<1>. QED BY <1>1, <1>2, <1>3, IInvAlways, PTL DEF Spec, IInv

-----------------------------------------------------------------------------
(* LeasedWithFlag *)

\* From Apply to the record: the lease is the newest of its session.
Applying(s) ==
  /\ stage[s] = "open"
  /\ doing[s].id < nextId
  /\ \A c \in journal : c.id < doing[s].id

\* The flag is on before the address is, and is claimed for the first lease only.
AddsInOrder(s) ==
  /\ script[s].cmds = <<"enable", "add">> \/ flag = "enabled"
  /\ script[s].cmds = <<>> => script[s].status # "none" /\ doing[s].addr \in present
  /\ script[s].cmds # <<>> => script[s].cmds \in Adds /\ script[s].addr = doing[s].addr
  /\ doing[s].ours => journal = {}

\* What is being removed is the newest that is left; its address goes first.
RemovesLast(s) ==
  /\ stage[s] \in {"recovering", "closing"}
  /\ journal = todo[s] \union {doing[s]}
  /\ \A c \in journal : c.id <= doing[s].id
  /\ script[s].cmds # <<>> =>
       script[s].cmds \in Removes(doing[s]) /\ script[s].addr = doing[s].addr
  /\ script[s].cmds \in {<<>>, <<"disable">>} => doing[s].addr \notin present

Place(s) ==
  /\ pc[s] \in {"snapshot", "reading", "adding"} => Applying(s)
  /\ pc[s] = "adding" => AddsInOrder(s)
  /\ pc[s] = "removing" => RemovesLast(s)
  /\ pc[s] = "idle" /\ stage[s] \in {"recovering", "closing"} => todo[s] = journal
  /\ stage[s] = "open" => \A c \in journal : c.addr \in present
  /\ stage[s] # "over" =>
       /\ pc[s] \notin {"adding", "removing"} => Over(s)
       /\ script[s].status # "failed" /\ ~script[s].complaint

\* Only the oldest record claims the flag.
OursFirst ==
  \A c, d \in journal :
    /\ c.id < nextId
    /\ c.id = d.id => c = d
    /\ c.ours => c.id <= d.id

Flagged == \A c \in journal : c.addr \in present => flag = "enabled"

InOrder == (\A s \in Session : Place(s)) /\ OursFirst /\ Flagged

Smooth == mishaps \intersect {"failed", "declined", "late"} = {}

\* Sessions that do not live stay where they are.
LEMMA OthersPlaced ==
  ASSUME TypeOK, OneAtATime, InOrder, NEW s \in Session,
         \A t \in Session : t # s => /\ ~Live(t)
                                     /\ stage'[t] = stage[t] /\ pc'[t] = pc[t]
                                     /\ script'[t] = script[t]
  PROVE  \A t \in Session : t # s => Place(t)'
<1>. TAKE t \in Session
<1>. HAVE t # s
<1>1. pc[t] = "idle" /\ stage[t] \in {"off", "over"}
  BY DEF OneAtATime, Live, TypeOK
<1>. QED BY <1>1 DEF InOrder, Place, Over

LEMMA LivesAlone ==
  ASSUME OneAtATime, NEW s \in Session, Live(s)
  PROVE  \A t \in Session : t # s => ~Live(t)
BY DEF OneAtATime

\* A process starts, goes on or ends.
LEMMA OrderOfLives ==
  ASSUME TypeOK, OneAtATime, InOrder, NEW s \in Session,
         Start(s) \/ RecoveryEnds(s) \/ Shutdown(s) \/ Exit(s) \/ Crash(s)
  PROVE  InOrder'
<1>1. UNCHANGED <<flag, user, present, journal, script, nextId>>
  BY DEF Start, RecoveryEnds, Shutdown, Exit, Crash, interface
<1>2. \A t \in Session : t # s => /\ ~Live(t)
                                  /\ stage'[t] = stage[t] /\ pc'[t] = pc[t]
                                  /\ script'[t] = script[t]
  <2>1. CASE Start(s)
    BY <2>1 DEF Start, TypeOK
  <2>2. CASE RecoveryEnds(s) \/ Shutdown(s) \/ Exit(s) \/ Crash(s)
    <3>1. Live(s)
      BY <2>2 DEF RecoveryEnds, Shutdown, Exit, Crash, Live
    <3>. QED BY <2>2, <3>1, LivesAlone DEF RecoveryEnds, Shutdown, Exit, Crash, TypeOK
  <2>. QED BY <2>1, <2>2
<1>3. Place(s)
  BY DEF InOrder
<1>4. Place(s)'
  <2>1. CASE Start(s)
    <3>1. pc[s] = "idle" /\ pc'[s] = "idle" /\ stage[s] = "off" /\ stage'[s] = "recovering"
          /\ todo'[s] = journal
      BY <2>1 DEF Start, OneAtATime, Live, TypeOK
    <3>. QED BY <1>1, <1>3, <3>1 DEF Place, Over
  <2>2. CASE RecoveryEnds(s)
    <3>1. journal = {} /\ pc[s] = "idle" /\ pc'[s] = "idle" /\ stage[s] = "recovering"
      BY <1>3, <2>2 DEF RecoveryEnds, Place
    <3>2. stage'[s] = "open"
      BY <2>2, <3>1 DEF RecoveryEnds, TypeOK
    <3>. QED BY <1>1, <1>3, <3>1, <3>2 DEF Place, Over
  <2>3. CASE Shutdown(s)
    <3>1. pc[s] = "idle" /\ pc'[s] = "idle" /\ stage[s] = "open" /\ stage'[s] = "closing"
          /\ todo'[s] = journal
      BY <2>3 DEF Shutdown, TypeOK
    <3>. QED BY <1>1, <1>3, <3>1 DEF Place, Over
  <2>4. CASE Exit(s) \/ Crash(s)
    <3>1. pc'[s] = "idle" /\ stage'[s] = "over"
      BY <2>4 DEF Exit, Crash, TypeOK
    <3>. QED BY <3>1 DEF Place
  <2>. QED BY <2>1, <2>2, <2>3, <2>4
<1>5. OursFirst' /\ Flagged'
  BY <1>1 DEF InOrder, OursFirst, Flagged
<1>. QED BY <1>2, <1>4, <1>5, OthersPlaced DEF InOrder

\* A lease is on its way to its script.
LEMMA OrderOfApply ==
  ASSUME TypeOK, OneAtATime, InOrder, NEW s \in Session,
         (\E a \in Addr : Apply(s, a)) \/ Snapshot(s) \/ AddAddress(s)
  PROVE  InOrder'
<1>1. /\ Live(s) /\ nextId' \in {nextId, nextId + 1}
      /\ UNCHANGED <<flag, user, present, journal, stage, todo>>
  BY DEF Apply, Snapshot, AddAddress, interface, Live
<1>2. \A t \in Session : t # s => /\ ~Live(t)
                                  /\ stage'[t] = stage[t] /\ pc'[t] = pc[t]
                                  /\ script'[t] = script[t]
  BY <1>1, LivesAlone DEF Apply, Snapshot, AddAddress, TypeOK
<1>3. Place(s) /\ OursFirst /\ Flagged
  BY DEF InOrder
<1>4. \A c \in journal : c.id \in Int /\ c.id < nextId
  BY <1>3 DEF OursFirst, TypeOK, Lease
<1>5. OursFirst'
  BY <1>1, <1>3, <1>4 DEF OursFirst, TypeOK
<1>6. Flagged'
  BY <1>1, <1>3 DEF Flagged
<1>7. Place(s)'
  <2>1. ASSUME NEW a \in Addr, Apply(s, a) PROVE Place(s)'
    <3>1. /\ stage[s] = "open" /\ pc[s] = "idle" /\ pc'[s] = "snapshot" /\ nextId' = nextId + 1
          /\ doing'[s].id = nextId /\ script' = script
      BY <2>1 DEF Apply, TypeOK
    <3>2. Applying(s)'
      BY <1>1, <1>4, <3>1 DEF Applying, TypeOK
    <3>. QED BY <1>1, <1>3, <3>1, <3>2 DEF Place, Over
  <2>2. CASE Snapshot(s)
    <3>1. /\ pc[s] = "snapshot" /\ pc'[s] = "reading" /\ UNCHANGED <<nextId, doing, script>>
      BY <2>2 DEF Snapshot, TypeOK
    <3>2. Applying(s)'
      BY <1>1, <1>3, <3>1 DEF Applying, Place
    <3>. QED BY <1>1, <1>3, <3>1, <3>2 DEF Place, Over
  <2>3. CASE AddAddress(s)
    <3>1. PICK before \in CoexistenceRead :
            /\ doing' = [doing EXCEPT ![s].ours = EnabledByUs(before)]
            /\ script' = [script EXCEPT ![s] = Script(AddCommands(before), doing[s].addr)]
      BY <2>3 DEF AddAddress
    <3>2. /\ script'[s].cmds = AddCommands(before) /\ script'[s].addr = doing[s].addr
          /\ script'[s].status = "none" /\ script'[s].complaint = FALSE
      BY <3>1 DEF Script, Idle, TypeOK
    <3>3. /\ pc[s] = "reading" /\ pc'[s] = "adding" /\ doing[s] \in Lease /\ nextId' = nextId
      BY <2>3 DEF AddAddress, TypeOK
    <3>4. /\ doing'[s].ours = EnabledByUs(before) /\ doing'[s].addr = doing[s].addr
          /\ doing'[s].id = doing[s].id
      BY <3>1, <3>3 DEF TypeOK, Lease
    <3>5. Applying(s)' /\ stage[s] = "open"
      BY <1>1, <1>3, <3>3, <3>4 DEF Applying, Place
    <3>6. AddsInOrder(s)'
      <4>1. AddCommands(before) = <<"enable", "add">> \/ flag = "enabled"
        BY DEF AddCommands, CoexistenceRead
      <4>2. AddCommands(before) \in Adds /\ AddCommands(before) # <<>>
        BY ScriptsDiffer DEF AddCommands, Adds
      <4>3. EnabledByUs(before) => journal = {}
        <5>1. EnabledByUs(before) => flag # "enabled"
          BY DEF EnabledByUs, CoexistenceRead
        <5>2. \A c \in journal : flag = "enabled"
          BY <1>3, <3>5 DEF Place, Flagged
        <5>. QED BY <5>1, <5>2
      <4>. QED BY <1>1, <3>2, <3>4, <4>1, <4>2, <4>3 DEF AddsInOrder
    <3>. QED BY <1>1, <1>3, <3>2, <3>3, <3>5, <3>6 DEF Place, Over
  <2>. QED BY <2>1, <2>2, <2>3
<1>. QED BY <1>2, <1>5, <1>6, <1>7, OthersPlaced DEF InOrder

\* The restore loop takes the newest lease that is left.
LEMMA OrderOfRemoval ==
  ASSUME TypeOK, OneAtATime, InOrder, NEW s \in Session, RemoveAddress(s)
  PROVE  InOrder'
<1>1. Live(s) /\ UNCHANGED <<flag, user, present, journal, stage, nextId>>
  BY DEF RemoveAddress, interface, Live
<1>2. \A t \in Session : t # s => /\ ~Live(t)
                                  /\ stage'[t] = stage[t] /\ pc'[t] = pc[t]
                                  /\ script'[t] = script[t]
  BY <1>1, LivesAlone DEF RemoveAddress, TypeOK
<1>3. PICK c \in todo[s] :
        /\ \A d \in todo[s] : d.id <= c.id
        /\ doing' = [doing EXCEPT ![s] = c]
        /\ todo' = [todo EXCEPT ![s] = @ \ {c}]
        /\ script' = [script EXCEPT ![s] = Script(RemoveCommands(c), c.addr)]
  BY DEF RemoveAddress, NextToRemove
<1>4. /\ script'[s].cmds = RemoveCommands(c) /\ script'[s].addr = c.addr
      /\ script'[s].status = "none" /\ script'[s].complaint = FALSE
  BY <1>3 DEF Script, Idle, TypeOK
<1>5. /\ pc[s] = "idle" /\ pc'[s] = "removing" /\ stage[s] \in {"recovering", "closing"}
      /\ doing'[s] = c /\ todo'[s] = todo[s] \ {c} /\ todo[s] = journal
  BY <1>3 DEF RemoveAddress, TypeOK, InOrder, Place
<1>6. RemoveCommands(c) \in Removes(c) /\ RemoveCommands(c) \notin {<<>>, <<"disable">>}
  BY ScriptsDiffer DEF RemoveCommands, Removes
<1>7. RemovesLast(s)'
  BY <1>1, <1>3, <1>4, <1>5, <1>6 DEF RemovesLast, Removes
<1>8. Place(s)'
  BY <1>1, <1>4, <1>5, <1>7 DEF Place
<1>9. OursFirst' /\ Flagged'
  BY <1>1 DEF InOrder, OursFirst, Flagged
<1>. QED BY <1>2, <1>8, <1>9, OthersPlaced DEF InOrder

\* An operation returns; none throws.
LEMMA OrderOfReturns ==
  ASSUME TypeOK, OneAtATime, LoopRecorded, InOrder, NEW s \in Session,
         AddReturns(s) \/ AddThrows(s) \/ RemoveReturns(s) \/ RemoveThrows(s)
  PROVE  InOrder'
<1>1. Live(s) /\ Over(s) /\ Settled(s) /\ UNCHANGED <<flag, user, present, stage, todo, nextId>>
  BY DEF AddReturns, AddThrows, RemoveReturns, RemoveThrows, Answered, interface
<1>2. \A t \in Session : t # s => /\ ~Live(t)
                                  /\ stage'[t] = stage[t] /\ pc'[t] = pc[t]
                                  /\ script'[t] = script[t]
  BY <1>1, LivesAlone DEF Settled, TypeOK
<1>3. Place(s) /\ OursFirst /\ Flagged
  BY DEF InOrder
<1>4. ~(AddThrows(s) \/ RemoveThrows(s))
  BY <1>1, <1>3 DEF AddThrows, RemoveThrows, Failed, Place, Live
<1>5. /\ pc'[s] = "idle" /\ script'[s].cmds = <<>>
      /\ script'[s].status = "none" /\ ~script'[s].complaint
  BY <1>1 DEF Settled, Idle, TypeOK
<1>6. CASE AddReturns(s)
  <2>1. pc[s] = "adding" /\ journal' = journal \union {doing[s]} /\ doing[s] \in Lease
    BY <1>6 DEF AddReturns, TypeOK
  <2>2. Applying(s) /\ AddsInOrder(s) /\ stage[s] = "open"
    BY <1>3, <2>1 DEF Place, Applying
  <2>3. doing[s].addr \in present /\ flag = "enabled"
    BY <1>1, <2>2, ScriptsDiffer DEF AddsInOrder, Over
  <2>4. OursFirst'
    <3>1. \A c \in journal' : c.id \in Int /\ c.id < nextId
      BY <1>3, <2>1, <2>2 DEF OursFirst, Applying, Lease, TypeOK
    <3>2. \A c, d \in journal' : c.id = d.id => c = d
      BY <1>3, <2>1, <2>2 DEF OursFirst, Applying, Lease, TypeOK
    <3>3. \A c, d \in journal' : c.ours => c.id <= d.id
      <4>. TAKE c, d \in journal'
      <4>1. CASE c = doing[s]
        BY <2>1, <2>2, <3>1, <4>1 DEF AddsInOrder
      <4>2. CASE c # doing[s] /\ d = doing[s]
        BY <2>1, <2>2, <3>1, <4>2 DEF Applying
      <4>3. CASE c # doing[s] /\ d # doing[s]
        BY <1>3, <2>1, <4>3 DEF OursFirst
      <4>. QED BY <4>1, <4>2, <4>3
    <3>. QED BY <1>1, <3>1, <3>2, <3>3 DEF OursFirst
  <2>5. Flagged'
    BY <1>1, <2>3 DEF Flagged
  <2>6. Place(s)'
    BY <1>1, <1>3, <1>5, <2>1, <2>2, <2>3 DEF Place, Over
  <2>. QED BY <1>2, <2>4, <2>5, <2>6, OthersPlaced DEF InOrder
<1>7. CASE RemoveReturns(s)
  <2>1. pc[s] = "removing" /\ journal' = journal \ {doing[s]}
    BY <1>7 DEF RemoveReturns
  <2>2. RemovesLast(s)
    BY <1>3, <2>1 DEF Place
  <2>3. journal' = todo'[s] /\ stage'[s] \in {"recovering", "closing"}
    BY <1>1, <2>1, <2>2 DEF RemovesLast, LoopRecorded
  <2>4. Place(s)'
    BY <1>5, <2>3 DEF Place, Over
  <2>5. OursFirst' /\ Flagged'
    BY <1>1, <1>3, <2>1 DEF OursFirst, Flagged
  <2>. QED BY <1>2, <2>4, <2>5, OthersPlaced DEF InOrder
<1>. QED BY <1>4, <1>6, <1>7

\* A command of a living process's script has run.
LEMMA OrderOfCommands ==
  ASSUME TypeOK, OneAtATime, InOrder, NEW s \in Session, CommandSucceeds(s), Live(s)
  PROVE  InOrder'
<1>. DEFINE cmds == script[s].cmds
            a == script[s].addr
<1>1. UNCHANGED <<user, journal, stage, pc, doing, todo, nextId>>
  BY DEF CommandSucceeds
<1>2. Ran(s)
  BY ScriptRan
<1>3. cmds \in Scripts /\ cmds # <<>> /\ Effect(Head(cmds), a)
  BY DEF CommandSucceeds, Over, TypeOK, ScriptState
<1>4. \A t \in Session : t # s => /\ ~Live(t)
                                  /\ stage'[t] = stage[t] /\ pc'[t] = pc[t]
                                  /\ script'[t] = script[t]
  BY <1>1, <1>2, LivesAlone DEF Ran
<1>5. Place(s) /\ OursFirst /\ Flagged /\ stage[s] # "over"
  BY DEF InOrder, Live
<1>6. OursFirst'
  BY <1>1, <1>5 DEF OursFirst
<1>7. ~script'[s].complaint /\ script'[s].status = "ok"
  BY <1>2, <1>5 DEF Place, Ran
<1>8. pc[s] \in {"adding", "removing"}
  BY <1>3, <1>5 DEF Place, Over
<1>9. CASE pc[s] = "adding"
  <2>1. Applying(s) /\ AddsInOrder(s) /\ stage[s] = "open"
    BY <1>5, <1>9 DEF Place, Applying
  <2>2. Applying(s)'
    BY <1>1, <2>1 DEF Applying
  <2>3. cmds \in Adds /\ a = doing[s].addr
    BY <1>3, <2>1 DEF AddsInOrder
  <2>4. flag' = "enabled" /\ present \subseteq present'
    <3>1. CASE cmds = <<"enable", "add">>
      BY <1>3, <3>1, ScriptParts DEF Effect
    <3>2. CASE cmds = <<"add">>
      BY <1>3, <2>1, <3>2, ScriptParts, ScriptsDiffer DEF Effect, AddsInOrder
    <3>. QED BY <2>3, <3>1, <3>2 DEF Adds
  <2>5. /\ Tail(cmds) = <<>> => a \in present'
        /\ Tail(cmds) # <<>> => Tail(cmds) \in Adds
    <3>1. CASE cmds = <<"enable", "add">>
      BY <3>1, ScriptParts, ScriptsDiffer DEF Adds
    <3>2. CASE cmds = <<"add">>
      BY <1>3, <3>2, ScriptParts DEF Effect
    <3>. QED BY <2>3, <3>1, <3>2 DEF Adds
  <2>6. AddsInOrder(s)'
    BY <1>1, <1>2, <1>7, <2>1, <2>3, <2>4, <2>5 DEF AddsInOrder, Ran
  <2>7. Place(s)'
    BY <1>1, <1>5, <1>7, <1>9, <2>1, <2>2, <2>4, <2>6 DEF Place
  <2>8. Flagged'
    BY <2>4 DEF Flagged
  <2>. QED BY <1>4, <1>6, <2>7, <2>8, OthersPlaced DEF InOrder
<1>10. CASE pc[s] = "removing"
  <2>1. RemovesLast(s)
    BY <1>5, <1>10 DEF Place
  <2>2. cmds \in Removes(doing[s]) /\ a = doing[s].addr
    BY <1>3, <2>1 DEF RemovesLast
  <2>3. CASE cmds = <<"disable">>
    <3>1. flag' = "disabled" /\ present' = present /\ Tail(cmds) = <<>>
      BY <1>3, <2>3, ScriptParts DEF Effect
    <3>2. doing[s].ours /\ doing[s].addr \notin present
      BY <2>1, <2>2, <2>3, ScriptsDiffer DEF RemovesLast, Removes
    <3>3. doing[s] \in journal /\ doing[s].id \in Int /\ \A c \in journal : c.id \in Int
      BY <1>10, <2>1 DEF RemovesLast, TypeOK, Lease
    <3>4. \A c \in journal : c = doing[s]
      BY <1>5, <2>1, <3>2, <3>3 DEF OursFirst, RemovesLast
    <3>5. Flagged'
      BY <1>1, <3>1, <3>2, <3>4 DEF Flagged
    <3>6. RemovesLast(s)'
      BY <1>1, <1>2, <2>1, <3>1, <3>2 DEF RemovesLast, Ran
    <3>. QED BY <1>1, <1>4, <1>5, <1>6, <1>7, <1>10, <2>1, <3>5, <3>6, OthersPlaced
             DEF InOrder, Place, RemovesLast
  <2>4. CASE cmds # <<"disable">>
    <3>1. Head(cmds) = "delete" /\ Tail(cmds) \in {<<>>, <<"disable">>}
          /\ (Tail(cmds) # <<>> => Tail(cmds) \in Removes(doing[s]))
      <4>1. CASE cmds = <<"delete">>
        BY <4>1, ScriptParts
      <4>2. CASE cmds = <<"delete", "disable">>
        BY <2>2, <4>2, ScriptParts, ScriptsDiffer DEF Removes
      <4>. QED BY <2>2, <2>4, <4>1, <4>2 DEF Removes
    <3>2. flag' = flag /\ present' = present \ {a}
      BY <1>3, <3>1 DEF Effect
    <3>3. RemovesLast(s)'
      BY <1>1, <1>2, <2>1, <2>2, <3>1, <3>2 DEF RemovesLast, Ran, Removes
    <3>4. Flagged'
      BY <1>1, <1>5, <3>2 DEF Flagged
    <3>. QED BY <1>1, <1>4, <1>5, <1>6, <1>7, <1>10, <2>1, <3>3, <3>4, OthersPlaced
             DEF InOrder, Place, RemovesLast
  <2>. QED BY <2>3, <2>4
<1>. QED BY <1>8, <1>9, <1>10

\* The machine restarts, or the user decides.
LEMMA OrderRests ==
  ASSUME TypeOK, OneAtATime, InOrder, Reboot \/ UserSets
  PROVE  InOrder'
<1>1. CASE Reboot
  <2>1. present' = {} /\ UNCHANGED <<journal, nextId>>
    BY <1>1 DEF Reboot
  <2>2. ASSUME NEW s \in Session PROVE Place(s)'
    <3>1. pc'[s] = "idle" /\ script'[s] = Idle /\ stage'[s] \in {"off", "over"}
      BY <1>1 DEF Reboot, Live, TypeOK
    <3>. QED BY <3>1 DEF Place, Over, Idle
  <2>. QED BY <2>1, <2>2 DEF InOrder, OursFirst, Flagged
<1>2. CASE UserSets
  <2>1. journal' = {} /\ UNCHANGED <<present, journal, stage, pc, doing, todo, script, nextId>>
    BY <1>2 DEF UserSets
  <2>2. \A s \in Session : pc[s] = "idle"
    BY <1>2 DEF UserSets
  <2>3. \A s \in Session : Place(s)'
    BY <2>1, <2>2 DEF InOrder, Place, Over
  <2>. QED BY <2>1, <2>3 DEF InOrder, OursFirst, Flagged
<1>. QED BY <1>1, <1>2

LEMMA OrderStep ==
  ASSUME IInv, Smooth => InOrder, [Next]_vars, Smooth'
  PROVE  InOrder'
<1>1. mishaps \subseteq mishaps'
  BY DEF Next, vars, Start, RecoveryEnds, Shutdown, Exit, Crash, Apply, Snapshot, AddAddress,
         AddReturns, AddThrows, RemoveAddress, RemoveReturns, RemoveThrows, Declined,
         CommandSucceeds, CommandFails, Reboot, UserSets
<1>2. InOrder /\ TypeOK /\ OneAtATime /\ LoopRecorded
  BY <1>1 DEF Smooth, IInv
<1>3. ASSUME NEW s \in Session, CommandFails(s) \/ Declined(s) PROVE FALSE
  BY <1>3 DEF CommandFails, Declined, Smooth
<1>4. ASSUME NEW s \in Session, CommandSucceeds(s) PROVE Live(s)
  BY <1>4 DEF CommandSucceeds, Late, Smooth
<1>5. CASE UNCHANGED vars
  <2>1. \A s \in Session : Place(s)'
    BY <1>2, <1>5
       DEF vars, InOrder, Place, Applying, AddsInOrder, RemovesLast, Over
  <2>. QED BY <1>2, <1>5, <2>1 DEF vars, InOrder, OursFirst, Flagged
<1>. QED BY <1>2, <1>3, <1>4, <1>5, OrderOfLives, OrderOfApply, OrderOfRemoval, OrderOfReturns,
            OrderOfCommands, OrderRests
     DEF Next

\* No recorded address is without the flag it needs: of several leases the first
\* claims the flag and is removed last, in whichever session, after whatever
\* crash or reboot.
THEOREM AlwaysLeasedWithFlag == Spec => []LeasedWithFlag
<1>1. Init => (Smooth => InOrder)
  <2>. SUFFICES ASSUME Init PROVE InOrder
    OBVIOUS
  <2>1. \A s \in Session : Place(s)
    BY DEF Init, Place, Over, Idle
  <2>. QED BY <2>1 DEF Init, InOrder, OursFirst, Flagged
<1>2. IInv /\ (Smooth => InOrder) /\ [Next]_vars => (Smooth => InOrder)'
  BY OrderStep
<1>3. (Smooth => InOrder) => LeasedWithFlag
  BY DEF Smooth, InOrder, Flagged, LeasedWithFlag
<1>. QED BY <1>1, <1>2, <1>3, IInvAlways, PTL DEF Spec
=============================================================================
