------------------------ MODULE CleanupManagerProofs ------------------------
(***************************************************************************)
(* Proofs about CleanupManager, for every number of processes, addresses,  *)
(* changes and concurrent shutdowns: type correctness and, whatever goes   *)
(* wrong, that a live process never loses track of an address it has put   *)
(* on the interface; then, under the conditions each theorem names, that   *)
(* an orderly exit leaves nothing, and that the journal knows what a dead  *)
(* process has left and a recovery takes all of it away.                   *)
(***************************************************************************)
EXTENDS CleanupManager, TLAPS

USE MaxChangesAssumption, FaultsAssumption, AbsentAssumption, CallAssumption,
    NoneAssumption

-----------------------------------------------------------------------------
(* One restore call, or one journal write, moves and the others stay. *)

\* A call given a well-formed state leaves the table of calls well formed.
LEMMA SetCallType ==
  ASSUME CallOK, NEW s \in Session, NEW r \in Call, NEW v \in CallState,
         v.pc \in {"removing", "removed", "persisting"} => v.cur \in Change,
         SetCall(s, r, v)
  PROVE  CallOK'
  BY DEF CallOK, SetCall

\* What the table of calls holds after one call has moved.
LEMMA SetCallValue ==
  ASSUME CallOK, NEW s \in Session, NEW r \in Call, NEW v, SetCall(s, r, v),
         NEW t \in Session, NEW q \in Call
  PROVE  call'[t][q] = IF t = s /\ q = r THEN v ELSE call[t][q]
  BY DEF CallOK, SetCall

\* The same for the journal writes.
LEMMA SetWriterType ==
  ASSUME writer \in [Session -> [Job -> WriteState]],
         NEW s \in Session, NEW j \in Job, NEW v \in WriteState, SetWriter(s, j, v)
  PROVE  writer' \in [Session -> [Job -> WriteState]]
  BY DEF SetWriter

\* What the table of writes holds after one write has moved.
LEMMA SetWriterValue ==
  ASSUME writer \in [Session -> [Job -> WriteState]],
         NEW s \in Session, NEW j \in Job, NEW v, SetWriter(s, j, v),
         NEW t \in Session, NEW k \in Job
  PROVE  writer'[t][k] = IF t = s /\ k = j THEN v ELSE writer[t][k]
  BY DEF SetWriter

\* The states a call or a write is set to are well formed.
LEMMA Constructors ==
  /\ IdleCall \in CallState /\ IdleCall.pc = "idle"
  /\ \A b \in BOOLEAN : LET v == [DoneCall EXCEPT !.failed = b] IN
        v \in CallState /\ v.pc = "done"
  /\ DoneCall \in CallState /\ DoneCall.pc = "done"
  /\ \A cs \in SUBSET Change : StartedCall(cs) \in CallState /\ StartedCall(cs).pc = "loop"
  /\ NoWrite \in WriteState
  /\ \A cs \in SUBSET Change : Write(cs) \in WriteState
  BY DEF IdleCall, DoneCall, StartedCall, NoWrite, Write, CallState, WriteState

-----------------------------------------------------------------------------
(* Type correctness *)

LEMMA TypeInit == Init => TypeOK
  BY Constructors DEF Init, TypeOK, CallOK, ApplyOK, Missing

\* Starting a process and reading the journal keep the types.
LEMMA TypeStart ==
  ASSUME TypeOK, NEW s \in Session, Start(s) \/ LoadJournal(s)
  PROVE  TypeOK'
<1>1. CASE Start(s)
  BY <1>1 DEF Start, TypeOK, ApplyOK, CallOK
<1>2. CASE LoadJournal(s)
  <2>1. CallOK'
    <3>1. CASE UNCHANGED call
      BY <3>1 DEF TypeOK, CallOK
    <3>2. CASE SetCall(s, "startup", StartedCall(file.changes))
      BY <3>2, SetCallType, Constructors DEF TypeOK, Call
    <3>. QED BY <1>2, <3>1, <3>2 DEF LoadJournal
  <2>. QED BY <1>2, <2>1 DEF LoadJournal, TypeOK, ApplyOK
<1>. QED BY <1>1, <1>2

\* So does every step of applyTemporaryAddress.
LEMMA TypeApply ==
  ASSUME TypeOK, NEW s \in Session, ApplyStep(s)
  PROVE  TypeOK'
<1>1. CASE \E a \in Addr : ApplyStart(s, a)
  <2>. PICK a \in Addr : ApplyStart(s, a)
    BY <1>1
  <2>1. [id |-> nextId, by |-> s, addr |-> a] \in Change
    BY DEF ApplyStart, TypeOK, Change
  <2>. QED BY <2>1 DEF ApplyStart, TypeOK, ApplyOK, CallOK
<1>2. CASE SnapshotDone(s) \/ SnapshotFails(s) \/ AddFails(s) \/ ApplyReturns(s)
  BY <1>2 DEF SnapshotDone, SnapshotFails, AddFails, ApplyReturns, TypeOK, ApplyOK, CallOK
<1>3. CASE AddLands(s)
  BY <1>3 DEF AddLands, TypeOK, ApplyOK, CallOK
<1>4. CASE Record(s)
  <2>1. mem[s] \union {applying[s]} \in SUBSET Change
    BY <1>4 DEF Record, TypeOK, ApplyOK
  <2>2. writer' \in [Session -> [Job -> WriteState]]
    BY <1>4, <2>1, SetWriterType, Constructors DEF Record, TypeOK, Job
  <2>. QED BY <1>4, <2>1, <2>2 DEF Record, TypeOK, ApplyOK, CallOK
<1>. QED BY <1>1, <1>2, <1>3, <1>4 DEF ApplyStep

\* So does every step of a journal write.
LEMMA TypeWrite ==
  ASSUME TypeOK, NEW s \in Session, NEW j \in Job, WriteStep(s, j)
  PROVE  TypeOK'
<1>1. writer' \in [Session -> [Job -> WriteState]]
  <2>1. writer[s][j] \in WriteState
    BY DEF TypeOK
  <2>2. [writer[s][j] EXCEPT !.pc = "write"] \in WriteState
    BY <2>1 DEF WriteState
  <2>. QED BY <2>2, SetWriterType, Constructors
       DEF WriteStep, TruncateJournal, WriteJournal, WriteFails, TypeOK
<1>2. file' \in [st : {"missing", "torn", "ok"}, changes : SUBSET Change]
  BY DEF WriteStep, TruncateJournal, WriteJournal, WriteFails, TypeOK, WriteState, Torn, Saved
<1>. QED BY <1>1, <1>2
     DEF WriteStep, TruncateJournal, WriteJournal, WriteFails, TypeOK, ApplyOK, CallOK

\* So does every step of restore.
LEMMA TypeRestore ==
  ASSUME TypeOK, NEW s \in Session, NEW r \in Call, RestoreStep(s, r)
  PROVE  TypeOK'
<1>0. call[s][r] \in CallState
  BY DEF TypeOK, CallOK
<1>1. CASE NextRemoval(s, r)
  <2>. PICK c \in call[s][r].todo :
         SetCall(s, r, [call[s][r] EXCEPT !.pc = "removing", !.cur = c, !.todo = @ \ {c}])
    BY <1>1 DEF NextRemoval
  <2>. DEFINE v == [call[s][r] EXCEPT !.pc = "removing", !.cur = c, !.todo = @ \ {c}]
  <2>1. v \in CallState /\ v.cur \in Change
    BY <1>0 DEF CallState
  <2>2. CallOK'
    BY <2>1, SetCallType DEF TypeOK
  <2>. QED BY <1>1, <2>2 DEF NextRemoval, TypeOK, ApplyOK
<1>2. CASE RemoveLands(s, r)
  <2>. DEFINE v == [call[s][r] EXCEPT !.pc = "removed"]
  <2>1. v \in CallState /\ v.cur = call[s][r].cur
    BY <1>0 DEF CallState
  <2>2. CallOK'
    BY <1>2, <2>1, SetCallType DEF RemoveLands, TypeOK, CallOK
  <2>. QED BY <1>2, <2>2 DEF RemoveLands, TypeOK, ApplyOK
<1>3. CASE RemoveFails(s, r)
  <2>. DEFINE v == [call[s][r] EXCEPT !.pc = "loop", !.failed = TRUE]
  <2>1. v \in CallState /\ v.pc = "loop"
    BY <1>0 DEF CallState
  <2>2. CallOK'
    BY <1>3, <2>1, SetCallType DEF RemoveFails, TypeOK
  <2>. QED BY <1>3, <2>2 DEF RemoveFails, TypeOK, ApplyOK
<1>4. CASE Forget(s, r)
  <2>. DEFINE v == [call[s][r] EXCEPT !.pc = "persisting"]
  <2>1. v \in CallState /\ v.pc = "persisting" /\ v.cur = call[s][r].cur
    BY <1>0 DEF CallState
  <2>2. CallOK'
    BY <1>4, <2>1, SetCallType DEF Forget, TypeOK, CallOK
  <2>3. Remaining(s, r) \in SUBSET Change
    BY DEF Remaining, TypeOK
  <2>4. writer' \in [Session -> [Job -> WriteState]]
    BY <1>4, <2>3, SetWriterType, Constructors DEF Forget, TypeOK, Job
  <2>. QED BY <1>4, <2>2, <2>3, <2>4 DEF Forget, TypeOK, ApplyOK
<1>5. CASE NextIteration(s, r)
  <2>. DEFINE v == [call[s][r] EXCEPT !.pc = "loop"]
  <2>1. v \in CallState /\ v.pc = "loop"
    BY <1>0 DEF CallState
  <2>2. CallOK'
    BY <1>5, <2>1, SetCallType DEF NextIteration, TypeOK
  <2>. QED BY <1>5, <2>2 DEF NextIteration, TypeOK, ApplyOK
<1>6. CASE BeginDelete(s, r)
  <2>. DEFINE v == [call[s][r] EXCEPT !.pc = "deleting"]
  <2>1. v \in CallState /\ v.pc = "deleting"
    BY <1>0 DEF CallState
  <2>2. CallOK'
    BY <1>6, <2>1, SetCallType DEF BeginDelete, TypeOK
  <2>. QED BY <1>6, <2>2 DEF BeginDelete, TypeOK, ApplyOK
<1>7. CASE KeepJournal(s, r) \/ DeleteJournal(s, r)
  <2>1. RestoreEnds(s, r)
    BY <1>7 DEF KeepJournal, DeleteJournal
  <2>2. call[s][r].failed \in BOOLEAN
    BY <1>0 DEF CallState
  <2>3. CallOK'
    BY <2>1, <2>2, SetCallType, Constructors DEF RestoreEnds, TypeOK
  <2>4. stage' \in [Session -> {"off", "starting", "recovering", "open", "failed",
                                "closing", "exited", "crashed"}]
    BY <2>1 DEF RestoreEnds, TypeOK
  <2>. QED BY <1>7, <2>3, <2>4 DEF KeepJournal, DeleteJournal, TypeOK, ApplyOK, Missing
<1>. QED BY <1>1, <1>2, <1>3, <1>4, <1>5, <1>6, <1>7 DEF RestoreStep

\* So do shutdown, exit, and everything from outside.
LEMMA TypeRest ==
  ASSUME TypeOK,
         \/ \E s \in Session : \/ \E r \in ShutdownCall : Shutdown(s, r)
                               \/ Exit(s)
                               \/ Crash(s)
         \/ Reboot
         \/ \E a \in Addr : Flush(a) \/ UserAdds(a)
  PROVE  TypeOK'
<1>1. CASE \E s \in Session, r \in ShutdownCall : Shutdown(s, r)
  <2>. PICK s \in Session, r \in ShutdownCall : Shutdown(s, r)
    BY <1>1
  <2>1. mem[s] \in SUBSET Change
    BY DEF TypeOK
  <2>2. CallOK'
    BY <2>1, SetCallType, Constructors DEF Shutdown, TypeOK, Call
  <2>. QED BY <2>2 DEF Shutdown, TypeOK, ApplyOK
<1>2. CASE \E s \in Session : Exit(s) \/ Crash(s)
  <2>. PICK s \in Session : Exit(s) \/ Crash(s)
    BY <1>2
  <2>. DEFINE w == [j \in Job |-> NoWrite]
  <2>0. w \in [Job -> WriteState]
    BY Constructors
  <2>. HIDE DEF w
  <2>1. writer' \in [Session -> [Job -> WriteState]]
    <3>1. writer' = [writer EXCEPT ![s] = w]
      BY DEF Exit, Crash, LosesMemory, w
    <3>. QED BY <2>0, <3>1 DEF TypeOK
  <2>2. CallOK' /\ ApplyOK'
    BY DEF Exit, Crash, TypeOK, CallOK, ApplyOK
  <2>. QED BY <2>1, <2>2 DEF Exit, Crash, LosesMemory, TypeOK
<1>3. CASE Reboot
  BY <1>3, Constructors DEF Reboot, TypeOK, ApplyOK, CallOK
<1>4. CASE \E a \in Addr : Flush(a) \/ UserAdds(a)
  BY <1>4 DEF Flush, UserAdds, TypeOK, ApplyOK, CallOK
<1>. QED BY <1>1, <1>2, <1>3, <1>4

LEMMA TypeStep == TypeOK /\ [Next]_vars => TypeOK'
<1>. SUFFICES ASSUME TypeOK, [Next]_vars PROVE TypeOK'
  OBVIOUS
<1>1. CASE UNCHANGED vars
  BY <1>1 DEF vars, TypeOK, ApplyOK, CallOK
<1>. QED BY <1>1, TypeStart, TypeApply, TypeWrite, TypeRestore, TypeRest DEF Next

\* Every variable of every reachable state has its type, a restore that removes
\* has a change to remove, and an apply under way a change of its own to make.
THEOREM TypeCorrect == Spec => []TypeOK
  BY TypeInit, TypeStep, PTL DEF Spec

-----------------------------------------------------------------------------
(* The inductive invariant behind Tracked *)

\* Change c is known to some array, file, write or restore.
Recorded(c) ==
  \/ c \in file.changes
  \/ \E t \in Session :
       \/ c \in mem[t]
       \/ \E j \in Job : c \in writer[t][j].snap
       \/ \E r \in Call : c \in call[t][r].todo \/ c = call[t][r].cur

\* Change numbers are handed out in order.
Numbered ==
  /\ \A c \in Change : Recorded(c) => c.id < nextId
  /\ \A s \in Session : applyPc[s] # "idle" => applying[s].id < nextId

\* A change is recorded nowhere before its command has succeeded.
Unrecorded ==
  \A s \in Session : applyPc[s] \in {"snapshot", "adding"} => ~Recorded(applying[s])

\* An address on the interface is the one its change names.
InPlace == \A a \in Addr : os[a] \in Change => os[a].addr = a

\* What a restore has removed, and is about to forget or has just forgotten, is
\* not on the interface.
Gone ==
  \A s \in Session, r \in Call :
    call[s][r].pc \in {"removed", "persisting"} => os[call[s][r].cur.addr] # call[s][r].cur

\* A process that has not read the journal yet has put nothing anywhere.
Unstarted ==
  \A s \in Session : stage[s] \in {"off", "starting"} =>
    /\ applyPc[s] = "idle"
    /\ \A a \in Addr : os[a] \in Change => os[a].by # s

IInv == TypeOK /\ Numbered /\ Unrecorded /\ InPlace /\ Gone /\ Unstarted /\ Tracked

LEMMA IInvInit == Init => IInv
<1>. SUFFICES ASSUME Init PROVE IInv
  OBVIOUS
<1>1. TypeOK
  BY TypeInit
<1>2. \A c \in Change : ~Recorded(c)
  BY DEF Init, Recorded, Missing, NoWrite, IdleCall
<1>. QED BY <1>1, <1>2
     DEF Init, IInv, Numbered, Unrecorded, InPlace, Gone, Unstarted, Tracked, IdleCall, Live

\* Nothing gets recorded out of thin air: a step that makes a change known is
\* the one that pushes it after its command has succeeded.
Pushed(c) ==
  \E s \in Session :
    applyPc[s] = "added" /\ applyPc'[s] = "persisting" /\ c = applying[s]

\* What a call may be set to without learning of new changes.
LEMMA CallLearns ==
  ASSUME TypeOK, NEW s \in Session, NEW r \in Call, NEW v \in CallState, SetCall(s, r, v),
         \A d \in v.todo : Recorded(d),
         v.cur # None => Recorded(v.cur),
         UNCHANGED <<file, mem, writer>>,
         NEW c \in Change, Recorded(c)'
  PROVE  Recorded(c)
<1>1. ASSUME NEW t \in Session, NEW q \in Call, c \in call'[t][q].todo \/ c = call'[t][q].cur
      PROVE  Recorded(c)
  <2>1. call'[t][q] = IF t = s /\ q = r THEN v ELSE call[t][q]
    BY SetCallValue DEF TypeOK
  <2>2. CASE t = s /\ q = r
    BY <1>1, <2>1, <2>2
  <2>3. CASE ~(t = s /\ q = r)
    BY <1>1, <2>1, <2>3 DEF Recorded
  <2>. QED BY <2>2, <2>3
<1>. QED BY <1>1 DEF Recorded

LEMMA RestoreLearns ==
  ASSUME TypeOK, NEW s \in Session, NEW r \in Call, RestoreStep(s, r),
         NEW c \in Change, Recorded(c)'
  PROVE  Recorded(c)
<1>0. /\ call[s][r] \in CallState
      /\ \A d \in call[s][r].todo : Recorded(d)
      /\ Recorded(call[s][r].cur)
  BY DEF TypeOK, CallOK, Recorded
<1>. DEFINE At(pc) == [call[s][r] EXCEPT !.pc = pc]
<1>1. \A pc \in {"removed", "persisting", "loop", "deleting"} :
         At(pc) \in CallState /\ At(pc).todo = call[s][r].todo /\ At(pc).cur = call[s][r].cur
  BY <1>0 DEF CallState
<1>2. CASE NextRemoval(s, r)
  <2>. PICK d \in call[s][r].todo :
         SetCall(s, r, [call[s][r] EXCEPT !.pc = "removing", !.cur = d, !.todo = @ \ {d}])
    BY <1>2 DEF NextRemoval
  <2>. DEFINE v == [call[s][r] EXCEPT !.pc = "removing", !.cur = d, !.todo = @ \ {d}]
  <2>1. v \in CallState /\ v.cur = d /\ v.todo \subseteq call[s][r].todo
    BY <1>0 DEF CallState
  <2>. QED BY <1>0, <1>2, <2>1, CallLearns DEF NextRemoval
<1>3. CASE RemoveLands(s, r)
  BY <1>0, <1>1, <1>3, CallLearns DEF RemoveLands
<1>4. CASE RemoveFails(s, r)
  <2>. DEFINE v == [call[s][r] EXCEPT !.pc = "loop", !.failed = TRUE]
  <2>1. v \in CallState /\ v.todo = call[s][r].todo /\ v.cur = call[s][r].cur
    BY <1>0 DEF CallState
  <2>. QED BY <1>0, <1>4, <2>1, CallLearns DEF RemoveFails
<1>5. CASE Forget(s, r)
  <2>1. \A t \in Session : mem'[t] \subseteq mem[t]
    BY <1>5 DEF Forget, Remaining, TypeOK
  <2>2. \A t \in Session, j \in Job : c \in writer'[t][j].snap => Recorded(c)
    <3>. SUFFICES ASSUME NEW t \in Session, NEW j \in Job, c \in writer'[t][j].snap
                  PROVE  Recorded(c)
      OBVIOUS
    <3>1. writer'[t][j] = IF t = s /\ j = r THEN Write(Remaining(s, r)) ELSE writer[t][j]
      <4>1. SetWriter(s, r, Write(Remaining(s, r))) /\ r \in Job
        BY <1>5 DEF Forget, Job
      <4>. QED BY <4>1, SetWriterValue DEF TypeOK
    <3>. QED BY <3>1 DEF Write, Remaining, Recorded
  <2>3. \A t \in Session, q \in Call :
          c \in call'[t][q].todo \/ c = call'[t][q].cur => Recorded(c)
    <3>1. \A t \in Session, q \in Call :
            call'[t][q] = IF t = s /\ q = r THEN At("persisting") ELSE call[t][q]
      BY <1>5, SetCallValue DEF Forget, TypeOK
    <3>2. At("persisting").todo = call[s][r].todo /\ At("persisting").cur = call[s][r].cur
      BY <1>1
    <3>. HIDE DEF At
    <3>. QED BY <1>0, <3>1, <3>2 DEF Recorded
  <2>. QED BY <1>5, <2>1, <2>2, <2>3 DEF Forget, Recorded
<1>6. CASE NextIteration(s, r)
  BY <1>0, <1>1, <1>6, CallLearns DEF NextIteration
<1>7. CASE BeginDelete(s, r)
  BY <1>0, <1>1, <1>7, CallLearns DEF BeginDelete
<1>8. CASE KeepJournal(s, r) \/ DeleteJournal(s, r)
  <2>1. RestoreEnds(s, r) /\ UNCHANGED <<mem, writer>> /\ file'.changes \subseteq file.changes
    BY <1>8 DEF KeepJournal, DeleteJournal, Missing
  <2>2. PICK v \in CallState : SetCall(s, r, v) /\ v.todo = {} /\ v.cur = None
    <3>1. call[s][r].failed \in BOOLEAN
      BY <1>0 DEF CallState
    <3>2. [DoneCall EXCEPT !.failed = call[s][r].failed].todo = {}
          /\ [DoneCall EXCEPT !.failed = call[s][r].failed].cur = None
      BY DEF DoneCall, IdleCall
    <3>3. IdleCall.todo = {} /\ IdleCall.cur = None
      BY DEF IdleCall
    <3>. QED BY <2>1, <3>1, <3>2, <3>3, Constructors DEF RestoreEnds
  <2>3. \A t \in Session, q \in Call :
          call'[t][q] = IF t = s /\ q = r THEN v ELSE call[t][q]
    BY <2>2, SetCallValue DEF TypeOK
  <2>. QED BY <2>1, <2>2, <2>3 DEF Recorded
<1>. QED BY <1>2, <1>3, <1>4, <1>5, <1>6, <1>7, <1>8 DEF RestoreStep

LEMMA WriteLearns ==
  ASSUME TypeOK, NEW s \in Session, NEW j \in Job, WriteStep(s, j),
         NEW c \in Change, Recorded(c)'
  PROVE  Recorded(c)
<1>1. c \in file'.changes => Recorded(c)
  BY DEF WriteStep, TruncateJournal, WriteJournal, WriteFails, Torn, Saved, Recorded
<1>2. PICK v \in WriteState : SetWriter(s, j, v) /\ v.snap \subseteq writer[s][j].snap
  <2>1. writer[s][j] \in WriteState
    BY DEF TypeOK
  <2>2. [writer[s][j] EXCEPT !.pc = "write"] \in WriteState
        /\ [writer[s][j] EXCEPT !.pc = "write"].snap = writer[s][j].snap
    BY <2>1 DEF WriteState
  <2>3. NoWrite.snap = {}
    BY DEF NoWrite
  <2>. QED BY <2>2, <2>3, Constructors
       DEF WriteStep, TruncateJournal, WriteJournal, WriteFails
<1>3. \A t \in Session, k \in Job :
        writer'[t][k] = IF t = s /\ k = j THEN v ELSE writer[t][k]
  BY <1>2, SetWriterValue DEF TypeOK
<1>4. UNCHANGED <<mem, call>>
  BY DEF WriteStep, TruncateJournal, WriteJournal, WriteFails
<1>. QED BY <1>1, <1>2, <1>3, <1>4 DEF Recorded

LEMMA RestLearns ==
  ASSUME TypeOK,
         NEW c \in Change, Recorded(c)',
         \/ UNCHANGED <<file, mem, call, writer>>
         \/ \E s \in Session : \/ LoadJournal(s)
                               \/ \E r \in ShutdownCall : Shutdown(s, r)
                               \/ Exit(s) \/ Crash(s)
         \/ Reboot
  PROVE  Recorded(c)
<1>1. CASE UNCHANGED <<file, mem, call, writer>>
  BY <1>1 DEF Recorded
<1>2. CASE \E s \in Session : LoadJournal(s)
  <2>. PICK s \in Session : LoadJournal(s)
    BY <1>2
  <2>1. \A t \in Session : mem'[t] \subseteq mem[t] \union file.changes
    BY DEF LoadJournal, TypeOK
  <2>2. \A t \in Session, q \in Call :
          c \in call'[t][q].todo \/ c = call'[t][q].cur => Recorded(c)
    <3>1. CASE UNCHANGED call
      BY <3>1 DEF Recorded
    <3>2. CASE SetCall(s, "startup", StartedCall(file.changes))
      <4>1. \A t \in Session, q \in Call : call'[t][q] =
               IF t = s /\ q = "startup" THEN StartedCall(file.changes) ELSE call[t][q]
        <5>1. "startup" \in Call
          BY DEF Call
        <5>. QED BY <3>2, <5>1, SetCallValue DEF TypeOK
      <4>2. StartedCall(file.changes).todo = file.changes /\ StartedCall(file.changes).cur = None
        BY DEF StartedCall, IdleCall
      <4>. QED BY <4>1, <4>2 DEF Recorded
    <3>. QED BY <3>1, <3>2 DEF LoadJournal
  <2>. QED BY <2>1, <2>2 DEF LoadJournal, Recorded
<1>3. CASE \E s \in Session, r \in ShutdownCall : Shutdown(s, r)
  <2>. PICK s \in Session, r \in ShutdownCall : Shutdown(s, r)
    BY <1>3
  <2>. DEFINE v == IF mem[s] = {} THEN DoneCall ELSE StartedCall(mem[s])
  <2>1. v \in CallState /\ v.todo \subseteq mem[s] /\ v.cur = None
    <3>1. mem[s] \in SUBSET Change
      BY DEF TypeOK
    <3>2. DoneCall.todo = {} /\ DoneCall.cur = None
          /\ StartedCall(mem[s]).todo = mem[s] /\ StartedCall(mem[s]).cur = None
      BY DEF DoneCall, StartedCall, IdleCall
    <3>. QED BY <3>1, <3>2, Constructors
  <2>2. \A d \in v.todo : Recorded(d)
    BY <2>1 DEF Recorded
  <2>. HIDE DEF v
  <2>3. SetCall(s, r, v) /\ UNCHANGED <<file, mem, writer>> /\ r \in Call
    BY DEF Shutdown, Call, v
  <2>. QED BY <2>1, <2>2, <2>3, CallLearns
<1>4. CASE \E s \in Session : Exit(s) \/ Crash(s)
  <2>. PICK s \in Session : Exit(s) \/ Crash(s)
    BY <1>4
  <2>1. \A t \in Session : mem'[t] \subseteq mem[t]
    BY DEF Exit, Crash, LosesMemory, TypeOK
  <2>2. \A t \in Session, j \in Job : writer'[t][j].snap \subseteq writer[t][j].snap
    <3>1. \A t \in Session : writer'[t] = IF t = s THEN [j \in Job |-> NoWrite] ELSE writer[t]
      BY DEF Exit, Crash, LosesMemory, TypeOK
    <3>. QED BY <3>1 DEF NoWrite
  <2>. QED BY <2>1, <2>2 DEF Exit, Crash, Recorded
<1>5. CASE Reboot
  BY <1>5 DEF Reboot, Recorded, NoWrite, IdleCall
<1>. QED BY <1>1, <1>2, <1>3, <1>4, <1>5

LEMMA Learns ==
  ASSUME TypeOK, [Next]_vars, NEW c \in Change, Recorded(c)'
  PROVE  Recorded(c) \/ Pushed(c)
<1>1. CASE \E s \in Session : Record(s)
  <2>. PICK s \in Session : Record(s)
    BY <1>1
  <2>1. SUFFICES ASSUME c # applying[s] PROVE Recorded(c)
    BY DEF Record, Pushed, TypeOK, ApplyOK
  <2>2. \A t \in Session : mem'[t] \subseteq mem[t] \union {applying[s]}
    BY DEF Record, TypeOK
  <2>3. \A t \in Session, j \in Job : writer'[t][j] =
          IF t = s /\ j = "apply" THEN Write(mem[s] \union {applying[s]}) ELSE writer[t][j]
    <3>1. SetWriter(s, "apply", Write(mem[s] \union {applying[s]})) /\ "apply" \in Job
      BY DEF Record, Job
    <3>. QED BY <3>1, SetWriterValue DEF TypeOK
  <2>. QED BY <2>1, <2>2, <2>3 DEF Record, Recorded, Write
<1>2. CASE \E s \in Session : ApplyStep(s) /\ ~Record(s)
  BY <1>2, RestLearns
     DEF ApplyStep, ApplyStart, SnapshotDone, SnapshotFails, AddLands, AddFails, ApplyReturns
<1>3. CASE UNCHANGED vars
  BY <1>3, RestLearns DEF vars
<1>4. CASE (\E s \in Session : Start(s)) \/ (\E a \in Addr : Flush(a) \/ UserAdds(a))
  BY <1>4, RestLearns DEF Start, Flush, UserAdds
<1>. QED BY <1>1, <1>2, <1>3, <1>4, RestLearns, WriteLearns, RestoreLearns DEF Next

\* What a step does to the apply of one process: it starts one with the next
\* number, or it leaves the change of an apply that has one alone.
LEMMA ApplyFrame ==
  ASSUME TypeOK, [Next]_vars, NEW s \in Session, applyPc'[s] # "idle"
  PROVE  \/ /\ applyPc[s] = "idle"
            /\ applyPc'[s] = "snapshot"
            /\ applying'[s].id = nextId
            /\ nextId' = nextId + 1
            /\ \A t \in Session : t # s => applyPc'[t] = applyPc[t]
         \/ /\ applyPc[s] # "idle"
            /\ applying'[s] = applying[s]
            /\ applyPc'[s] \in {"snapshot", "adding"} => applyPc[s] \in {"snapshot", "adding"}
            /\ nextId' \in {nextId, nextId + 1}
<1>1. CASE \E t \in Session : ApplyStep(t)
  <2>. PICK t \in Session : ApplyStep(t)
    BY <1>1
  <2>1. CASE \E a \in Addr : ApplyStart(t, a)
    BY <2>1 DEF ApplyStart, TypeOK, ApplyOK
  <2>2. CASE ~\E a \in Addr : ApplyStart(t, a)
    BY <2>2 DEF ApplyStep, SnapshotDone, SnapshotFails, AddLands, AddFails, Record,
                ApplyReturns, TypeOK, ApplyOK
  <2>. QED BY <2>1, <2>2
<1>2. CASE Reboot
  BY <1>2 DEF Reboot
<1>3. CASE UNCHANGED <<applyPc, applying, nextId>>
  BY <1>3 DEF TypeOK
<1>4. ASSUME NEW t \in Session, NEW j \in Job, WriteStep(t, j)
      PROVE  UNCHANGED <<applyPc, applying, nextId>>
  BY <1>4 DEF WriteStep, TruncateJournal, WriteJournal, WriteFails
<1>5. ASSUME NEW t \in Session, NEW r \in Call, RestoreStep(t, r)
      PROVE  UNCHANGED <<applyPc, applying, nextId>>
  BY <1>5 DEF RestoreStep, NextRemoval, RemoveLands, RemoveFails, Forget, NextIteration,
              KeepJournal, BeginDelete, DeleteJournal
<1>6. ASSUME NEW t \in Session, \/ Start(t) \/ LoadJournal(t) \/ Exit(t) \/ Crash(t)
                                \/ \E r \in ShutdownCall : Shutdown(t, r)
      PROVE  UNCHANGED <<applyPc, applying, nextId>>
  BY <1>6 DEF Start, LoadJournal, Exit, Crash, Shutdown
<1>7. ASSUME NEW a \in Addr, Flush(a) \/ UserAdds(a)
      PROVE  UNCHANGED <<applyPc, applying, nextId>>
  BY <1>7 DEF Flush, UserAdds
<1>. QED BY <1>1, <1>2, <1>3, <1>4, <1>5, <1>6, <1>7 DEF Next, vars

LEMMA NumbersGrow ==
  ASSUME TypeOK, [Next]_vars
  PROVE  nextId \in Nat /\ nextId' \in {nextId, nextId + 1}
<1>1. nextId \in Nat
  BY DEF TypeOK
<1>2. ASSUME NEW s \in Session, ApplyStep(s) PROVE nextId' \in {nextId, nextId + 1}
  BY <1>2 DEF ApplyStep, ApplyStart, SnapshotDone, SnapshotFails, AddLands, AddFails,
              Record, ApplyReturns
<1>3. ASSUME NEW s \in Session, NEW j \in Job, WriteStep(s, j) PROVE nextId' = nextId
  BY <1>3 DEF WriteStep, TruncateJournal, WriteJournal, WriteFails
<1>4. ASSUME NEW s \in Session, NEW r \in Call, RestoreStep(s, r) PROVE nextId' = nextId
  BY <1>4 DEF RestoreStep, NextRemoval, RemoveLands, RemoveFails, Forget, NextIteration,
              KeepJournal, BeginDelete, DeleteJournal
<1>. QED BY <1>1, <1>2, <1>3, <1>4
     DEF Next, vars, Start, LoadJournal, Shutdown, Exit, Crash, Reboot, Flush, UserAdds

LEMMA NumberedStep == IInv /\ [Next]_vars => Numbered'
<1>. SUFFICES ASSUME IInv, [Next]_vars PROVE Numbered'
  OBVIOUS
<1>. USE DEF IInv
<1>0. nextId \in Nat /\ nextId' \in {nextId, nextId + 1}
  BY NumbersGrow
<1>1. ASSUME NEW c \in Change, Recorded(c)' PROVE c.id < nextId'
  <2>1. c.id \in Nat
    BY MaxChangesAssumption DEF Change
  <2>2. c.id < nextId
    BY <1>1, Learns DEF Numbered, Pushed
  <2>. QED BY <1>0, <2>1, <2>2
<1>2. ASSUME NEW s \in Session, applyPc'[s] # "idle" PROVE applying'[s].id < nextId'
  <2>1. CASE applying'[s].id = nextId /\ nextId' = nextId + 1
    BY <1>0, <2>1
  <2>2. CASE applyPc[s] # "idle" /\ applying'[s] = applying[s]
    <3>1. applying[s].id < nextId /\ applying[s].id \in Nat
      BY <2>2 DEF Numbered, TypeOK, ApplyOK, Change
    <3>. QED BY <1>0, <2>2, <3>1
  <2>. QED BY <1>2, <2>1, <2>2, ApplyFrame
<1>. QED BY <1>1, <1>2 DEF Numbered

LEMMA UnrecordedStep == IInv /\ [Next]_vars => Unrecorded'
<1>. SUFFICES ASSUME IInv, [Next]_vars,
                     NEW s \in Session, applyPc'[s] \in {"snapshot", "adding"},
                     Recorded(applying[s])'
              PROVE  FALSE
  BY DEF Unrecorded
<1>. USE DEF IInv
<1>0. applying'[s] \in Change
  BY TypeStep DEF TypeOK, ApplyOK
<1>1. Recorded(applying'[s]) \/ Pushed(applying'[s])
  BY <1>0, Learns
<1>2. CASE /\ applyPc[s] = "idle"
           /\ applying'[s].id = nextId
           /\ \A t \in Session : t # s => applyPc'[t] = applyPc[t]
  <2>1. applying'[s].id < nextId
    BY <1>0, <1>1, <1>2 DEF Numbered, Pushed
  <2>. QED BY <1>2, <2>1, NumbersGrow
<1>3. CASE applyPc[s] \in {"snapshot", "adding"} /\ applying'[s] = applying[s]
  <2>1. Pushed(applying[s])
    BY <1>1, <1>3 DEF Unrecorded
  <2>. QED BY <1>3, <2>1 DEF Pushed, TypeOK, ApplyOK
<1>. QED BY <1>2, <1>3, ApplyFrame

\* What a step does to the interface: a change of its own appears where it
\* belongs, or something goes, or somebody else's address appears.
LEMMA OsFrame ==
  ASSUME TypeOK, [Next]_vars, NEW a \in Addr, os'[a] \in Change
  PROVE  \/ os'[a] = os[a]
         \/ \E s \in Session :
              /\ AddLands(s)
              /\ os'[a] = applying[s]
              /\ a = applying[s].addr
<1>0. os \in [Addr -> Change \union {None, Foreign}]
  BY DEF TypeOK
<1>1. CASE \E s \in Session : AddLands(s)
  <2>. PICK s \in Session : AddLands(s)
    BY <1>1
  <2>1. os' = [os EXCEPT ![applying[s].addr] = applying[s]]
    BY DEF AddLands
  <2>. QED BY <1>0, <2>1
<1>2. CASE UNCHANGED os
  BY <1>2
<1>3. CASE \E s \in Session, r \in Call : RestoreStep(s, r)
  <2>. PICK s \in Session, r \in Call : RestoreStep(s, r)
    BY <1>3
  <2>1. os' = os \/ os' = [os EXCEPT ![call[s][r].cur.addr] = None]
    BY DEF RestoreStep, NextRemoval, RemoveLands, RemoveFails, Forget, NextIteration,
           KeepJournal, BeginDelete, DeleteJournal
  <2>. QED BY <1>0, <2>1
<1>4. CASE Reboot
  BY <1>4 DEF Reboot
<1>8. CASE \E b \in Addr : Flush(b) \/ UserAdds(b)
  <2>. PICK b \in Addr : os' = [os EXCEPT ![b] = None] \/ os' = [os EXCEPT ![b] = Foreign]
    BY <1>8 DEF Flush, UserAdds
  <2>. QED BY <1>0
<1>5. ASSUME NEW s \in Session, ApplyStep(s), ~AddLands(s) PROVE UNCHANGED os
  BY <1>5 DEF ApplyStep, ApplyStart, SnapshotDone, SnapshotFails, AddFails, Record, ApplyReturns
<1>6. ASSUME NEW s \in Session, NEW j \in Job, WriteStep(s, j) PROVE UNCHANGED os
  BY <1>6 DEF WriteStep, TruncateJournal, WriteJournal, WriteFails
<1>7. ASSUME NEW s \in Session, \/ Start(s) \/ LoadJournal(s) \/ Exit(s) \/ Crash(s)
                                \/ \E r \in ShutdownCall : Shutdown(s, r)
      PROVE  UNCHANGED os
  BY <1>7 DEF Start, LoadJournal, Exit, Crash, Shutdown
<1>. QED BY <1>1, <1>2, <1>3, <1>4, <1>5, <1>6, <1>7, <1>8 DEF Next, vars

LEMMA InPlaceStep == IInv /\ [Next]_vars => InPlace'
  BY OsFrame DEF IInv, InPlace

\* What a step does to one restore call: it leaves it, or its command lands, or
\* it forgets, or it is somewhere else than after a removal.
LEMMA CallFrame ==
  ASSUME TypeOK, [Next]_vars, NEW s \in Session, NEW r \in Call,
         call'[s][r].pc \in {"removed", "persisting"}
  PROVE  call'[s][r] = call[s][r] \/ RemoveLands(s, r) \/ Forget(s, r)
<1>1. ASSUME NEW t \in Session, NEW q \in Call, NEW v,
             SetCall(t, q, v), v.pc \notin {"removed", "persisting"}
      PROVE  call'[s][r] = call[s][r]
  <2>1. call'[s][r] = IF s = t /\ r = q THEN v ELSE call[s][r]
    BY <1>1, SetCallValue DEF TypeOK
  <2>. QED BY <1>1, <2>1
<1>2. CASE \E t \in Session, q \in Call : RestoreStep(t, q)
  <2>. PICK t \in Session, q \in Call : RestoreStep(t, q)
    BY <1>2
  <2>0. call[t][q] \in CallState
    BY DEF TypeOK, CallOK
  <2>. DEFINE At(pc) == [call[t][q] EXCEPT !.pc = pc]
  <2>1. \A pc \in {"loop", "deleting"} : At(pc).pc = pc
    BY <2>0 DEF CallState
  <2>2. CASE NextRemoval(t, q)
    <3>. PICK d \in call[t][q].todo :
           SetCall(t, q, [call[t][q] EXCEPT !.pc = "removing", !.cur = d, !.todo = @ \ {d}])
      BY <2>2 DEF NextRemoval
    <3>1. [call[t][q] EXCEPT !.pc = "removing", !.cur = d, !.todo = @ \ {d}].pc = "removing"
      BY <2>0 DEF CallState
    <3>. QED BY <1>1, <3>1
  <2>3. CASE RemoveLands(t, q) \/ Forget(t, q)
    <3>1. CASE t = s /\ q = r
      BY <2>3, <3>1
    <3>2. CASE ~(t = s /\ q = r)
      BY <2>3, <3>2, SetCallValue DEF RemoveLands, Forget, TypeOK
    <3>. QED BY <3>1, <3>2
  <2>4. CASE RemoveFails(t, q)
    <3>1. [call[t][q] EXCEPT !.pc = "loop", !.failed = TRUE].pc = "loop"
      BY <2>0 DEF CallState
    <3>. QED BY <1>1, <2>4, <3>1 DEF RemoveFails
  <2>5. CASE NextIteration(t, q) \/ BeginDelete(t, q)
    <3>1. \E pc \in {"loop", "deleting"} : SetCall(t, q, At(pc))
      BY <2>5 DEF NextIteration, BeginDelete
    <3>. HIDE DEF At
    <3>. QED BY <1>1, <2>1, <3>1
  <2>6. CASE KeepJournal(t, q) \/ DeleteJournal(t, q)
    <3>1. call[t][q].failed \in BOOLEAN
      BY <2>0 DEF CallState
    <3>2. RestoreEnds(t, q)
      BY <2>6 DEF KeepJournal, DeleteJournal
    <3>. QED BY <1>1, <3>1, <3>2, Constructors DEF RestoreEnds
  <2>. QED BY <2>2, <2>3, <2>4, <2>5, <2>6 DEF RestoreStep
<1>3. CASE \E t \in Session : LoadJournal(t)
  <2>. PICK t \in Session : LoadJournal(t)
    BY <1>3
  <2>1. call' = call \/ SetCall(t, "startup", StartedCall(file.changes))
    BY DEF LoadJournal
  <2>2. file.changes \in SUBSET Change /\ "startup" \in Call
    BY DEF TypeOK, Call
  <2>. QED BY <1>1, <2>1, <2>2, Constructors
<1>4. CASE \E t \in Session, q \in ShutdownCall : Shutdown(t, q)
  <2>. PICK t \in Session, q \in ShutdownCall : Shutdown(t, q)
    BY <1>4
  <2>1. mem[t] \in SUBSET Change /\ q \in Call
    BY DEF TypeOK, Call
  <2>. QED BY <1>1, <2>1, Constructors DEF Shutdown
<1>5. CASE Reboot
  BY <1>5 DEF Reboot, IdleCall
<1>6. ASSUME NEW t \in Session, ApplyStep(t) PROVE UNCHANGED call
  BY <1>6 DEF ApplyStep, ApplyStart, SnapshotDone, SnapshotFails, AddLands, AddFails,
              Record, ApplyReturns
<1>7. ASSUME NEW t \in Session, NEW j \in Job, WriteStep(t, j) PROVE UNCHANGED call
  BY <1>7 DEF WriteStep, TruncateJournal, WriteJournal, WriteFails
<1>8. ASSUME NEW t \in Session, Start(t) \/ Exit(t) \/ Crash(t) PROVE UNCHANGED call
  BY <1>8 DEF Start, Exit, Crash
<1>9. ASSUME NEW a \in Addr, Flush(a) \/ UserAdds(a) PROVE UNCHANGED call
  BY <1>9 DEF Flush, UserAdds
<1>. QED BY <1>2, <1>3, <1>4, <1>5, <1>6, <1>7, <1>8, <1>9 DEF Next, vars

LEMMA GoneStep == IInv /\ [Next]_vars => Gone'
<1>. SUFFICES ASSUME IInv, [Next]_vars,
                     NEW s \in Session, NEW r \in Call,
                     call'[s][r].pc \in {"removed", "persisting"},
                     os'[call'[s][r].cur.addr] = call'[s][r].cur
              PROVE  FALSE
  BY DEF Gone
<1>. USE DEF IInv
<1>. DEFINE c == call'[s][r].cur
<1>0. c \in Change /\ c.addr \in Addr
  BY TypeStep DEF TypeOK, CallOK, Change
<1>1. CASE call'[s][r] = call[s][r]
  <2>1. os[c.addr] # c
    BY <1>1 DEF Gone
  <2>2. PICK t \in Session : AddLands(t) /\ c = applying[t]
    BY <1>0, <2>1, OsFrame
  <2>. QED BY <1>1, <2>2 DEF AddLands, Unrecorded, Recorded
<1>2. CASE RemoveLands(s, r)
  <2>1. os' = [os EXCEPT ![call[s][r].cur.addr] = None]
    BY <1>2 DEF RemoveLands
  <2>2. c = call[s][r].cur
    <3>1. call'[s][r] = [call[s][r] EXCEPT !.pc = "removed"]
      BY <1>2, SetCallValue DEF RemoveLands, TypeOK
    <3>2. call[s][r] \in CallState
      BY DEF TypeOK, CallOK
    <3>. QED BY <3>1, <3>2 DEF CallState
  <2>3. os \in [Addr -> Change \union {None, Foreign}]
    BY DEF TypeOK
  <2>. QED BY <1>0, <2>1, <2>2, <2>3
<1>3. CASE Forget(s, r)
  <2>1. c = call[s][r].cur
    <3>1. call'[s][r] = [call[s][r] EXCEPT !.pc = "persisting"]
      BY <1>3, SetCallValue DEF Forget, TypeOK
    <3>2. call[s][r] \in CallState
      BY DEF TypeOK, CallOK
    <3>. QED BY <3>1, <3>2 DEF CallState
  <2>. QED BY <1>3, <2>1 DEF Forget, Gone
<1>4. call'[s][r] = call[s][r] \/ RemoveLands(s, r) \/ Forget(s, r)
  BY CallFrame
<1>. QED BY <1>1, <1>2, <1>3, <1>4

\* What a step does to the stage of a process and to its array: only a start
\* brings it to life, nothing takes it back to before the journal was read, and
\* while it lives its array loses only what a restore has removed.
LEMMA SessionFrame ==
  ASSUME TypeOK, [Next]_vars, NEW s \in Session
  PROVE  /\ Live(s)' => Live(s) \/ stage[s] = "off"
         /\ stage'[s] \in {"off", "starting"} => stage[s] \in {"off", "starting"}
         /\ applyPc'[s] # "idle" => applyPc[s] # "idle" \/ stage'[s] = "open"
         /\ Live(s)' /\ stage[s] \notin {"off", "starting"} =>
              \/ mem[s] \subseteq mem'[s]
              \/ \E r \in Call : Forget(s, r)
<1>. USE DEF Live
<1>1. CASE \E t \in Session : ApplyStep(t)
  <2>. PICK t \in Session : ApplyStep(t)
    BY <1>1
  <2>. USE DEF TypeOK, ApplyOK
  <2>1. CASE \E a \in Addr : ApplyStart(t, a)
    BY <2>1 DEF ApplyStart
  <2>2. CASE SnapshotDone(t) \/ SnapshotFails(t) \/ AddLands(t) \/ AddFails(t) \/ ApplyReturns(t)
    BY <2>2 DEF SnapshotDone, SnapshotFails, AddLands, AddFails, ApplyReturns
  <2>3. CASE Record(t)
    BY <2>3 DEF Record
  <2>. QED BY <2>1, <2>2, <2>3 DEF ApplyStep
<1>2. CASE \E t \in Session, r \in Call : RestoreStep(t, r)
  <2>. PICK t \in Session, r \in Call : RestoreStep(t, r)
    BY <1>2
  <2>1. CASE Forget(t, r)
    BY <2>1 DEF Forget, TypeOK
  <2>2. CASE ~Forget(t, r)
    <3>1. UNCHANGED <<mem, applyPc>>
      BY <2>2 DEF RestoreStep, NextRemoval, RemoveLands, RemoveFails, NextIteration,
                  KeepJournal, BeginDelete, DeleteJournal
    <3>2. CASE UNCHANGED stage
      BY <3>1, <3>2
    <3>3. CASE RestoreEnds(t, r) /\ Live(t)
      <4>1. stage' = stage \/ \E x \in {"failed", "open"} :
               stage[t] = "recovering" /\ stage' = [stage EXCEPT ![t] = x]
        BY <3>3 DEF RestoreEnds, TypeOK
      <4>. QED BY <3>1, <4>1 DEF TypeOK
    <3>. QED BY <2>2, <3>2, <3>3
         DEF RestoreStep, NextRemoval, RemoveLands, RemoveFails, NextIteration,
             KeepJournal, BeginDelete, DeleteJournal
  <2>. QED BY <2>1, <2>2
<1>3. CASE \E t \in Session, j \in Job : WriteStep(t, j)
  BY <1>3 DEF WriteStep, TruncateJournal, WriteJournal, WriteFails
<1>4. CASE \E t \in Session : Start(t) \/ LoadJournal(t)
  BY <1>4 DEF Start, LoadJournal, TypeOK
<1>5. CASE \E t \in Session : Exit(t) \/ Crash(t) \/ \E r \in ShutdownCall : Shutdown(t, r)
  BY <1>5 DEF Exit, Crash, LosesMemory, Shutdown, TypeOK
<1>6. CASE Reboot
  BY <1>6 DEF Reboot, TypeOK
<1>7. CASE UNCHANGED vars \/ \E a \in Addr : Flush(a) \/ UserAdds(a)
  BY <1>7 DEF Flush, UserAdds, vars
<1>. QED BY <1>1, <1>2, <1>3, <1>4, <1>5, <1>6, <1>7 DEF Next

LEMMA UnstartedStep == IInv /\ [Next]_vars => Unstarted'
<1>. SUFFICES ASSUME IInv, [Next]_vars,
                     NEW s \in Session, stage'[s] \in {"off", "starting"}
              PROVE  /\ applyPc'[s] = "idle"
                     /\ \A a \in Addr : os'[a] \in Change => os'[a].by # s
  BY DEF Unstarted
<1>. USE DEF IInv
<1>1. stage[s] \in {"off", "starting"}
  BY SessionFrame
<1>2. applyPc'[s] = "idle"
  BY <1>1, SessionFrame DEF Unstarted
<1>3. ASSUME NEW a \in Addr, os'[a] \in Change PROVE os'[a].by # s
  <2>1. CASE os'[a] = os[a]
    BY <1>1, <1>3, <2>1 DEF Unstarted
  <2>2. CASE \E t \in Session : AddLands(t) /\ os'[a] = applying[t]
    BY <1>1, <2>2 DEF AddLands, Unstarted, TypeOK, ApplyOK
  <2>. QED BY <1>3, <2>1, <2>2, OsFrame
<1>. QED BY <1>2, <1>3

\* The apply that has just added its address goes on to record it.
LEMMA AddedFrame ==
  ASSUME TypeOK, [Next]_vars, NEW s \in Session, Live(s)', applyPc[s] = "added"
  PROVE  \/ applyPc'[s] = "added" /\ applying'[s] = applying[s]
         \/ applying[s] \in mem'[s]
         \/ Reboot
<1>1. CASE \E t \in Session : ApplyStep(t)
  <2>. PICK t \in Session : ApplyStep(t)
    BY <1>1
  <2>1. CASE Record(t)
    BY <2>1 DEF Record, TypeOK, ApplyOK
  <2>2. CASE ~Record(t)
    BY <2>2 DEF ApplyStep, ApplyStart, SnapshotDone, SnapshotFails, AddLands, AddFails,
                ApplyReturns, TypeOK, ApplyOK
  <2>. QED BY <2>1, <2>2
<1>2. CASE UNCHANGED <<applyPc, applying>>
  BY <1>2
<1>3. ASSUME NEW t \in Session, NEW j \in Job, WriteStep(t, j)
      PROVE  UNCHANGED <<applyPc, applying>>
  BY <1>3 DEF WriteStep, TruncateJournal, WriteJournal, WriteFails
<1>4. ASSUME NEW t \in Session, NEW r \in Call, RestoreStep(t, r)
      PROVE  UNCHANGED <<applyPc, applying>>
  BY <1>4 DEF RestoreStep, NextRemoval, RemoveLands, RemoveFails, Forget, NextIteration,
              KeepJournal, BeginDelete, DeleteJournal
<1>. QED BY <1>1, <1>2, <1>3, <1>4
     DEF Next, vars, Start, LoadJournal, Shutdown, Exit, Crash, Flush, UserAdds

LEMMA TrackedStep == IInv /\ [Next]_vars => Tracked'
<1>. SUFFICES ASSUME IInv, [Next]_vars,
                     NEW s \in Session, NEW a \in Addr,
                     Live(s)', os'[a] \in Change, os'[a].by = s
              PROVE  \/ os'[a] \in mem'[s]
                     \/ applyPc'[s] = "added" /\ applying'[s] = os'[a]
  BY DEF Tracked
<1>. USE DEF IInv
<1>1. CASE \E t \in Session : AddLands(t) /\ os'[a] = applying[t]
  <2>. PICK t \in Session : AddLands(t) /\ os'[a] = applying[t]
    BY <1>1
  <2>1. t = s
    BY DEF AddLands, TypeOK, ApplyOK
  <2>. QED BY <2>1 DEF AddLands, TypeOK, ApplyOK
<1>2. CASE os'[a] = os[a]
  <2>1. Live(s) /\ stage[s] \notin {"off", "starting"}
    BY <1>2, SessionFrame DEF Unstarted
  <2>2. CASE os[a] \in mem[s]
    <3>1. CASE mem[s] \subseteq mem'[s]
      BY <1>2, <2>2, <3>1
    <3>2. CASE \E r \in Call : Forget(s, r)
      <4>. PICK r \in Call : Forget(s, r)
        BY <3>2
      <4>1. call[s][r].cur # os[a]
        BY <1>2 DEF Forget, Gone, InPlace
      <4>. QED BY <1>2, <2>2, <4>1 DEF Forget, Remaining, TypeOK
    <3>. QED BY <2>1, <3>1, <3>2, SessionFrame
  <2>3. CASE applyPc[s] = "added" /\ applying[s] = os[a]
    <3>1. ASSUME Reboot PROVE FALSE
      <4>1. stage'[s] = "crashed"
        BY <2>1, <3>1 DEF Reboot
      <4>. QED BY <4>1 DEF Live
    <3>. QED BY <1>2, <2>3, <3>1, AddedFrame
  <2>. QED BY <1>2, <2>1, <2>2, <2>3 DEF Tracked
<1>. QED BY <1>1, <1>2, OsFrame

LEMMA IInvStep == IInv /\ [Next]_vars => IInv'
  BY TypeStep, NumberedStep, UnrecordedStep, InPlaceStep, GoneStep, UnstartedStep, TrackedStep
     DEF IInv

\* Whatever fails, whoever restores concurrently, and however many processes
\* share the journal: while a process lives, every address it has put on the
\* interface is in its #changes, or the apply that added it has not resumed yet.
THEOREM AlwaysTracked == Spec => []Tracked
<1>1. IInv => Tracked
  BY DEF IInv
<1>. QED BY <1>1, IInvInit, IInvStep, PTL DEF Spec

-----------------------------------------------------------------------------
(* A process at its end *)

\* Shutdown begins by itself, once run() is over.
Unsignalled == "signal" \notin Faults

\* What restore call v has still to remove.
Ahead(v) ==
  IF v.pc \in {"removing", "removed"} THEN v.todo \union {v.cur}
  ELSE IF v.pc \in {"loop", "persisting"} THEN v.todo
  ELSE {}

\* What is in memory is ahead of restore call r, unless a removal failed; what
\* it deletes is the journal of an empty memory.
Covers(s, r) ==
  /\ call[s][r].pc = "idle" \/ call[s][r].failed \/ mem[s] \subseteq Ahead(call[s][r])
  /\ call[s][r].pc = "deleting" => mem[s] = {}

\* One thing at a time: an apply is made by an open process, the leftovers are
\* restored before, one shutdown restores after it, and nothing is pushed meanwhile.
InTurn(s) ==
  /\ stage[s] \notin {"open", "crashed"} => applyPc[s] = "idle"
  /\ stage[s] \in {"off", "starting", "recovering", "open", "failed"} =>
       \A r \in ShutdownCall : call[s][r].pc = "idle"
  /\ stage[s] \in {"off", "starting", "open", "failed", "closing"} => call[s]["startup"].pc = "idle"
  /\ \A r, q \in ShutdownCall : call[s][r].pc # "idle" /\ call[s][q].pc # "idle" => r = q
  /\ Live(s) => \A r \in Call : Covers(s, r)

Turns == \A s \in Session : InTurn(s)

LEMMA TurnsInit == Init => Turns
  BY DEF Init, Turns, InTurn, Covers, Live, IdleCall, Call

\* A process of which nothing moves stays in turn, and so does one that merely
\* forgets.
LEMMA TurnRests ==
  ASSUME TypeOK, NEW s \in Session, InTurn(s),
         stage'[s] = stage[s], applyPc'[s] = applyPc[s], call'[s] = call[s],
         mem'[s] \subseteq mem[s]
  PROVE  InTurn(s)'
<1>1. Live(s)' = Live(s)
  BY DEF Live
<1>2. ASSUME NEW r \in Call, Covers(s, r) PROVE Covers(s, r)'
  BY <1>2 DEF Covers
<1>. QED BY <1>1, <1>2 DEF InTurn

LEMMA TurnsStart ==
  ASSUME TypeOK, Turns, NEW s \in Session, Start(s) \/ LoadJournal(s)
  PROVE  Turns'
<1>. USE DEF Turns
<1>1. ASSUME NEW t \in Session, t # s PROVE InTurn(t)'
  <2>1. /\ stage'[t] = stage[t] /\ applyPc' = applyPc
        /\ mem'[t] = mem[t]
    BY <1>1 DEF Start, LoadJournal, TypeOK
  <2>2. call'[t] = call[t]
    BY <1>1 DEF Start, LoadJournal, SetCall, TypeOK, CallOK
  <2>. QED BY <2>1, <2>2, TurnRests
<1>2. CASE Start(s)
  <2>1. \A r \in Call : call[s][r].pc = "idle"
    BY <1>2 DEF Start, InTurn, Call
  <2>2. InTurn(s)'
    BY <1>2, <2>1 DEF Start, InTurn, Covers, Call, TypeOK
  <2>. QED BY <1>1, <2>2
<1>3. CASE LoadJournal(s) /\ file.changes = {}
  <2>1. /\ stage' = [stage EXCEPT ![s] = "open"] /\ UNCHANGED <<call, applyPc>>
        /\ \A r \in Call : call[s][r].pc = "idle"
    BY <1>3 DEF LoadJournal, InTurn, Call
  <2>2. InTurn(s)'
    BY <1>3, <2>1 DEF InTurn, Covers, Call, TypeOK
  <2>. QED BY <1>1, <2>2
<1>4. CASE LoadJournal(s) /\ file.changes # {}
  <2>1. /\ stage' = [stage EXCEPT ![s] = "recovering"] /\ UNCHANGED applyPc
        /\ mem'[s] = file.changes
        /\ SetCall(s, "startup", StartedCall(file.changes))
        /\ applyPc[s] = "idle"
        /\ \A r \in Call : call[s][r].pc = "idle"
    BY <1>4 DEF LoadJournal, InTurn, Call, TypeOK
  <2>2. \A r \in Call : call'[s][r] =
          IF r = "startup" THEN StartedCall(file.changes) ELSE call[s][r]
    BY <2>1, SetCallValue DEF TypeOK, Call
  <2>3. StartedCall(file.changes).pc = "loop" /\ StartedCall(file.changes).todo = file.changes
    BY DEF StartedCall, IdleCall
  <2>4. \A r \in Call : Covers(s, r)'
    BY <2>1, <2>2, <2>3 DEF Covers, Ahead
  <2>5. stage'[s] = "recovering" /\ applyPc'[s] = "idle"
    BY <2>1 DEF TypeOK
  <2>6. \A r \in ShutdownCall : call'[s][r].pc = "idle"
    BY <2>1, <2>2, CallAssumption DEF Call
  <2>7. InTurn(s)'
    BY <2>4, <2>5, <2>6 DEF InTurn
  <2>. QED BY <1>1, <2>7
<1>. QED BY <1>2, <1>3, <1>4

LEMMA TurnsApply ==
  ASSUME TypeOK, Turns, NEW s \in Session, ApplyStep(s)
  PROVE  Turns'
<1>. USE DEF Turns
<1>0. UNCHANGED <<call, stage>>
  BY DEF ApplyStep, ApplyStart, SnapshotDone, SnapshotFails, AddLands, AddFails, Record,
         ApplyReturns
<1>1. /\ \A t \in Session : t # s => applyPc'[t] = applyPc[t] /\ mem'[t] = mem[t]
      /\ applyPc'[s] # "idle" => applyPc[s] # "idle" \/ stage[s] = "open"
  BY DEF ApplyStep, ApplyStart, SnapshotDone, SnapshotFails, AddLands, AddFails, Record,
         ApplyReturns, TypeOK, ApplyOK
<1>2. ASSUME NEW t \in Session, t # s PROVE InTurn(t)'
  BY <1>0, <1>1, <1>2, TurnRests
<1>3. Live(s)' = Live(s)
  BY <1>0 DEF Live
<1>4. \A r \in Call : Live(s) => Covers(s, r)'
  <2>1. CASE mem' = mem
    BY <1>0, <2>1 DEF Covers, InTurn
  <2>2. CASE Record(s)
    <3>1. Live(s) => stage[s] = "open"
      BY <2>2 DEF Record, InTurn, Live
    <3>2. Live(s) => \A r \in Call : call[s][r].pc = "idle"
      BY <3>1 DEF InTurn, Call
    <3>. QED BY <1>0, <3>2 DEF Covers
  <2>. QED BY <2>1, <2>2 DEF ApplyStep, ApplyStart, SnapshotDone, SnapshotFails, AddLands,
                             AddFails, ApplyReturns
<1>5. InTurn(s)'
  BY <1>0, <1>1, <1>3, <1>4 DEF InTurn
<1>. QED BY <1>2, <1>5

LEMMA TurnsWrite ==
  ASSUME TypeOK, Turns, NEW s \in Session, NEW j \in Job, WriteStep(s, j)
  PROVE  Turns'
<1>1. UNCHANGED <<stage, applyPc, call, mem>>
  BY DEF WriteStep, TruncateJournal, WriteJournal, WriteFails
<1>. QED BY <1>1, TurnRests DEF Turns

\* What a step of restore makes of its call.
Moved(s, r, v) ==
  LET c == call[s][r] IN
  \/ /\ NextRemoval(s, r)
     /\ c.pc = "loop" /\ v.pc = "removing"
     /\ v.cur \in c.todo /\ v.todo = c.todo \ {v.cur} /\ v.failed = c.failed
  \/ /\ RemoveLands(s, r)
     /\ c.pc = "removing" /\ v.pc = "removed"
     /\ v.cur = c.cur /\ v.todo = c.todo /\ v.failed = c.failed
  \/ /\ RemoveFails(s, r)
     /\ c.pc = "removing" /\ v.pc = "loop" /\ v.failed /\ v.todo = c.todo
  \/ /\ Forget(s, r)
     /\ c.pc = "removed" /\ v.pc = "persisting"
     /\ v.cur = c.cur /\ v.todo = c.todo /\ v.failed = c.failed
  \/ /\ NextIteration(s, r)
     /\ c.pc = "persisting" /\ v.pc = "loop" /\ v.todo = c.todo /\ v.failed = c.failed
  \/ /\ BeginDelete(s, r)
     /\ c.pc = "loop" /\ v.pc = "deleting" /\ v.failed = c.failed
  \/ /\ KeepJournal(s, r) \/ DeleteJournal(s, r)
     /\ c.pc = IF KeepJournal(s, r) THEN "loop" ELSE "deleting"
     /\ v.pc = IF r = "startup" THEN "idle" ELSE "done"
     /\ r # "startup" => v.failed = c.failed

LEMMA RestoreMoves ==
  ASSUME TypeOK, NEW s \in Session, NEW r \in Call, RestoreStep(s, r)
  PROVE  \E v \in CallState : SetCall(s, r, v) /\ Moved(s, r, v)
<1>0. call[s][r] \in CallState
  BY DEF TypeOK, CallOK
<1>. DEFINE At(pc) == [call[s][r] EXCEPT !.pc = pc]
<1>1. \A pc \in {"removed", "persisting", "loop", "deleting"} :
         /\ At(pc) \in CallState /\ At(pc).todo = call[s][r].todo
         /\ At(pc).pc = pc /\ At(pc).cur = call[s][r].cur /\ At(pc).failed = call[s][r].failed
  BY <1>0 DEF CallState
<1>2. CASE NextRemoval(s, r)
  <2>. PICK d \in call[s][r].todo :
         SetCall(s, r, [call[s][r] EXCEPT !.pc = "removing", !.cur = d, !.todo = @ \ {d}])
    BY <1>2 DEF NextRemoval
  <2>. DEFINE v == [call[s][r] EXCEPT !.pc = "removing", !.cur = d, !.todo = @ \ {d}]
  <2>1. /\ v \in CallState /\ v.cur = d /\ v.todo = call[s][r].todo \ {d}
        /\ v.pc = "removing" /\ v.failed = call[s][r].failed
    BY <1>0 DEF CallState
  <2>2. SetCall(s, r, v) /\ call[s][r].pc = "loop"
    BY <1>2 DEF NextRemoval
  <2>. HIDE DEF v
  <2>. QED BY <1>2, <2>1, <2>2 DEF Moved
<1>3. CASE RemoveLands(s, r)
  <2>1. SetCall(s, r, At("removed")) /\ call[s][r].pc = "removing"
    BY <1>3 DEF RemoveLands
  <2>. HIDE DEF At
  <2>. QED BY <1>1, <1>3, <2>1 DEF Moved
<1>4. CASE RemoveFails(s, r)
  <2>. DEFINE v == [call[s][r] EXCEPT !.pc = "loop", !.failed = TRUE]
  <2>1. v \in CallState /\ v.todo = call[s][r].todo /\ v.pc = "loop" /\ v.failed
    BY <1>0 DEF CallState
  <2>2. SetCall(s, r, v) /\ call[s][r].pc = "removing"
    BY <1>4 DEF RemoveFails
  <2>. HIDE DEF v
  <2>. QED BY <1>4, <2>1, <2>2 DEF Moved
<1>5. CASE Forget(s, r)
  <2>1. SetCall(s, r, At("persisting")) /\ call[s][r].pc = "removed"
    BY <1>5 DEF Forget
  <2>. HIDE DEF At
  <2>. QED BY <1>1, <1>5, <2>1 DEF Moved
<1>6. CASE NextIteration(s, r)
  <2>1. SetCall(s, r, At("loop")) /\ call[s][r].pc = "persisting"
    BY <1>6 DEF NextIteration
  <2>. HIDE DEF At
  <2>. QED BY <1>1, <1>6, <2>1 DEF Moved
<1>7. CASE BeginDelete(s, r)
  <2>1. SetCall(s, r, At("deleting")) /\ call[s][r].pc = "loop"
    BY <1>7 DEF BeginDelete
  <2>. HIDE DEF At
  <2>. QED BY <1>1, <1>7, <2>1 DEF Moved
<1>8. CASE KeepJournal(s, r) \/ DeleteJournal(s, r)
  <2>1. /\ RestoreEnds(s, r)
        /\ call[s][r].pc = IF KeepJournal(s, r) THEN "loop" ELSE "deleting"
    BY <1>8 DEF KeepJournal, DeleteJournal
  <2>. DEFINE v == [DoneCall EXCEPT !.failed = call[s][r].failed]
  <2>2. v \in CallState /\ v.pc = "done" /\ v.failed = call[s][r].failed
    BY <1>0, Constructors DEF DoneCall, IdleCall, CallState
  <2>3. SetCall(s, r, IF r = "startup" THEN IdleCall ELSE v)
    BY <2>1 DEF RestoreEnds
  <2>. HIDE DEF v
  <2>. QED BY <1>8, <2>1, <2>2, <2>3, Constructors DEF Moved
<1>. QED BY <1>2, <1>3, <1>4, <1>5, <1>6, <1>7, <1>8 DEF RestoreStep

\* A restore of leftovers that ends lets the process go on, or fails it.
LEMMA RestoreStages ==
  ASSUME TypeOK, NEW s \in Session, NEW r \in Call, RestoreStep(s, r)
  PROVE  \/ UNCHANGED stage
         \/ /\ r = "startup" /\ (KeepJournal(s, r) \/ DeleteJournal(s, r))
            /\ stage[s] = "recovering"
            /\ stage' = [stage EXCEPT ![s] = IF call[s][r].failed THEN "failed" ELSE "open"]
<1>1. CASE UNCHANGED stage
  BY <1>1
<1>2. CASE (KeepJournal(s, r) \/ DeleteJournal(s, r)) /\ ~UNCHANGED stage
  BY <1>2 DEF KeepJournal, DeleteJournal, RestoreEnds, TypeOK
<1>. QED BY <1>1, <1>2 DEF RestoreStep, NextRemoval, RemoveLands, RemoveFails, Forget,
                           NextIteration, BeginDelete

LEMMA TurnsRestore ==
  ASSUME TypeOK, Turns, NEW s \in Session, NEW r \in Call, RestoreStep(s, r)
  PROVE  Turns'
<1>. USE DEF Turns
<1>1. PICK v \in CallState : SetCall(s, r, v) /\ Moved(s, r, v)
  BY RestoreMoves
<1>2. \A t \in Session, q \in Call : call'[t][q] = IF t = s /\ q = r THEN v ELSE call[t][q]
  BY <1>1, SetCallValue DEF TypeOK
<1>3. UNCHANGED applyPc
  BY DEF RestoreStep, NextRemoval, RemoveLands, RemoveFails, Forget, NextIteration,
         KeepJournal, BeginDelete, DeleteJournal
<1>4. \A t \in Session : mem'[t] = IF t = s /\ Forget(s, r) THEN Remaining(s, r) ELSE mem[t]
  BY DEF RestoreStep, NextRemoval, RemoveLands, RemoveFails, Forget, NextIteration,
         KeepJournal, BeginDelete, DeleteJournal, TypeOK
<1>5. ASSUME NEW t \in Session, t # s PROVE InTurn(t)'
  <2>1. stage'[t] = stage[t]
    BY <1>5, RestoreStages DEF TypeOK
  <2>2. call'[t] = call[t]
    BY <1>1, <1>5 DEF SetCall, TypeOK, CallOK
  <2>. QED BY <1>3, <1>4, <1>5, <2>1, <2>2, TurnRests
<1>6. ASSUME NEW q \in Call, Covers(s, q) PROVE Covers(s, q)'
  <2>1. CASE q # r
    BY <1>2, <1>4, <1>6, <2>1 DEF Covers, Remaining
  <2>2. CASE q = r
    <3>. DEFINE c == call[s][r]
    <3>1. call'[s][r] = v /\ (c.pc = "idle" \/ c.failed \/ mem[s] \subseteq Ahead(c))
      BY <1>2, <1>6, <2>2 DEF Covers
    <3>4. v.pc = "deleting" => mem'[s] = {}
      BY <1>1, <1>4 DEF Moved, BeginDelete, Forget
    <3>. SUFFICES v.pc = "idle" \/ v.failed \/ mem'[s] \subseteq Ahead(v)
      BY <2>2, <3>1, <3>4 DEF Covers
    <3>2. CASE Forget(s, r)
      <4>1. c.pc = "removed" /\ v.pc = "persisting" /\ v.todo = c.todo /\ v.failed = c.failed
        BY <1>1, <3>2 DEF Moved, Forget, NextRemoval, RemoveLands, RemoveFails, NextIteration,
                          KeepJournal, BeginDelete, DeleteJournal
      <4>2. mem'[s] = mem[s] \ {c.cur}
        BY <1>4, <3>2 DEF Remaining
      <4>. QED BY <3>1, <4>1, <4>2 DEF Ahead
    <3>3. CASE ~Forget(s, r)
      <4>1. mem'[s] = mem[s]
        BY <1>4, <3>3
      <4>2. CASE BeginDelete(s, r) \/ DeleteJournal(s, r) \/ KeepJournal(s, r)
        <5>1. CASE BeginDelete(s, r)
          BY <4>1, <5>1 DEF BeginDelete
        <5>2. CASE KeepJournal(s, r) \/ DeleteJournal(s, r)
          <6>1. mem[s] # {} => c.pc # "idle" /\ (c.failed \/ mem[s] \subseteq Ahead(c))
            BY <3>1, <5>2 DEF KeepJournal, DeleteJournal
          <6>2. Ahead(c) = {}
            BY <5>2 DEF KeepJournal, DeleteJournal, Ahead
          <6>3. v.pc = "idle" \/ v.failed = c.failed
            BY <1>1, <5>2 DEF Moved, Forget, NextRemoval, RemoveLands, RemoveFails,
                              NextIteration, KeepJournal, BeginDelete, DeleteJournal
          <6>. QED BY <4>1, <6>1, <6>2, <6>3
        <5>. QED BY <4>2, <5>1, <5>2
      <4>3. CASE ~(BeginDelete(s, r) \/ DeleteJournal(s, r) \/ KeepJournal(s, r))
        BY <1>1, <3>1, <3>3, <4>1, <4>3 DEF Moved, Ahead
      <4>. QED BY <4>2, <4>3
    <3>. QED BY <3>2, <3>3
  <2>. QED BY <2>1, <2>2
<1>7. call[s][r].pc # "idle"
  BY <1>1 DEF Moved
<1>8. InTurn(s)'
  <2>1. Live(s)' => Live(s)
    BY RestoreStages DEF Live, TypeOK
  <2>2. CASE UNCHANGED stage
    <3>1. \A q \in Call : call'[s][q].pc # "idle" => call[s][q].pc # "idle"
      BY <1>2, <1>7
    <3>. QED BY <1>3, <1>6, <2>1, <2>2, <3>1 DEF InTurn, Call
  <2>3. CASE /\ r = "startup" /\ (KeepJournal(s, r) \/ DeleteJournal(s, r))
             /\ stage[s] = "recovering"
             /\ stage' = [stage EXCEPT ![s] = IF call[s][r].failed THEN "failed" ELSE "open"]
    <3>1. stage'[s] \in {"failed", "open"}
      BY <2>3 DEF TypeOK
    <3>2. call'[s]["startup"].pc = "idle"
      BY <1>1, <1>2, <2>3 DEF Moved, NextRemoval, RemoveLands, RemoveFails, Forget,
                              NextIteration, KeepJournal, BeginDelete, DeleteJournal
    <3>3. \A q \in ShutdownCall : call'[s][q] = call[s][q]
      BY <1>2, <2>3, CallAssumption DEF Call
    <3>. QED BY <1>3, <1>6, <2>1, <2>3, <3>1, <3>2, <3>3 DEF InTurn, Call
  <2>. QED BY <2>2, <2>3, RestoreStages
<1>. QED BY <1>5, <1>8

LEMMA TurnsShutdown ==
  ASSUME Unsignalled, TypeOK, Turns, NEW s \in Session, NEW r \in ShutdownCall, Shutdown(s, r)
  PROVE  Turns'
<1>. USE DEF Turns
<1>. DEFINE v == IF mem[s] = {} THEN DoneCall ELSE StartedCall(mem[s])
<1>1. stage[s] \in {"open", "failed"} /\ applyPc[s] = "idle" /\ stage'[s] = "closing"
  BY DEF Unsignalled, Shutdown, TypeOK
<1>2. \A q \in Call : call[s][q].pc = "idle"
  BY <1>1 DEF InTurn, Call
<1>3. SetCall(s, r, v) /\ r \in Call
  BY DEF Shutdown, Call
<1>4. (v.pc = "idle" \/ v.failed \/ mem[s] \subseteq Ahead(v)) /\ v.pc # "deleting"
  BY DEF StartedCall, DoneCall, IdleCall, Ahead
<1>. HIDE DEF v
<1>5. \A t \in Session, q \in Call : call'[t][q] = IF t = s /\ q = r THEN v ELSE call[t][q]
  BY <1>3, SetCallValue DEF TypeOK
<1>6. UNCHANGED <<mem, applyPc>>
  BY DEF Shutdown
<1>7. \A q \in Call : Covers(s, q)'
  BY <1>2, <1>4, <1>5, <1>6 DEF Covers
<1>8. call'[s]["startup"].pc = "idle" /\ \A q \in ShutdownCall : q # r => call'[s][q].pc = "idle"
  BY <1>2, <1>5, CallAssumption DEF Call
<1>9. InTurn(s)'
  BY <1>1, <1>6, <1>7, <1>8 DEF InTurn
<1>10. ASSUME NEW t \in Session, t # s PROVE InTurn(t)'
  <2>1. stage'[t] = stage[t]
    BY <1>10 DEF Shutdown, TypeOK
  <2>2. call'[t] = call[t]
    BY <1>3, <1>10 DEF SetCall, TypeOK, CallOK
  <2>. QED BY <1>6, <2>1, <2>2, TurnRests
<1>. QED BY <1>9, <1>10

LEMMA TurnsEnd ==
  ASSUME TypeOK, Turns,
         \/ \E s \in Session : Exit(s) \/ Crash(s)
         \/ Reboot
         \/ \E a \in Addr : Flush(a) \/ UserAdds(a)
         \/ UNCHANGED vars
  PROVE  Turns'
<1>. USE DEF Turns
<1>1. CASE \E s \in Session : Exit(s) \/ Crash(s)
  <2>. PICK s \in Session : Exit(s) \/ Crash(s)
    BY <1>1
  <2>1. /\ UNCHANGED <<applyPc, call>>
        /\ stage'[s] = IF Exit(s) THEN "exited" ELSE "crashed"
        /\ Exit(s) => stage[s] = "closing"
        /\ \A t \in Session : t # s => stage'[t] = stage[t] /\ mem'[t] = mem[t]
    BY DEF Exit, Crash, LosesMemory, TypeOK
  <2>2. InTurn(s)'
    BY <2>1 DEF InTurn, Live
  <2>3. \A t \in Session : t # s => InTurn(t)'
    BY <2>1, TurnRests
  <2>. QED BY <2>2, <2>3
<1>2. CASE Reboot
  BY <1>2 DEF Reboot, InTurn, Covers, Live, IdleCall, Call
<1>3. CASE UNCHANGED <<stage, applyPc, call, mem>>
  BY <1>3, TurnRests
<1>. QED BY <1>1, <1>2, <1>3 DEF Flush, UserAdds, vars

LEMMA TurnsStep == Unsignalled /\ TypeOK /\ Turns /\ [Next]_vars => Turns'
<1>. SUFFICES ASSUME Unsignalled, TypeOK, Turns, [Next]_vars PROVE Turns'
  OBVIOUS
<1>. QED BY TurnsStart, TurnsApply, TurnsWrite, TurnsRestore, TurnsShutdown, TurnsEnd DEF Next

\* A shutdown that is over without a failure has nothing left in memory.
LEMMA DoneForgot ==
  ASSUME TypeOK, Turns, NEW s \in Session, Live(s), NEW r \in ShutdownCall,
         call[s][r].pc = "done", ~call[s][r].failed
  PROVE  mem[s] = {}
  BY DEF Turns, InTurn, Covers, Ahead, Call

\* The end of a process, and what is left of it later.
LEMMA NothingLeftStep ==
  Unsignalled /\ IInv /\ Turns /\ NothingLeftAfterExit /\ [Next]_vars => NothingLeftAfterExit'
<1>. SUFFICES ASSUME Unsignalled, IInv, Turns, NothingLeftAfterExit, [Next]_vars,
                     NEW s \in Session, stage'[s] = "exited",
                     NEW a \in Addr, os'[a] \in Change, os'[a].by = s
              PROVE  \E r \in ShutdownCall : call'[s][r].failed
  BY DEF NothingLeftAfterExit
<1>. USE DEF IInv
<1>1. CASE stage[s] = "exited"
  <2>1. os'[a] = os[a]
    <3>1. applyPc[s] = "idle"
      BY <1>1 DEF Turns, InTurn
    <3>2. ~\E t \in Session : AddLands(t) /\ os'[a] = applying[t]
      BY <3>1 DEF AddLands, TypeOK, ApplyOK
    <3>. QED BY <3>2, OsFrame
  <2>2. PICK r \in ShutdownCall : call[s][r].failed
    BY <1>1, <2>1 DEF NothingLeftAfterExit
  <2>3. ~Live(s)
    BY <1>1 DEF Live
  <2>4. CASE Reboot
    BY <2>1, <2>4, NoneAssumption DEF Reboot
  <2>5. CASE call'[s] = call[s]
    BY <2>2, <2>5
  <2>6. CASE \E t \in Session, q \in Call : RestoreStep(t, q)
    <3>. PICK t \in Session, q \in Call : RestoreStep(t, q)
      BY <2>6
    <3>1. PICK v \in CallState : SetCall(t, q, v) /\ Moved(t, q, v)
      BY RestoreMoves
    <3>2. call'[s][r] = IF s = t /\ r = q THEN v ELSE call[s][r]
      BY <3>1, SetCallValue DEF TypeOK, Call
    <3>3. s = t => RemoveLands(t, q) \/ RemoveFails(t, q)
      BY <2>3 DEF RestoreStep, NextRemoval, Forget, NextIteration, KeepJournal, BeginDelete,
                  DeleteJournal
    <3>4. s = t /\ r = q => v.failed
      BY <2>2, <3>1, <3>3 DEF Moved, NextRemoval, RemoveLands, RemoveFails, Forget,
                              NextIteration, KeepJournal, BeginDelete, DeleteJournal
    <3>. QED BY <2>2, <3>2, <3>4
  <2>7. ASSUME NEW t \in Session, ApplyStep(t) PROVE UNCHANGED call
    BY <2>7 DEF ApplyStep, ApplyStart, SnapshotDone, SnapshotFails, AddLands, AddFails,
                Record, ApplyReturns
  <2>8. ASSUME NEW t \in Session, NEW j \in Job, WriteStep(t, j) PROVE UNCHANGED call
    BY <2>8 DEF WriteStep, TruncateJournal, WriteJournal, WriteFails
  <2>9. ASSUME NEW t \in Session, LoadJournal(t) PROVE call'[s] = call[s]
    BY <1>1, <2>9 DEF LoadJournal, SetCall, TypeOK, CallOK
  <2>10. ASSUME NEW t \in Session, NEW q \in ShutdownCall, Shutdown(t, q)
         PROVE  call'[s] = call[s]
    BY <1>1, <2>10 DEF Shutdown, SetCall, TypeOK, CallOK
  <2>. QED BY <2>4, <2>5, <2>6, <2>7, <2>8, <2>9, <2>10
       DEF Next, vars, Start, Exit, Crash, Flush, UserAdds
<1>2. CASE stage[s] # "exited"
  <2>1. Exit(s)
    <3>1. ASSUME NEW t \in Session, ApplyStep(t) PROVE UNCHANGED stage
      BY <3>1 DEF ApplyStep, ApplyStart, SnapshotDone, SnapshotFails, AddLands, AddFails,
                  Record, ApplyReturns
    <3>2. ASSUME NEW t \in Session, NEW j \in Job, WriteStep(t, j) PROVE UNCHANGED stage
      BY <3>2 DEF WriteStep, TruncateJournal, WriteJournal, WriteFails
    <3>3. ASSUME NEW t \in Session, NEW r \in Call, RestoreStep(t, r)
          PROVE  stage'[s] # "exited"
      BY <1>2, <3>3, RestoreStages DEF TypeOK
    <3>4. ASSUME NEW t \in Session,
                 \/ Start(t) \/ LoadJournal(t) \/ Crash(t)
                 \/ \E r \in ShutdownCall : Shutdown(t, r)
          PROVE  stage'[s] # "exited"
      BY <1>2, <3>4 DEF Start, LoadJournal, Crash, Shutdown, TypeOK
    <3>5. ASSUME NEW t \in Session, Exit(t) PROVE t = s
      BY <1>2, <3>5 DEF Exit, TypeOK
    <3>6. ~Reboot
      BY <1>2 DEF Reboot
    <3>. QED BY <1>2, <3>1, <3>2, <3>3, <3>4, <3>5, <3>6 DEF Next, vars, Flush, UserAdds
  <2>2. stage[s] = "closing" /\ Live(s) /\ UNCHANGED <<os, call>> /\ applyPc[s] = "idle"
    BY <2>1 DEF Exit, Live, Turns, InTurn
  <2>3. PICK r \in ShutdownCall : call[s][r].pc = "done"
    BY <2>1 DEF Exit
  <2>4. os[a] \in mem[s]
    BY <2>2 DEF Tracked
  <2>. QED BY <2>2, <2>3, <2>4, DoneForgot
<1>. QED BY <1>1, <1>2

\* Unless a signal shuts it down under way, a process that has exited has left
\* none of its addresses behind, or has reported a removal that failed: whatever
\* else fails, whatever others do to the journal, however many changes it made.
THEOREM NothingEverLeftAfterExit == Unsignalled => (Spec => []NothingLeftAfterExit)
<1>. SUFFICES ASSUME Unsignalled PROVE Spec => []NothingLeftAfterExit
  OBVIOUS
<1>1. Init => IInv /\ Turns /\ NothingLeftAfterExit
  BY IInvInit, TurnsInit DEF Init, NothingLeftAfterExit
<1>2. IInv /\ Turns /\ NothingLeftAfterExit /\ [Next]_vars => (IInv /\ Turns /\ NothingLeftAfterExit)'
  BY IInvStep, TurnsStep, NothingLeftStep DEF IInv
<1>. QED BY <1>1, <1>2, PTL DEF Spec

-----------------------------------------------------------------------------
(* The journal *)

Orderly == Faults \intersect {"signal", "torn", "write", "concurrent"} = {}

Alone == \A s, t \in Session : Live(s) /\ Live(t) => s = t

\* A write belongs to an operation that waits for it, in a process that lives.
Awaited(s) ==
  /\ ~Live(s) => \A j \in Job : writer[s][j].pc = "none"
  /\ writer[s]["apply"].pc # "none" => applyPc[s] = "persisting"
  /\ \A r \in Call : writer[s][r].pc # "none" => call[s][r].pc = "persisting"

Working(s) == Live(s) /\ stage[s] # "starting"

\* The journal, or the write under way, says what is in memory; until it has
\* truncated the journal, that is one change away.
Written(s) ==
  /\ (\A j \in Job : writer[s][j].pc = "none") => file.changes = mem[s]
  /\ \A j \in Job : writer[s][j].pc # "none" => writer[s][j].snap = mem[s]
  /\ \A j \in Job : writer[s][j].pc = "write" => file = Torn
  /\ writer[s]["apply"].pc = "open" => mem[s] = file.changes \union {applying[s]}
  /\ \A r \in Call : writer[s][r].pc = "open" => mem[s] = file.changes \ {call[s][r].cur}

\* The apply of change c has not got as far as the end of its own write.
Fresh(c) == applyPc[c.by] \in {"added", "persisting"}

\* Whoever works knows what is on the interface; when nobody does, the journal does.
Known ==
  \A a \in Addr : os[a] \in Change /\ ~Fresh(os[a]) =>
    /\ \A s \in Session : Working(s) => os[a] \in mem[s]
    /\ (\A s \in Session : ~Working(s)) => os[a] \in file.changes

\* Nothing that a dead process left is there once the leftovers are restored.
Cleared ==
  \A s \in Session : stage[s] = "open" =>
    \A a \in Addr : os[a] \in Change => Live(os[a].by) \/ Fresh(os[a])

Journaled ==
  /\ Alone
  /\ \A s \in Session : Awaited(s)
  /\ \A s \in Session : Working(s) => Written(s)
  /\ Known
  /\ Cleared

LEMMA JournaledInit == Init => Journaled
  BY NoneAssumption
     DEF Init, Journaled, Alone, Live, Working, Awaited, Known, Cleared, NoWrite, Call, Job

\* In a live process only one operation waits for a write.
LEMMA OneWaits ==
  ASSUME TypeOK, Turns, NEW s \in Session, Live(s), Awaited(s),
         NEW j \in Job, writer[s][j].pc # "none",
         NEW r \in Call, call[s][r].pc # "idle"
  PROVE  j = r
<1>1. CASE j = "apply"
  <2>1. stage[s] = "open"
    BY <1>1 DEF Awaited, Turns, InTurn, Live
  <2>. QED BY <2>1 DEF Turns, InTurn, Call
<1>2. CASE j \in Call
  <2>1. call[s][j].pc # "idle"
    BY <1>2 DEF Awaited
  <2>. QED BY <1>2, <2>1 DEF Turns, InTurn, Call, Live
<1>. QED BY <1>1, <1>2 DEF Job

LEMMA NoneWaits ==
  ASSUME TypeOK, Turns, NEW s \in Session, Live(s), Awaited(s), applyPc[s] # "idle",
         NEW r \in Call
  PROVE  writer[s][r].pc = "none" /\ stage[s] = "open"
<1>1. stage[s] = "open"
  BY DEF Turns, InTurn, Live
<1>2. call[s][r].pc = "idle"
  BY <1>1 DEF Turns, InTurn, Call
<1>. QED BY <1>1, <1>2 DEF Awaited

LEMMA OneWrites ==
  ASSUME TypeOK, Turns, NEW s \in Session, Live(s), Awaited(s),
         NEW j \in Job, writer[s][j].pc # "none",
         NEW k \in Job, writer[s][k].pc # "none"
  PROVE  j = k
<1>1. CASE j = "apply" /\ k # "apply"
  BY <1>1, NoneWaits DEF Awaited, Job
<1>2. CASE k = "apply" /\ j # "apply"
  BY <1>2, NoneWaits DEF Awaited, Job
<1>3. CASE j \in Call /\ k \in Call
  <2>1. call[s][k].pc # "idle"
    BY <1>3 DEF Awaited
  <2>. QED BY <1>3, <2>1, OneWaits
<1>. QED BY <1>1, <1>2, <1>3 DEF Job

\* While memory, journal and writes rest, so does what they say of each other.
LEMMA WrittenRests ==
  ASSUME TypeOK, NEW s \in Session, Written(s), Awaited(s),
         mem'[s] = mem[s], file' = file, writer'[s] = writer[s],
         applyPc[s] = "persisting" => applying'[s] = applying[s],
         \A r \in Call : call[s][r].pc = "persisting" /\ writer[s][r].pc # "none" =>
                          call'[s][r] = call[s][r]
  PROVE  Written(s)'
  BY DEF Written, Awaited, Job

\* What is on the interface is known as long as it is in memory.
LEMMA KnownRests ==
  ASSUME TypeOK, Known,
         \A a \in Addr : os'[a] \in Change /\ ~Fresh(os[a])' => os'[a] = os[a] /\ ~Fresh(os[a]),
         \A s \in Session : stage'[s] = stage[s] /\ mem[s] \subseteq mem'[s],
         file' = file \/ \E s \in Session : Working(s)
  PROVE  Known'
<1>1. \A s \in Session : Working(s)' = Working(s)
  BY DEF Working, Live
<1>. QED BY <1>1 DEF Known

LEMMA ClearedRests ==
  ASSUME TypeOK, Cleared,
         \A a \in Addr : os'[a] \in Change /\ ~Fresh(os[a])' => os'[a] = os[a] /\ ~Fresh(os[a]),
         stage' = stage
  PROVE  Cleared'
<1>1. \A s \in Session : Live(s)' = Live(s)
  BY DEF Live
<1>2. \A a \in Addr : os'[a] \in Change => os'[a].by \in Session
  BY DEF Change
<1>. QED BY <1>1, <1>2 DEF Cleared

LEMMA AloneStep == Orderly /\ TypeOK /\ Alone /\ [Next]_vars => Alone'
<1>. SUFFICES ASSUME Orderly, TypeOK, Alone, [Next]_vars PROVE Alone'
  OBVIOUS
<1>1. CASE \E s \in Session : Start(s)
  <2>. PICK s \in Session : Start(s)
    BY <1>1
  <2>1. \A t \in Session : ~Live(t)
    BY DEF Start, Orderly
  <2>2. \A t \in Session : t # s => stage'[t] = stage[t]
    BY DEF Start, TypeOK
  <2>. QED BY <2>1, <2>2 DEF Alone, Live
<1>2. CASE ~\E s \in Session : Start(s)
  <2>1. \A s \in Session : Live(s)' => Live(s)
    <3>1. ASSUME NEW s \in Session, Live(s)', ~Live(s) PROVE FALSE
      <4>1. ASSUME NEW t \in Session, ApplyStep(t) PROVE UNCHANGED stage
        BY <4>1 DEF ApplyStep, ApplyStart, SnapshotDone, SnapshotFails, AddLands, AddFails,
                    Record, ApplyReturns
      <4>2. ASSUME NEW t \in Session, NEW j \in Job, WriteStep(t, j) PROVE UNCHANGED stage
        BY <4>2 DEF WriteStep, TruncateJournal, WriteJournal, WriteFails
      <4>3. ASSUME NEW t \in Session, NEW r \in Call, RestoreStep(t, r)
            PROVE  stage'[s] = stage[s] \/ Live(s)
        BY <4>3, RestoreStages DEF TypeOK, Live
      <4>4. ASSUME NEW t \in Session,
                   \/ LoadJournal(t) \/ Exit(t) \/ Crash(t)
                   \/ \E r \in ShutdownCall : Shutdown(t, r)
            PROVE  stage'[s] = stage[s] \/ Live(s)
        BY <4>4 DEF LoadJournal, Exit, Crash, Shutdown, TypeOK, Live
      <4>5. Reboot => stage'[s] = stage[s]
        BY <3>1 DEF Reboot
      <4>. QED BY <1>2, <3>1, <4>1, <4>2, <4>3, <4>4, <4>5 DEF Next, vars, Flush, UserAdds, Live
    <3>. QED BY <3>1
  <2>. QED BY <2>1 DEF Alone
<1>. QED BY <1>1, <1>2

-----------------------------------------------------------------------------
JInv == IInv /\ Turns /\ Journaled

LEMMA JournaledStart ==
  ASSUME Orderly, JInv, Alone', NEW s \in Session, Start(s)
  PROVE  Journaled'
<1>. USE DEF JInv, IInv, Journaled
<1>1. /\ \A t \in Session : ~Live(t)
      /\ stage'[s] = "starting"
      /\ \A t \in Session : t # s => stage'[t] = stage[t]
      /\ UNCHANGED <<os, file, mem, applyPc, applying, call, writer>>
  BY DEF Start, Orderly, TypeOK
<1>2. \A t \in Session : ~Working(t) /\ ~Working(t)'
  BY <1>1 DEF Working, Live
<1>3. \A t \in Session : Awaited(t)'
  BY <1>1 DEF Awaited
<1>4. Known'
  BY <1>1, <1>2 DEF Known, Fresh
<1>5. \A t \in Session : stage'[t] # "open"
  BY <1>1 DEF Live
<1>. QED BY <1>2, <1>3, <1>4, <1>5 DEF Cleared

LEMMA JournaledLoad ==
  ASSUME Orderly, JInv, Alone', NEW s \in Session, LoadJournal(s)
  PROVE  Journaled'
<1>. USE DEF JInv, IInv, Journaled
<1>1. /\ stage[s] = "starting" /\ Live(s) /\ applyPc[s] = "idle"
      /\ \A r \in Call : call[s][r].pc = "idle"
  BY DEF LoadJournal, Live, Turns, InTurn, Call
<1>2. \A j \in Job : writer[s][j].pc = "none"
  BY <1>1 DEF Awaited, Job
<1>3. /\ mem'[s] = file.changes
      /\ stage'[s] = IF file.changes = {} THEN "open" ELSE "recovering"
      /\ \A t \in Session : t # s => stage'[t] = stage[t] /\ mem'[t] = mem[t]
      /\ \A t \in Session : t # s => call'[t] = call[t]
      /\ UNCHANGED <<os, file, applyPc, applying, writer>>
  BY DEF LoadJournal, SetCall, TypeOK, CallOK
<1>4. /\ \A t \in Session : ~Working(t)
      /\ \A t \in Session : t # s => ~Working(t)'
  BY <1>1, <1>3 DEF Alone, Working, Live
<1>5. \A t \in Session : Awaited(t)'
  <2>1. Awaited(s)'
    BY <1>1, <1>2, <1>3 DEF Awaited, Job
  <2>2. ASSUME NEW t \in Session, t # s PROVE Awaited(t)'
    BY <1>3, <2>2 DEF Awaited, Live
  <2>. QED BY <2>1, <2>2
<1>6. Written(s)'
  BY <1>2, <1>3 DEF Written, Job
<1>7. Known'
  <2>1. Working(s)'
    BY <1>3 DEF Working, Live
  <2>. QED BY <1>3, <1>4, <2>1 DEF Known, Fresh
<1>8. Cleared'
  <2>1. ASSUME NEW t \in Session, stage'[t] = "open" PROVE t = s /\ file.changes = {}
    BY <1>1, <1>3, <2>1 DEF Alone, Live
  <2>. QED BY <1>3, <1>4, <2>1 DEF Cleared, Known, Fresh
<1>. QED BY <1>4, <1>5, <1>6, <1>7, <1>8

\* In an apply nothing changes that is on record, until it records.
LEMMA JournaledApply ==
  ASSUME Orderly, JInv, Alone', NEW s \in Session, ApplyStep(s), ~Record(s)
  PROVE  Journaled'
<1>. USE DEF JInv, IInv, Journaled
<1>1. UNCHANGED <<file, stage, mem, call, writer>>
  BY DEF ApplyStep, ApplyStart, SnapshotDone, SnapshotFails, AddLands, AddFails, ApplyReturns
<1>2. /\ \A t \in Session : t # s => applyPc'[t] = applyPc[t] /\ applying'[t] = applying[t]
      /\ applyPc[s] = "persisting" => Live(s) /\ writer[s]["apply"].pc = "none"
      /\ applying'[s] = applying[s] \/ applyPc[s] = "idle"
  BY DEF ApplyStep, ApplyStart, SnapshotDone, SnapshotFails, AddLands, AddFails, ApplyReturns,
         TypeOK, ApplyOK
<1>3. \A t \in Session : Live(t)' = Live(t) /\ Working(t)' = Working(t)
  BY <1>1 DEF Live, Working
<1>4. \A t \in Session : Awaited(t)'
  BY <1>1, <1>2, <1>3 DEF Awaited
<1>5. \A t \in Session : Working(t) => Written(t)'
  BY <1>1, <1>2, WrittenRests
<1>6. CASE ~ApplyReturns(s)
  <2>1. ASSUME NEW a \in Addr, os'[a] \in Change, ~Fresh(os[a])'
        PROVE  os'[a] = os[a] /\ ~Fresh(os[a])
    <3>1. CASE AddLands(s)
      BY <2>1, <3>1 DEF AddLands, Fresh, TypeOK, ApplyOK, Change
    <3>2. CASE ~AddLands(s)
      <4>1. UNCHANGED os /\ (applyPc[s] \in {"added", "persisting"} => applyPc' = applyPc)
        BY <1>6, <3>2 DEF ApplyStep, ApplyStart, SnapshotDone, SnapshotFails, AddFails
      <4>2. os[a].by \in Session
        BY <2>1, <4>1 DEF Change
      <4>. QED BY <1>2, <2>1, <4>1, <4>2 DEF Fresh
    <3>. QED BY <3>1, <3>2
  <2>. QED BY <1>1, <1>3, <1>4, <1>5, <2>1, KnownRests, ClearedRests
<1>7. CASE ApplyReturns(s)
  <2>1. /\ Live(s) /\ applyPc[s] = "persisting" /\ stage[s] = "open" /\ Working(s)
        /\ UNCHANGED os
    BY <1>7, NoneWaits DEF ApplyReturns, Working, Call
  <2>2. \A a \in Addr : os[a] \in Change /\ os[a].by = s => os[a] \in mem[s]
    BY <2>1 DEF Tracked
  <2>3. \A c \in Change : ~Fresh(c)' => ~Fresh(c) \/ c.by = s
    BY <1>2 DEF Fresh, Change
  <2>4. \A t \in Session : Live(t) => t = s
    BY <2>1 DEF Alone
  <2>5. Known'
    BY <1>1, <1>3, <2>1, <2>2, <2>3, <2>4 DEF Known, Working, Fresh
  <2>6. Cleared'
    BY <1>1, <1>3, <2>1, <2>3 DEF Cleared, Fresh, Change
  <2>. QED BY <1>3, <1>4, <1>5, <2>5, <2>6
<1>. QED BY <1>6, <1>7

LEMMA JournaledRecord ==
  ASSUME Orderly, JInv, Alone', NEW s \in Session, Record(s)
  PROVE  Journaled'
<1>. USE DEF JInv, IInv, Journaled
<1>. DEFINE known == mem[s] \union {applying[s]}
<1>1. /\ UNCHANGED <<os, file, stage, call, applying>>
      /\ Live(s) /\ applyPc[s] = "added" /\ applyPc'[s] = "persisting"
      /\ \A t \in Session : t # s => applyPc'[t] = applyPc[t] /\ mem'[t] = mem[t]
      /\ mem'[s] = known
      /\ SetWriter(s, "apply", Write(known))
  BY DEF Record, TypeOK, ApplyOK
<1>2. /\ stage[s] = "open" /\ Working(s)
      /\ \A j \in Job : writer[s][j].pc = "none"
  BY <1>1, NoneWaits DEF Awaited, Job, Working, Call
<1>3. \A t \in Session, j \in Job :
        writer'[t][j] = IF t = s /\ j = "apply" THEN Write(known) ELSE writer[t][j]
  <2>1. "apply" \in Job
    BY DEF Job
  <2>. QED BY <1>1, <2>1, SetWriterValue DEF TypeOK
<1>4. \A t \in Session : Live(t)' = Live(t) /\ Working(t)' = Working(t) /\ (Live(t) => t = s)
  BY <1>1 DEF Live, Working, Alone
<1>5. Write(known).pc = "open" /\ Write(known).snap = known
  BY DEF Write
<1>. HIDE DEF known
<1>6. \A t \in Session : Awaited(t)'
  <2>1. Awaited(s)'
    BY <1>1, <1>2, <1>3, <1>4, CallAssumption DEF Awaited, Job, Call
  <2>2. ASSUME NEW t \in Session, t # s PROVE Awaited(t)'
    BY <1>1, <1>3, <1>4, <2>2 DEF Awaited, Job
  <2>. QED BY <2>1, <2>2
<1>7. Written(s)'
  <2>1. file.changes = mem[s]
    BY <1>2 DEF Written
  <2>2. \A j \in Job : j # "apply" => writer'[s][j].pc = "none"
    BY <1>2, <1>3
  <2>3. writer'[s]["apply"] = Write(known) /\ "apply" \in Job
    BY <1>3 DEF Job
  <2>4. "apply" \notin Call
    BY CallAssumption DEF Call
  <2>. QED BY <1>1, <1>5, <2>1, <2>2, <2>3, <2>4 DEF Written, known, Job
<1>8. ASSUME NEW a \in Addr, os'[a] \in Change, ~Fresh(os[a])'
      PROVE  os'[a] = os[a] /\ ~Fresh(os[a])
  <2>1. os[a].by \in Session
    BY <1>1, <1>8 DEF Change
  <2>. QED BY <1>1, <1>8, <2>1 DEF Fresh
<1>9. \A t \in Session : mem[t] \subseteq mem'[t]
  BY <1>1 DEF known
<1>10. Known' /\ Cleared'
  BY <1>1, <1>8, <1>9, KnownRests, ClearedRests
<1>. QED BY <1>4, <1>6, <1>7, <1>10 DEF Working

LEMMA JournaledWrite ==
  ASSUME Orderly, JInv, Alone', NEW s \in Session, NEW j \in Job, WriteStep(s, j)
  PROVE  Journaled'
<1>. USE DEF JInv, IInv, Journaled
<1>1. /\ Live(s) /\ writer[s][j].pc # "none"
      /\ UNCHANGED <<os, stage, mem, applyPc, applying, call>>
      /\ TruncateJournal(s, j) \/ WriteJournal(s, j)
  BY DEF Orderly, WriteStep, TruncateJournal, WriteJournal, WriteFails
<1>2. Working(s)
  <2>1. stage[s] # "starting"
    BY <1>1 DEF Awaited, Job, Turns, InTurn, Call
  <2>. QED BY <1>1, <2>1 DEF Working
<1>3. PICK v \in WriteState : /\ SetWriter(s, j, v)
                              /\ v = IF TruncateJournal(s, j)
                                     THEN [writer[s][j] EXCEPT !.pc = "write"] ELSE NoWrite
  <2>1. [writer[s][j] EXCEPT !.pc = "write"] \in WriteState
    BY DEF TypeOK, WriteState
  <2>. QED BY <1>1, <2>1, Constructors DEF TruncateJournal, WriteJournal
<1>4. \A t \in Session, k \in Job : writer'[t][k] = IF t = s /\ k = j THEN v ELSE writer[t][k]
  BY <1>3, SetWriterValue DEF TypeOK
<1>5. \A k \in Job : k # j => writer[s][k].pc = "none"
  BY <1>1, OneWrites
<1>6. \A t \in Session : Live(t)' = Live(t) /\ Working(t)' = Working(t) /\ (Live(t) => t = s)
  BY <1>1 DEF Live, Working, Alone
<1>7. \A t \in Session : Awaited(t)'
  <2>1. ASSUME NEW t \in Session, NEW k \in Job, writer'[t][k].pc # "none"
        PROVE  writer[t][k].pc # "none"
    BY <1>1, <1>4, <2>1
  <2>. QED BY <1>1, <1>6, <2>1 DEF Awaited, Job, Call
<1>8. Written(s)'
  <2>1. writer[s][j].snap = mem[s] /\ writer[s][j] \in WriteState
    BY <1>1, <1>2 DEF Written, TypeOK
  <2>2. CASE TruncateJournal(s, j)
    <3>1. v.pc = "write" /\ v.snap = mem[s]
      BY <1>3, <2>1, <2>2 DEF WriteState
    <3>2. file' = Torn
      BY <2>2 DEF TruncateJournal
    <3>. QED BY <1>1, <1>4, <1>5, <3>1, <3>2 DEF Written, Job
  <2>3. CASE ~TruncateJournal(s, j)
    <3>1. writer[s][j].pc = "write" /\ v.pc = "none"
      BY <1>1, <1>3, <2>3 DEF WriteJournal, NoWrite
    <3>2. file.st = "torn"
      BY <1>2, <3>1 DEF Written, Torn
    <3>3. file' = Saved(mem[s])
      BY <1>1, <2>1, <2>3, <3>2 DEF WriteJournal
    <3>. QED BY <1>1, <1>4, <1>5, <3>1, <3>3 DEF Written, Saved, Job
  <2>. QED BY <2>2, <2>3
<1>9. Known' /\ Cleared'
  BY <1>1, <1>2, KnownRests, ClearedRests DEF Fresh
<1>. QED BY <1>6, <1>7, <1>8, <1>9 DEF Working

\* A restore that neither forgets nor ends touches nothing on record.
LEMMA JournaledRemoval ==
  ASSUME Orderly, JInv, Alone', NEW s \in Session, NEW r \in Call,
         \/ NextRemoval(s, r) \/ RemoveLands(s, r) \/ RemoveFails(s, r)
         \/ NextIteration(s, r) \/ BeginDelete(s, r)
  PROVE  Journaled'
<1>. USE DEF JInv, IInv, Journaled
<1>1. /\ UNCHANGED <<file, stage, mem, applyPc, applying, writer>>
      /\ call[s][r].pc = "persisting" => writer[s][r].pc = "none"
  BY DEF NextRemoval, RemoveLands, RemoveFails, NextIteration, BeginDelete
<1>2. PICK v \in CallState : SetCall(s, r, v)
  BY RestoreMoves DEF RestoreStep
<1>3. \A t \in Session, q \in Call : call'[t][q] = IF t = s /\ q = r THEN v ELSE call[t][q]
  BY <1>2, SetCallValue DEF TypeOK
<1>4. \A t \in Session : Live(t)' = Live(t) /\ Working(t)' = Working(t)
  BY <1>1 DEF Live, Working
<1>5. \A t \in Session : Awaited(t)'
  BY <1>1, <1>3, <1>4 DEF Awaited, Job
<1>6. \A t \in Session : Working(t) => Written(t)'
  BY <1>1, <1>3, WrittenRests
<1>7. \A a \in Addr : os'[a] \in Change => os'[a] = os[a]
  <2>1. os' = os \/ os' = [os EXCEPT ![call[s][r].cur.addr] = None]
    BY DEF NextRemoval, RemoveLands, RemoveFails, NextIteration, BeginDelete
  <2>. QED BY <2>1, NoneAssumption DEF TypeOK
<1>8. \A a \in Addr : os'[a] \in Change /\ ~Fresh(os[a])' => os'[a] = os[a] /\ ~Fresh(os[a])
  BY <1>1, <1>7 DEF Fresh
<1>. QED BY <1>1, <1>4, <1>5, <1>6, <1>8, KnownRests, ClearedRests

LEMMA JournaledForget ==
  ASSUME Orderly, JInv, Alone', NEW s \in Session, NEW r \in Call, Forget(s, r)
  PROVE  Journaled'
<1>. USE DEF JInv, IInv, Journaled
<1>. DEFINE left == mem[s] \ {call[s][r].cur}
<1>1. /\ UNCHANGED <<os, file, stage, applyPc, applying>>
      /\ Live(s) /\ call[s][r].pc = "removed"
      /\ \A t \in Session : t # s => mem'[t] = mem[t]
      /\ mem'[s] = left
      /\ SetWriter(s, r, Write(left)) /\ r \in Job
      /\ SetCall(s, r, [call[s][r] EXCEPT !.pc = "persisting"])
  BY DEF Forget, Remaining, TypeOK, Job
<1>2. /\ Working(s)
      /\ \A j \in Job : writer[s][j].pc = "none"
  <2>1. \A j \in Job : writer[s][j].pc = "none"
    BY <1>1, OneWaits DEF Awaited
  <2>2. stage[s] # "starting"
    BY <1>1 DEF Turns, InTurn, Call
  <2>. QED BY <1>1, <2>1, <2>2 DEF Working
<1>3. \A t \in Session, j \in Job :
        writer'[t][j] = IF t = s /\ j = r THEN Write(left) ELSE writer[t][j]
  BY <1>1, SetWriterValue DEF TypeOK
<1>4. \A t \in Session : Live(t)' = Live(t) /\ Working(t)' = Working(t) /\ (Live(t) => t = s)
  BY <1>1 DEF Live, Working, Alone
<1>5. Write(left).pc = "open" /\ Write(left).snap = left
  BY DEF Write
<1>6. /\ call'[s][r].pc = "persisting" /\ call'[s][r].cur = call[s][r].cur
      /\ \A t \in Session : t # s => call'[t] = call[t]
  <2>1. call[s][r] \in CallState
    BY DEF TypeOK, CallOK
  <2>2. /\ [call[s][r] EXCEPT !.pc = "persisting"].pc = "persisting"
        /\ [call[s][r] EXCEPT !.pc = "persisting"].cur = call[s][r].cur
    BY <2>1 DEF CallState
  <2>. QED BY <1>1, <2>2 DEF SetCall, TypeOK, CallOK
<1>7. \A t \in Session : Awaited(t)'
  <2>1. Awaited(s)'
    BY <1>1, <1>2, <1>3, <1>4, <1>6, CallAssumption DEF Awaited, Job, Call
  <2>2. ASSUME NEW t \in Session, t # s PROVE Awaited(t)'
    BY <1>1, <1>3, <1>4, <1>6, <2>2 DEF Awaited, Job
  <2>. QED BY <2>1, <2>2
<1>8. Written(s)'
  <2>1. file.changes = mem[s]
    BY <1>2 DEF Written
  <2>2. \A j \in Job : j # r => writer'[s][j].pc = "none"
    BY <1>2, <1>3
  <2>3. writer'[s][r] = Write(left)
    BY <1>1, <1>3
  <2>4. r # "apply"
    BY CallAssumption DEF Call
  <2>. QED BY <1>1, <1>5, <1>6, <2>1, <2>2, <2>3, <2>4 DEF Written, Job
<1>9. Known'
  <2>1. ASSUME NEW a \in Addr, os[a] \in Change, ~Fresh(os[a]) PROVE os[a] \in left
    <3>1. os[a] \in mem[s]
      BY <1>2, <2>1 DEF Known
    <3>2. os[a] # call[s][r].cur
      BY <1>1, <2>1 DEF Gone, InPlace
    <3>. QED BY <3>1, <3>2
  <2>. HIDE DEF left
  <2>. QED BY <1>1, <1>2, <1>4, <2>1 DEF Known, Fresh, Working
<1>10. Cleared'
  BY <1>1, <1>4 DEF Cleared, Fresh, Change
<1>. QED BY <1>4, <1>7, <1>8, <1>9, <1>10 DEF Working

LEMMA JournaledEnd ==
  ASSUME Orderly, JInv, Alone', NEW s \in Session, NEW r \in Call,
         KeepJournal(s, r) \/ DeleteJournal(s, r)
  PROVE  Journaled'
<1>. USE DEF JInv, IInv, Journaled
<1>1. /\ UNCHANGED <<os, mem, applyPc, applying, writer>>
      /\ Live(s) /\ call[s][r].pc \in {"loop", "deleting"}
  BY DEF KeepJournal, DeleteJournal
<1>2. PICK v \in CallState : SetCall(s, r, v)
  BY RestoreMoves DEF RestoreStep
<1>3. \A t \in Session, q \in Call : call'[t][q] = IF t = s /\ q = r THEN v ELSE call[t][q]
  BY <1>2, SetCallValue DEF TypeOK
<1>4. Working(s) /\ \A j \in Job : writer[s][j].pc = "none"
  <2>1. \A j \in Job : writer[s][j].pc = "none"
    BY <1>1, OneWaits DEF Awaited
  <2>2. stage[s] # "starting"
    BY <1>1 DEF Turns, InTurn, Call
  <2>. QED BY <1>1, <2>1, <2>2 DEF Working
<1>5. \A t \in Session : Live(t)' = Live(t) /\ Working(t)' = Working(t) /\ (Live(t) => t = s)
  BY <1>1, RestoreStages DEF Live, Working, Alone, RestoreStep, TypeOK
<1>6. \A t \in Session : Awaited(t)'
  BY <1>1, <1>3, <1>4, <1>5 DEF Awaited, Job
<1>7. file'.changes = mem[s]
  <2>1. file.changes = mem[s]
    BY <1>4 DEF Written
  <2>2. CASE KeepJournal(s, r)
    BY <2>1, <2>2 DEF KeepJournal
  <2>3. CASE DeleteJournal(s, r)
    <3>1. mem[s] = {}
      BY <1>1, <2>3 DEF Turns, InTurn, Covers, DeleteJournal
    <3>. QED BY <2>3, <3>1 DEF DeleteJournal, Missing, Orderly
  <2>. QED BY <2>2, <2>3
<1>8. Written(s)'
  BY <1>1, <1>4, <1>7 DEF Written, Job
<1>9. Known'
  BY <1>1, <1>4, <1>5, <1>7 DEF Known, Fresh
<1>10. Cleared'
  <2>1. CASE UNCHANGED stage
    BY <1>1, <1>5, <2>1 DEF Cleared, Fresh, Change
  <2>2. CASE /\ r = "startup"
             /\ stage' = [stage EXCEPT ![s] = IF call[s][r].failed THEN "failed" ELSE "open"]
    <3>1. call[s][r].failed \/ mem[s] = {}
      <4>1. call[s][r].failed \/ mem[s] \subseteq Ahead(call[s][r])
        BY <1>1 DEF Turns, InTurn, Covers
      <4>2. Ahead(call[s][r]) = {}
        BY DEF KeepJournal, DeleteJournal, Ahead
      <4>. QED BY <4>1, <4>2
    <3>2. CASE call[s][r].failed
      <4>1. \A t \in Session : stage'[t] # "open"
        BY <1>4, <1>5, <2>2, <3>2 DEF Live, TypeOK
      <4>. QED BY <4>1 DEF Cleared
    <3>3. CASE mem[s] = {}
      BY <1>1, <1>4, <3>3 DEF Cleared, Known, Fresh
    <3>. QED BY <3>1, <3>2, <3>3
  <2>. QED BY <2>1, <2>2, RestoreStages DEF RestoreStep
<1>. QED BY <1>5, <1>6, <1>8, <1>9, <1>10 DEF Working

LEMMA JournaledShutdown ==
  ASSUME Orderly, JInv, Alone', NEW s \in Session, NEW r \in ShutdownCall, Shutdown(s, r)
  PROVE  Journaled'
<1>. USE DEF JInv, IInv, Journaled
<1>. DEFINE v == IF mem[s] = {} THEN DoneCall ELSE StartedCall(mem[s])
<1>1. /\ UNCHANGED <<os, file, mem, applyPc, applying, writer>>
      /\ stage[s] \in {"open", "failed"} /\ stage'[s] = "closing"
      /\ \A t \in Session : t # s => stage'[t] = stage[t]
      /\ call[s][r].pc = "idle" /\ r \in Call
      /\ SetCall(s, r, v)
  BY DEF Orderly, Shutdown, TypeOK, Call
<1>2. \A t \in Session, q \in Call : t # s \/ q # r => call'[t][q] = call[t][q]
  BY <1>1, SetCallValue DEF TypeOK
<1>3. \A t \in Session : Live(t)' = Live(t) /\ Working(t)' = Working(t)
  BY <1>1 DEF Live, Working
<1>4. \A t \in Session : Awaited(t)'
  BY <1>1, <1>2, <1>3 DEF Awaited, Job
<1>5. \A t \in Session : Working(t) => Written(t)'
  BY <1>1, <1>2, WrittenRests
<1>6. Known' /\ Cleared'
  BY <1>1, <1>3 DEF Known, Cleared, Fresh, Change
<1>. QED BY <1>3, <1>4, <1>5, <1>6

LEMMA JournaledExit ==
  ASSUME Orderly, JInv, Alone', NEW s \in Session, Exit(s) \/ Crash(s)
  PROVE  Journaled'
<1>. USE DEF JInv, IInv, Journaled
<1>1. /\ UNCHANGED <<os, file, applyPc, applying, call>>
      /\ Live(s) /\ MayStop(s)
      /\ stage'[s] \in {"exited", "crashed"}
      /\ \A t \in Session : t # s => stage'[t] = stage[t] /\ writer'[t] = writer[t]
      /\ writer'[s] = [j \in Job |-> NoWrite]
  BY DEF Exit, Crash, LosesMemory, TypeOK, Live
<1>2. \A t \in Session : ~Live(t)' /\ ~Working(t)' /\ (Live(t) => t = s)
  BY <1>1 DEF Live, Alone, Working
<1>3. \A t \in Session : Awaited(t)'
  <2>1. Awaited(s)'
    BY <1>1 DEF Awaited, NoWrite, Job
  <2>2. ASSUME NEW t \in Session, t # s PROVE Awaited(t)'
    BY <1>1, <1>2, <2>2 DEF Awaited
  <2>. QED BY <2>1, <2>2
<1>4. ASSUME NEW a \in Addr, os[a] \in Change, ~Fresh(os[a]) PROVE os[a] \in file.changes
  <2>1. CASE Working(s)
    <3>1. os[a] \in mem[s]
      BY <1>4, <2>1 DEF Known
    <3>2. CASE \A j \in Job : writer[s][j].pc = "none"
      BY <2>1, <3>1, <3>2 DEF Written
    <3>3. CASE \E j \in Job : writer[s][j].pc # "none"
      <4>. PICK j \in Job : writer[s][j].pc # "none"
        BY <3>3
      <4>1. writer[s][j].pc = "open"
        BY <1>1 DEF MayStop, Orderly, TypeOK, WriteState
      <4>2. os[a] \in file.changes \/ (j = "apply" /\ os[a] = applying[s])
        BY <2>1, <3>1, <4>1 DEF Written, Job
      <4>3. ~(j = "apply" /\ os[a] = applying[s])
        BY <1>4 DEF Awaited, Fresh, TypeOK, ApplyOK
      <4>. QED BY <4>2, <4>3
    <3>. QED BY <3>2, <3>3
  <2>2. CASE ~Working(s)
    BY <1>2, <1>4, <2>2 DEF Known, Working
  <2>. QED BY <2>1, <2>2
<1>5. Known'
  BY <1>1, <1>2, <1>4 DEF Known, Fresh
<1>6. Cleared'
  BY <1>2 DEF Cleared, Live
<1>. QED BY <1>2, <1>3, <1>5, <1>6

LEMMA JournaledOutside ==
  ASSUME Orderly, JInv, Alone',
         Reboot \/ (\E a \in Addr : Flush(a) \/ UserAdds(a)) \/ UNCHANGED vars
  PROVE  Journaled'
<1>. USE DEF JInv, IInv, Journaled
<1>1. CASE Reboot
  <2>1. \A a \in Addr : os'[a] \notin Change
    BY <1>1, NoneAssumption DEF Reboot
  <2>2. \A t \in Session : ~Live(t)' /\ ~Working(t)'
    BY <1>1 DEF Reboot, Live, Working
  <2>3. \A t \in Session : Awaited(t)'
    BY <1>1 DEF Reboot, Awaited, NoWrite, Job
  <2>. QED BY <2>1, <2>2, <2>3 DEF Known, Cleared
<1>2. CASE (\E a \in Addr : Flush(a) \/ UserAdds(a)) \/ UNCHANGED vars
  <2>1. UNCHANGED <<file, stage, mem, applyPc, applying, call, writer>>
    BY <1>2 DEF Flush, UserAdds, vars
  <2>2. \A a \in Addr : os'[a] \in Change => os'[a] = os[a]
    BY <1>2, NoneAssumption DEF Flush, UserAdds, vars, TypeOK
  <2>3. \A t \in Session : Working(t)' = Working(t) /\ Live(t)' = Live(t)
    BY <2>1 DEF Working, Live
  <2>4. \A t \in Session : Awaited(t)' /\ (Working(t) => Written(t)')
    BY <2>1, WrittenRests DEF Awaited, Live
  <2>5. \A a \in Addr : os'[a] \in Change /\ ~Fresh(os[a])' => os'[a] = os[a] /\ ~Fresh(os[a])
    BY <2>1, <2>2 DEF Fresh
  <2>. QED BY <2>1, <2>3, <2>4, <2>5, KnownRests, ClearedRests
<1>. QED BY <1>1, <1>2

LEMMA JInvStep == Orderly /\ JInv /\ [Next]_vars => JInv'
<1>. SUFFICES ASSUME Orderly, JInv, [Next]_vars PROVE JInv'
  OBVIOUS
<1>1. IInv'
  BY IInvStep DEF JInv
<1>2. Turns'
  BY TurnsStep DEF JInv, IInv, Orderly, Unsignalled
<1>3. Alone'
  BY AloneStep DEF JInv, IInv, Journaled
<1>4. ASSUME NEW s \in Session, ApplyStep(s) PROVE Journaled'
  BY <1>3, <1>4, JournaledApply, JournaledRecord
<1>5. ASSUME NEW s \in Session, NEW j \in Job, WriteStep(s, j) PROVE Journaled'
  BY <1>3, <1>5, JournaledWrite
<1>6. ASSUME NEW s \in Session, NEW r \in Call, RestoreStep(s, r) PROVE Journaled'
  BY <1>3, <1>6, JournaledRemoval, JournaledForget, JournaledEnd DEF RestoreStep
<1>7. ASSUME NEW s \in Session, \/ Start(s) \/ LoadJournal(s) \/ Exit(s) \/ Crash(s)
                                \/ \E r \in ShutdownCall : Shutdown(s, r)
      PROVE  Journaled'
  BY <1>3, <1>7, JournaledStart, JournaledLoad, JournaledShutdown, JournaledExit
<1>8. ASSUME Reboot \/ (\E a \in Addr : Flush(a) \/ UserAdds(a)) \/ UNCHANGED vars
      PROVE  Journaled'
  <2>. HIDE DEF Journaled
  <2>. QED BY <1>3, <1>8, JournaledOutside
<1>9. Journaled'
  BY <1>4, <1>5, <1>6, <1>7, <1>8 DEF Next
<1>. QED BY <1>1, <1>2, <1>9 DEF JInv

LEMMA JInvAlways == Orderly => (Spec => []JInv)
<1>. SUFFICES ASSUME Orderly PROVE Spec => []JInv
  OBVIOUS
<1>1. Init => JInv
  BY IInvInit, TurnsInit, JournaledInit DEF JInv
<1>2. JInv /\ [Next]_vars => JInv'
  BY JInvStep
<1>. QED BY <1>1, <1>2, PTL DEF Spec

LEMMA RecordedOnDiskHolds ==
  ASSUME JInv
  PROVE  RecordedOnDisk
<1>. SUFFICES ASSUME NEW a \in Addr, os[a] \in Change, ~Fresh(os[a]),
                     \A s \in Session, j \in Job :
                       ~(writer[s][j].pc = "write" /\ os[a] \in writer[s][j].snap)
              PROVE  os[a] \in file.changes
  BY DEF RecordedOnDisk, Fresh
<1>. USE DEF JInv, IInv, Journaled
<1>1. CASE \E s \in Session : Working(s)
  <2>. PICK s \in Session : Working(s)
    BY <1>1
  <2>1. os[a] \in mem[s]
    BY DEF Known
  <2>2. CASE \A j \in Job : writer[s][j].pc = "none"
    BY <2>1, <2>2 DEF Written
  <2>3. CASE \E j \in Job : writer[s][j].pc # "none"
    <3>. PICK j \in Job : writer[s][j].pc # "none"
      BY <2>3
    <3>1. writer[s][j].pc = "open"
      BY <2>1 DEF Written, TypeOK, WriteState
    <3>2. os[a] \in file.changes \/ (j = "apply" /\ os[a] = applying[s])
      BY <2>1, <3>1 DEF Written, Job
    <3>3. ~(j = "apply" /\ os[a] = applying[s])
      BY DEF Awaited, Fresh, TypeOK, ApplyOK
    <3>. QED BY <3>2, <3>3
  <2>. QED BY <2>2, <2>3
<1>2. CASE ~\E s \in Session : Working(s)
  BY <1>2 DEF Known
<1>. QED BY <1>1, <1>2

\* As long as journal writes are neither torn nor refused, and one process runs
\* at a time to its own end or a crash: every Etherfind address on the interface
\* is in the journal, or in the write that is replacing it, save one whose apply
\* has not got as far as the end of its own write.
THEOREM AlwaysRecordedOnDisk == Orderly => (Spec => []RecordedOnDisk)
<1>. SUFFICES ASSUME Orderly PROVE Spec => []RecordedOnDisk
  OBVIOUS
<1>1. JInv => RecordedOnDisk
  BY RecordedOnDiskHolds
<1>2. Spec => []JInv
  BY JInvAlways
<1>. QED BY <1>1, <1>2, PTL

\* Under the same conditions, between operations the journal says what the
\* process holds in memory.
THEOREM JournalAlwaysMatches == Orderly => (Spec => []JournalMatchesMemory)
<1>. SUFFICES ASSUME Orderly PROVE Spec => []JournalMatchesMemory
  OBVIOUS
<1>1. JInv => JournalMatchesMemory
  <2>. SUFFICES ASSUME JInv, NEW s \in Session, Quiet(s) PROVE file.changes = mem[s]
    BY DEF JournalMatchesMemory
  <2>. USE DEF JInv, Journaled
  <2>1. Working(s)
    BY DEF Quiet, Working, Live
  <2>2. \A j \in Job : writer[s][j].pc = "none"
    BY DEF Quiet, Awaited, Job
  <2>. QED BY <2>1, <2>2 DEF Written
<1>2. Spec => []JInv
  BY JInvAlways
<1>. QED BY <1>1, <1>2, PTL

\* Under the same conditions, once the leftovers are restored no dead process
\* has an address on the interface that the journal could have known of.
THEOREM RecoveryLeavesNothing == Orderly => (Spec => []RecoveredNothingLeft)
<1>. SUFFICES ASSUME Orderly PROVE Spec => []RecoveredNothingLeft
  OBVIOUS
<1>1. JInv => RecoveredNothingLeft
  BY DEF JInv, Journaled, Cleared, RecoveredNothingLeft, Fresh
<1>2. Spec => []JInv
  BY JInvAlways
<1>. QED BY <1>1, <1>2, PTL

-----------------------------------------------------------------------------
(* The lease *)

LEMMA LeaseInit == Init => Lease!Init
  BY NoneAssumption DEF Init, Lease!Init, Lent, OnRecord, Lender, Missing, NoWrite

\* No write under way: what is on record is the journal.
LEMMA RecordIsJournal ==
  ASSUME \A s \in Session, j \in Job : writer[s][j].pc # "write",
         file.changes \subseteq Change
  PROVE  OnRecord = file.changes
  BY DEF OnRecord

LEMMA RecordRests ==
  ASSUME file'.changes = file.changes,
         \A s \in Session, j \in Job :
           \/ writer'[s][j] = writer[s][j]
           \/ writer'[s][j].pc # "write" /\ writer[s][j].pc # "write"
  PROVE  OnRecord' = OnRecord
  BY DEF OnRecord

LEMMA LentRests == UNCHANGED os => UNCHANGED Lent
  BY DEF Lent

\* A lender is alone.
LEMMA OneLender ==
  ASSUME Alone, NEW s \in Session, Live(s)
  PROVE  Lender = IF stage[s] = "open" THEN {s} ELSE {}
  BY DEF Alone, Lender, Live

LEMMA LeaseOpens ==
  ASSUME TypeOK, Alone, NEW s \in Session, Live(s), stage[s] # "open",
         \/ stage' = stage
         \/ \E new : new # "open" /\ stage' = [stage EXCEPT ![s] = new]
         \/ stage' = [stage EXCEPT ![s] = "open"] /\ OnRecord = {},
         Lent' = Lent, OnRecord' = OnRecord
  PROVE  [Lease!Next]_(Lease!vars)
<1>1. Lender = {}
  BY OneLender
<1>2. CASE stage' = [stage EXCEPT ![s] = "open"] /\ OnRecord = {}
  <2>1. Lender' = {s}
    BY <1>1, <1>2 DEF Lender, TypeOK
  <2>. QED BY <1>1, <1>2, <2>1 DEF Lease!Next, Lease!Open
<1>3. CASE stage' = stage
  BY <1>3 DEF Lender, Lease!vars
<1>4. CASE \E new : new # "open" /\ stage' = [stage EXCEPT ![s] = new]
  <2>1. Lender' = {}
    BY <1>1, <1>4 DEF Lender, TypeOK
  <2>. QED BY <1>1, <2>1 DEF Lease!vars
<1>. QED BY <1>2, <1>3, <1>4

LEMMA LeaseCloses ==
  ASSUME TypeOK, Alone, NEW s \in Session, Live(s), NEW new, new # "open",
         stage' = [stage EXCEPT ![s] = new],
         Lent' = Lent, OnRecord' = OnRecord
  PROVE  [Lease!Next]_(Lease!vars)
<1>1. Lender' = {}
  BY OneLender DEF Lender, TypeOK
<1>. QED BY <1>1 DEF Lease!Next, Lease!Close

LEMMA LeaseStarts ==
  ASSUME Orderly, JInv, NEW s \in Session, Start(s) \/ LoadJournal(s)
  PROVE  [Lease!Next]_(Lease!vars)
<1>. USE DEF JInv, IInv, Journaled
<1>1. UNCHANGED <<os, file, writer>>
  BY DEF Start, LoadJournal
<1>2. Lent' = Lent /\ OnRecord' = OnRecord
  BY <1>1, LentRests, RecordRests
<1>3. CASE Start(s)
  <2>1. Lender' = Lender
    BY <1>3 DEF Start, Lender, TypeOK
  <2>. QED BY <1>2, <2>1 DEF Lease!vars
<1>4. CASE LoadJournal(s)
  <2>1. /\ Live(s) /\ stage[s] = "starting"
        /\ stage' = [stage EXCEPT ![s] = IF file.changes = {} THEN "open" ELSE "recovering"]
    BY <1>4 DEF LoadJournal, Live
  <2>2. \A t \in Session, j \in Job : writer[t][j].pc = "none"
    BY <2>1 DEF Alone, Awaited, Turns, InTurn, Live, Job, Call
  <2>3. OnRecord = file.changes
    BY <2>2, RecordIsJournal DEF TypeOK
  <2>. QED BY <1>2, <2>1, <2>3, LeaseOpens
<1>. QED BY <1>3, <1>4

LEMMA LeaseLends ==
  ASSUME Orderly, JInv, NEW s \in Session, AddLands(s)
  PROVE  Lease!Lend(applying[s])
<1>. USE DEF JInv, IInv
<1>. DEFINE c == applying[s]
<1>1. c \in Change /\ c.by = s /\ c.addr \in Addr /\ os[c.addr] = None
  BY DEF AddLands, TypeOK, ApplyOK, Change
<1>2. Lent[c.addr] = None
  BY <1>1, NoneAssumption DEF Lent
<1>3. c \notin OnRecord
  BY <1>1 DEF AddLands, Unrecorded, Recorded, OnRecord
<1>4. ASSUME NEW d \in Lease!Loose PROVE d.by # c.by
  <2>. PICK a \in Addr : d = Lent[a]
    BY <1>4 DEF Lease!Loose
  <2>1. d = os[a] /\ os[a] \in Change /\ d \notin OnRecord
    BY <1>4 DEF Lease!Loose, Lent
  <2>2. RecordedOnDisk
    BY RecordedOnDiskHolds
  <2>3. applyPc[d.by] \in {"added", "persisting"}
    BY <2>1, <2>2 DEF RecordedOnDisk, OnRecord
  <2>. QED BY <1>1, <2>3 DEF AddLands
<1>5. Lent' = [Lent EXCEPT ![c.addr] = c]
  BY <1>1 DEF AddLands, Lent, TypeOK
<1>6. UNCHANGED <<OnRecord, Lender>>
  BY RecordRests DEF AddLands, Lender
<1>. QED BY <1>2, <1>3, <1>4, <1>5, <1>6 DEF Lease!Lend

\* Nothing of an apply but its command and its journal write concerns the lease.
LEMMA LeaseApplies ==
  ASSUME Orderly, JInv, NEW s \in Session, ApplyStep(s)
  PROVE  [Lease!Next]_(Lease!vars)
<1>. USE DEF JInv, IInv, Journaled
<1>1. CASE AddLands(s)
  <2>1. applying[s] \in Change
    BY <1>1 DEF AddLands, TypeOK, ApplyOK
  <2>. QED BY <1>1, <2>1, LeaseLends DEF Lease!Next
<1>2. CASE ~AddLands(s)
  <2>1. UNCHANGED <<os, file, stage>> /\ (Record(s) \/ UNCHANGED writer)
    BY <1>2 DEF ApplyStep, ApplyStart, SnapshotDone, SnapshotFails, AddFails, Record, ApplyReturns
  <2>2. OnRecord' = OnRecord
    <3>1. CASE Record(s)
      <4>1. /\ SetWriter(s, "apply", Write(mem[s] \union {applying[s]}))
            /\ writer[s]["apply"].pc = "none" /\ "apply" \in Job
        BY <3>1 DEF Record, Awaited, Job
      <4>2. Write(mem[s] \union {applying[s]}).pc = "open"
        BY DEF Write
      <4>. QED BY <2>1, <4>1, <4>2, SetWriterValue, RecordRests DEF TypeOK
    <3>. QED BY <2>1, <3>1, RecordRests
  <2>. QED BY <2>1, <2>2, LentRests DEF Lender, Lease!vars
<1>. QED BY <1>1, <1>2

\* The truncation of the journal is where a change comes on record or off it.
LEMMA LeaseTruncates ==
  ASSUME Orderly, JInv, NEW s \in Session, NEW j \in Job, TruncateJournal(s, j)
  PROVE  [Lease!Next]_(Lease!vars)
<1>. USE DEF JInv, IInv, Journaled
<1>1. /\ Live(s) /\ writer[s][j].pc = "open"
      /\ file' = Torn /\ UNCHANGED <<os, stage>>
      /\ SetWriter(s, j, [writer[s][j] EXCEPT !.pc = "write"])
  BY DEF TruncateJournal
<1>2. /\ Working(s) /\ writer[s][j].snap = mem[s]
      /\ \A k \in Job : k # j => writer[s][k].pc = "none"
  <2>1. stage[s] # "starting"
    BY <1>1 DEF Awaited, Job, Turns, InTurn, Call
  <2>2. \A k \in Job : k # j => writer[s][k].pc = "none"
    BY <1>1, OneWrites
  <2>. QED BY <1>1, <2>1, <2>2 DEF Working, Written
<1>3. \A t \in Session, k \in Job : t # s => writer[t][k].pc = "none"
  BY <1>1 DEF Alone, Awaited
<1>4. OnRecord = file.changes
  BY <1>1, <1>2, <1>3, RecordIsJournal DEF TypeOK
<1>5. OnRecord' = mem[s]
  <2>1. [writer[s][j] EXCEPT !.pc = "write"].pc = "write"
        /\ [writer[s][j] EXCEPT !.pc = "write"].snap = mem[s]
    BY <1>2 DEF TypeOK, WriteState
  <2>2. \A t \in Session, k \in Job :
          writer'[t][k] = IF t = s /\ k = j THEN [writer[s][j] EXCEPT !.pc = "write"]
                          ELSE writer[t][k]
    BY <1>1, SetWriterValue DEF TypeOK
  <2>3. /\ writer'[s][j].pc = "write" /\ writer'[s][j].snap = mem[s]
        /\ \A t \in Session, k \in Job : t # s \/ k # j => writer'[t][k].pc = "none"
    <3>. DEFINE w == [writer[s][j] EXCEPT !.pc = "write"]
    <3>1. w.pc = "write" /\ w.snap = mem[s]
      BY <2>1
    <3>2. \A t \in Session, k \in Job :
            writer'[t][k] = IF t = s /\ k = j THEN w ELSE writer[t][k]
      BY <2>2
    <3>. HIDE DEF w
    <3>. QED BY <1>2, <1>3, <3>1, <3>2
  <2>4. mem[s] \subseteq Change /\ file'.changes = {}
    BY <1>1 DEF Torn, TypeOK
  <2>. QED BY <2>3, <2>4 DEF OnRecord
<1>6. UNCHANGED <<Lent, Lender>>
  BY <1>1, LentRests DEF Lender
<1>7. CASE j = "apply"
  <2>1. /\ applyPc[s] # "idle" /\ stage[s] = "open"
        /\ mem[s] = file.changes \union {applying[s]}
    BY <1>1, <1>2, <1>7 DEF Awaited, Written, Turns, InTurn, Live
  <2>2. applying[s] \in Change /\ applying[s].by = s
    BY <2>1 DEF TypeOK, ApplyOK
  <2>3. Lender = {s}
    BY <1>1, <2>1, OneLender
  <2>. QED BY <1>4, <1>5, <1>6, <2>1, <2>2, <2>3 DEF Lease!Next, Lease!Note
<1>8. CASE j \in Call
  <2>1. call[s][j].pc = "persisting" /\ mem[s] = file.changes \ {call[s][j].cur}
    BY <1>1, <1>2, <1>8 DEF Awaited, Written
  <2>2. call[s][j].cur \in Change
    BY <1>8, <2>1 DEF TypeOK, CallOK
  <2>3. \A a \in Addr : Lent[a] # call[s][j].cur
    BY <1>8, <2>1, <2>2, NoneAssumption DEF Gone, InPlace, Lent
  <2>. QED BY <1>4, <1>5, <1>6, <2>1, <2>2, <2>3 DEF Lease!Next, Lease!Strike
<1>. QED BY <1>7, <1>8 DEF Job

LEMMA LeaseWrites ==
  ASSUME Orderly, JInv, NEW s \in Session, NEW j \in Job, WriteJournal(s, j)
  PROVE  UNCHANGED Lease!vars
<1>. USE DEF JInv, IInv, Journaled
<1>1. /\ Live(s) /\ writer[s][j].pc = "write"
      /\ UNCHANGED <<os, stage>>
      /\ SetWriter(s, j, NoWrite)
  BY DEF WriteJournal
<1>2. /\ Working(s) /\ writer[s][j].snap = mem[s] /\ file = Torn
      /\ \A k \in Job : k # j => writer[s][k].pc = "none"
  <2>1. stage[s] # "starting"
    BY <1>1 DEF Awaited, Job, Turns, InTurn, Call
  <2>2. \A k \in Job : k # j => writer[s][k].pc = "none"
    BY <1>1, OneWrites
  <2>. QED BY <1>1, <2>1, <2>2 DEF Working, Written
<1>3. \A t \in Session, k \in Job : t # s => writer[t][k].pc = "none"
  BY <1>1 DEF Alone, Awaited
<1>4. OnRecord = mem[s]
  BY <1>1, <1>2, <1>3 DEF OnRecord, Torn, TypeOK
<1>5. OnRecord' = mem[s]
  <2>1. \A t \in Session, k \in Job :
          writer'[t][k] = IF t = s /\ k = j THEN NoWrite ELSE writer[t][k]
    BY <1>1, SetWriterValue DEF TypeOK
  <2>2. \A t \in Session, k \in Job : writer'[t][k].pc # "write"
    BY <1>2, <1>3, <2>1 DEF NoWrite
  <2>3. file'.changes = mem[s]
    BY <1>2 DEF WriteJournal, Saved, Torn
  <2>. QED BY <2>2, <2>3 DEF OnRecord, TypeOK
<1>. QED BY <1>1, <1>4, <1>5, LentRests DEF Lender, Lease!vars

LEMMA LeaseEndsOne ==
  ASSUME TypeOK, NEW a \in Addr, os' = [os EXCEPT ![a] = None],
         UNCHANGED <<file, writer, stage>>
  PROVE  Lease!End(a)
<1>1. Lent' = [Lent EXCEPT ![a] = None]
  BY NoneAssumption DEF Lent, TypeOK
<1>. QED BY <1>1, RecordRests DEF Lease!End, Lender

LEMMA LeaseRestores ==
  ASSUME Orderly, JInv, NEW s \in Session, NEW r \in Call, RestoreStep(s, r)
  PROVE  [Lease!Next]_(Lease!vars)
<1>. USE DEF JInv, IInv, Journaled
<1>1. CASE RemoveLands(s, r)
  <2>1. /\ call[s][r].cur.addr \in Addr
        /\ os' = [os EXCEPT ![call[s][r].cur.addr] = None]
        /\ UNCHANGED <<file, writer, stage>>
    BY <1>1 DEF RemoveLands, TypeOK, CallOK, Change
  <2>. QED BY <2>1, LeaseEndsOne DEF Lease!Next
<1>2. CASE NextRemoval(s, r) \/ RemoveFails(s, r) \/ NextIteration(s, r) \/ BeginDelete(s, r)
  <2>1. UNCHANGED <<os, file, stage, writer>>
    BY <1>2 DEF NextRemoval, RemoveFails, NextIteration, BeginDelete
  <2>. QED BY <2>1, LentRests, RecordRests DEF Lender, Lease!vars
<1>3. CASE Forget(s, r)
  <2>1. /\ UNCHANGED <<os, file, stage>>
        /\ SetWriter(s, r, Write(Remaining(s, r))) /\ r \in Job
        /\ writer[s][r].pc = "none"
    BY <1>3 DEF Forget, Job, Awaited
  <2>2. Write(Remaining(s, r)).pc = "open"
    BY DEF Write
  <2>3. OnRecord' = OnRecord
    BY <2>1, <2>2, SetWriterValue, RecordRests DEF TypeOK
  <2>. QED BY <2>1, <2>3, LentRests DEF Lender, Lease!vars
<1>4. CASE KeepJournal(s, r) \/ DeleteJournal(s, r)
  <2>1. /\ UNCHANGED <<os, mem, writer>>
        /\ Live(s) /\ call[s][r].pc \in {"loop", "deleting"}
    BY <1>4 DEF KeepJournal, DeleteJournal
  <2>2. Working(s) /\ \A t \in Session, j \in Job : writer[t][j].pc = "none"
    <3>1. \A j \in Job : writer[s][j].pc = "none"
      BY <2>1, OneWaits DEF Awaited
    <3>2. stage[s] # "starting"
      BY <2>1 DEF Turns, InTurn, Call
    <3>. QED BY <2>1, <3>1, <3>2 DEF Working, Alone, Awaited
  <2>3. file.changes = mem[s]
    BY <2>2 DEF Written
  <2>4. call[s][r].failed \/ mem[s] = {}
    <3>1. call[s][r].failed \/ mem[s] \subseteq Ahead(call[s][r])
      BY <2>1 DEF Turns, InTurn, Covers
    <3>2. Ahead(call[s][r]) = {}
      BY <1>4 DEF KeepJournal, DeleteJournal, Ahead
    <3>. QED BY <3>1, <3>2
  <2>5. file'.changes = file.changes
    <3>1. CASE KeepJournal(s, r)
      BY <3>1 DEF KeepJournal
    <3>2. CASE DeleteJournal(s, r)
      <4>1. mem[s] = {}
        BY <2>1, <3>2 DEF Turns, InTurn, Covers, DeleteJournal
      <4>. QED BY <2>3, <3>2, <4>1 DEF DeleteJournal, Missing, Orderly
    <3>. QED BY <1>4, <3>1, <3>2
  <2>6. OnRecord' = OnRecord /\ OnRecord = mem[s] /\ Lent' = Lent
    BY <2>1, <2>2, <2>3, <2>5, RecordRests, RecordIsJournal, LentRests DEF TypeOK
  <2>7. CASE UNCHANGED stage
    BY <2>6, <2>7 DEF Lender, Lease!vars
  <2>8. CASE /\ stage[s] = "recovering"
             /\ stage' = [stage EXCEPT ![s] = IF call[s][r].failed THEN "failed" ELSE "open"]
    BY <2>1, <2>4, <2>6, <2>8, LeaseOpens
  <2>. QED BY <2>7, <2>8, RestoreStages
<1>. QED BY <1>1, <1>2, <1>3, <1>4 DEF RestoreStep

LEMMA LeaseStops ==
  ASSUME Orderly, JInv, NEW s \in Session,
         (\E r \in ShutdownCall : Shutdown(s, r)) \/ Exit(s) \/ Crash(s)
  PROVE  [Lease!Next]_(Lease!vars)
<1>. USE DEF JInv, IInv, Journaled
<1>1. /\ Live(s) /\ UNCHANGED <<os, file>>
      /\ \E new \in {"closing", "exited", "crashed"} : stage' = [stage EXCEPT ![s] = new]
  BY DEF Shutdown, Exit, Crash, Live, Orderly
<1>2. OnRecord' = OnRecord
  <2>1. CASE UNCHANGED writer
    BY <1>1, <2>1, RecordRests
  <2>2. CASE MayStop(s) /\ LosesMemory(s)
    <3>1. \A t \in Session, j \in Job :
            writer'[t][j] = IF t = s THEN NoWrite ELSE writer[t][j]
      BY <2>2 DEF LosesMemory, TypeOK
    <3>. QED BY <1>1, <2>2, <3>1, RecordRests DEF MayStop, Orderly, NoWrite
  <2>. QED BY <2>1, <2>2 DEF Shutdown, Exit, Crash
<1>. QED BY <1>1, <1>2, LentRests, LeaseCloses

LEMMA LeaseOutside ==
  ASSUME Orderly, JInv, Reboot \/ \E a \in Addr : Flush(a) \/ UserAdds(a)
  PROVE  [Lease!Next]_(Lease!vars)
<1>. USE DEF JInv, IInv, Journaled
<1>1. CASE Reboot
  <2>1. Lent' = [a \in Addr |-> None]
    BY <1>1, NoneAssumption DEF Reboot, Lent
  <2>2. Lender' = {}
    BY <1>1 DEF Reboot, Lender, Live
  <2>3. \A s \in Session, j \in Job :
          writer[s][j].pc # "write" /\ writer'[s][j].pc # "write"
    BY <1>1 DEF Reboot, MayStop, Orderly, Awaited, NoWrite
  <2>4. OnRecord' = OnRecord
    BY <1>1, <2>3, RecordRests DEF Reboot
  <2>. QED BY <2>1, <2>2, <2>4 DEF Lease!Next, Lease!Restart
<1>2. ASSUME NEW a \in Addr, Flush(a) PROVE Lease!Next
  BY <1>2, LeaseEndsOne DEF Flush, Lease!Next
<1>3. ASSUME NEW a \in Addr, UserAdds(a) PROVE UNCHANGED Lease!vars
  <2>1. Lent' = Lent
    BY <1>3, NoneAssumption DEF UserAdds, Lent, TypeOK
  <2>. QED BY <1>3, <2>1, RecordRests DEF UserAdds, Lender, Lease!vars
<1>. QED BY <1>1, <1>2, <1>3

LEMMA LeaseStep == Orderly /\ JInv /\ [Next]_vars => [Lease!Next]_(Lease!vars)
<1>. SUFFICES ASSUME Orderly, JInv, [Next]_vars PROVE [Lease!Next]_(Lease!vars)
  OBVIOUS
<1>1. ASSUME NEW s \in Session, NEW j \in Job, WriteStep(s, j)
      PROVE  [Lease!Next]_(Lease!vars)
  <2>1. TruncateJournal(s, j) \/ WriteJournal(s, j)
    BY <1>1 DEF WriteStep, WriteFails, Orderly
  <2>. QED BY <2>1, LeaseTruncates, LeaseWrites
<1>2. CASE UNCHANGED vars
  BY <1>2, LentRests, RecordRests DEF vars, Lender, Lease!vars
<1>. QED BY <1>1, <1>2, LeaseStarts, LeaseApplies, LeaseRestores, LeaseStops, LeaseOutside
         DEF Next

\* As long as journal writes are neither torn nor refused, and one process runs
\* at a time to its own end or a crash, the manager implements the lease: each
\* of its steps lends, notes, ends or strikes off as TemporaryLease allows, or
\* is none of the lease's business.
THEOREM ImplementsTheLease == Orderly => (Spec => ImplementsLease)
<1>. SUFFICES ASSUME Orderly PROVE Spec => ImplementsLease
  OBVIOUS
<1>1. JInv /\ [Next]_vars => [Lease!Next]_(Lease!vars)
  BY LeaseStep
<1>2. Spec => []JInv
  BY JInvAlways
<1>. QED BY <1>1, <1>2, LeaseInit, PTL DEF Spec, ImplementsLease, Lease!Spec
=============================================================================
