--------------------------- MODULE CleanupManager ---------------------------
(***************************************************************************)
(* The temporary-address lease of Etherfind: what CleanupManager adds to   *)
(* the interface, remembers in memory, records in the crash journal, and   *)
(* removes again, together with its callers (the engine's startup          *)
(* recovery, its shutdown, the process that exits) and its surroundings    *)
(* (the operating system, the file system, the user).                      *)
(*                                                                         *)
(* One step of this specification runs from one await to the next.  An     *)
(* operation handed to the operating system is a child process: it takes   *)
(* effect in a step of its own, whether or not the Node process that asked *)
(* for it is still alive.                                                  *)
(***************************************************************************)
EXTENDS Integers, FiniteSets

CONSTANTS
  Session,           \* processes; each is started at most once
  Addr,              \* the addresses the suggestion can name, on the one interface
  ShutdownCall,      \* identities of concurrent engine.shutdown() calls
  MaxChanges,        \* bound: applyTemporaryAddress calls over all sessions
  AbsentRemoveFails, \* removing an absent address is an error (Windows), or not (Linux)
  Faults,            \* what may go wrong, a subset of AllFaults
  None,              \* no address, no change
  Foreign            \* an address that somebody else configured

AllFaults ==
  {"signal",     \* Ctrl+C, a signal or a capture failure shuts down at any moment
   "crash",      \* the process dies
   "torn",       \* ... even between truncating the journal and writing it
   "write",      \* a journal write or delete is refused
   "snapshot", "add", "remove",  \* the command fails
   "concurrent", \* a second Etherfind starts while one is running
   "reboot",     \* the machine restarts
   "flush",      \* the network manager drops the temporary address
   "user"}       \* the user configures an address

ASSUME MaxChangesAssumption == MaxChanges \in Nat
ASSUME FaultsAssumption == Faults \subseteq AllFaults
ASSUME AbsentAssumption == AbsentRemoveFails \in BOOLEAN
ASSUME CallAssumption == "startup" \notin ShutdownCall /\ "apply" \notin ShutdownCall

\* "startup" is the restore that run() makes of a leftover journal.
Call == ShutdownCall \union {"startup"}
\* Whoever may have a journal write in flight.
Job == Call \union {"apply"}

\* AppliedChange: the random changeId is a serial number, whose order is the
\* order of the array; "by" is the process that applied it (no field of the code).
Change == [id : 1..MaxChanges, by : Session, addr : Addr]

ASSUME NoneAssumption == None \notin Change /\ Foreign \notin Change /\ None # Foreign

VARIABLES
  os,        \* os[a]: who put address a on the interface, None when it is absent
  file,      \* the journal file
  stage,     \* stage[s]: what process s is doing
  mem,       \* mem[s]: the array #changes, as a set
  applyPc,   \* applyPc[s]: where applyTemporaryAddress is
  applying,  \* applying[s]: the change it is making
  call,      \* call[s][r]: the restore call r
  writer,    \* writer[s][j]: the journal write of job j
  nextId     \* next change number

vars == <<os, file, stage, mem, applyPc, applying, call, writer, nextId>>

Missing == [st |-> "missing", changes |-> {}]
Torn    == [st |-> "torn", changes |-> {}]
Saved(cs) == [st |-> "ok", changes |-> cs]

IdleCall == [pc |-> "idle", todo |-> {}, cur |-> None, failed |-> FALSE]
DoneCall == [IdleCall EXCEPT !.pc = "done"]
StartedCall(cs) == [IdleCall EXCEPT !.pc = "loop", !.todo = cs]
NoWrite  == [pc |-> "none", snap |-> {}]
Write(cs) == [pc |-> "open", snap |-> cs]

SetCall(s, r, state) == call' = [call EXCEPT ![s][r] = state]
SetWriter(s, j, state) == writer' = [writer EXCEPT ![s][j] = state]

Live(s) == stage[s] \in {"starting", "recovering", "open", "failed", "closing"}
\* The process may stop here: unless torn writes are among the faults, not
\* between the truncation and the write of a journal.
MayStop(s) == "torn" \in Faults \/ \A j \in Job : writer[s][j].pc # "write"

\* What process s held in memory, its unfinished writes included, is gone.
LosesMemory(s) ==
  /\ mem' = [mem EXCEPT ![s] = {}]
  /\ writer' = [writer EXCEPT ![s] = [j \in Job |-> NoWrite]]

Init ==
  /\ os = [a \in Addr |-> None]
  /\ file = Missing
  /\ stage = [s \in Session |-> "off"]
  /\ mem = [s \in Session |-> {}]
  /\ applyPc = [s \in Session |-> "idle"]
  /\ applying = [s \in Session |-> None]
  /\ call = [s \in Session |-> [r \in Call |-> IdleCall]]
  /\ writer = [s \in Session |-> [j \in Job |-> NoWrite]]
  /\ nextId = 1

-----------------------------------------------------------------------------
(* Startup: DiscoveryEngine.run, or the --cleanup mode of the command line. *)

Start(s) ==
  /\ stage[s] = "off"
  /\ "concurrent" \in Faults \/ \A t \in Session : ~Live(t)
  /\ stage' = [stage EXCEPT ![s] = "starting"]
  /\ UNCHANGED <<os, file, mem, applyPc, applying, call, writer, nextId>>

\* Mutant: the leftovers are loaded and never restored.
LoadJournalOnly(s) ==
  /\ stage[s] = "starting"
  /\ mem' = [mem EXCEPT ![s] = file.changes]
  /\ stage' = [stage EXCEPT ![s] = "open"]
  /\ UNCHANGED <<os, file, applyPc, applying, call, writer, nextId>>

\* loadJournal, and the restore of what it found.  A missing or unreadable
\* journal leaves nothing to recover.
LoadJournal(s) ==
  LET found == file.changes IN
  /\ stage[s] = "starting"
  /\ mem' = [mem EXCEPT ![s] = found]
  /\ IF found = {}
     THEN /\ stage' = [stage EXCEPT ![s] = "open"]
          /\ UNCHANGED call
     ELSE /\ stage' = [stage EXCEPT ![s] = "recovering"]
          /\ SetCall(s, "startup", StartedCall(found))
  /\ UNCHANGED <<os, file, applyPc, applying, writer, nextId>>

-----------------------------------------------------------------------------
(* applyTemporaryAddress *)

ApplyStart(s, a) ==
  /\ stage[s] = "open"
  /\ applyPc[s] = "idle"
  /\ nextId <= MaxChanges
  /\ applyPc' = [applyPc EXCEPT ![s] = "snapshot"]
  /\ applying' = [applying EXCEPT ![s] = [id |-> nextId, by |-> s, addr |-> a]]
  /\ nextId' = nextId + 1
  /\ UNCHANGED <<os, file, stage, mem, call, writer>>

SnapshotDone(s) ==
  /\ Live(s)
  /\ applyPc[s] = "snapshot"
  /\ applyPc' = [applyPc EXCEPT ![s] = "adding"]
  /\ UNCHANGED <<os, file, stage, mem, applying, call, writer, nextId>>

\* The snapshot throws: nothing was changed, nothing is recorded.
SnapshotFails(s) ==
  /\ "snapshot" \in Faults
  /\ Live(s)
  /\ applyPc[s] = "snapshot"
  /\ applyPc' = [applyPc EXCEPT ![s] = "idle"]
  /\ UNCHANGED <<os, file, stage, mem, applying, call, writer, nextId>>

\* The command puts the address on the interface; its caller does not know yet.
AddLands(s) ==
  LET c == applying[s] IN
  /\ applyPc[s] = "adding"
  /\ os[c.addr] = None
  /\ os' = [os EXCEPT ![c.addr] = c]
  /\ applyPc' = [applyPc EXCEPT ![s] = "added"]
  /\ UNCHANGED <<file, stage, mem, applying, call, writer, nextId>>

\* The command fails: the address exists, or elevation was refused.
AddFails(s) ==
  /\ applyPc[s] = "adding"
  /\ "add" \in Faults \/ os[applying[s].addr] # None
  /\ applyPc' = [applyPc EXCEPT ![s] = "idle"]
  /\ UNCHANGED <<os, file, stage, mem, applying, call, writer, nextId>>

\* Mutant: the journal is written from the array before the push.
RecordLate(s) ==
  /\ Live(s)
  /\ applyPc[s] = "added"
  /\ mem' = [mem EXCEPT ![s] = @ \union {applying[s]}]
  /\ SetWriter(s, "apply", Write(mem[s]))
  /\ applyPc' = [applyPc EXCEPT ![s] = "persisting"]
  /\ UNCHANGED <<os, file, stage, applying, call, nextId>>

\* The change enters #changes, and #persist captures the array it will write.
Record(s) ==
  LET known == mem[s] \union {applying[s]} IN
  /\ Live(s)
  /\ applyPc[s] = "added"
  /\ mem' = [mem EXCEPT ![s] = known]
  /\ SetWriter(s, "apply", Write(known))
  /\ applyPc' = [applyPc EXCEPT ![s] = "persisting"]
  /\ UNCHANGED <<os, file, stage, applying, call, nextId>>

ApplyReturns(s) ==
  /\ Live(s)
  /\ applyPc[s] = "persisting"
  /\ writer[s]["apply"].pc = "none"
  /\ applyPc' = [applyPc EXCEPT ![s] = "idle"]
  /\ UNCHANGED <<os, file, stage, mem, applying, call, writer, nextId>>

-----------------------------------------------------------------------------
(* #persist: fs.writeFile truncates the file, then writes it. *)

TruncateJournal(s, j) ==
  /\ Live(s)
  /\ writer[s][j].pc = "open"
  /\ file' = Torn
  /\ SetWriter(s, j, [writer[s][j] EXCEPT !.pc = "write"])
  /\ UNCHANGED <<os, stage, mem, applyPc, applying, call, nextId>>

\* Over a file that another write has filled since it was truncated, the tail
\* of the longer text may remain.
WriteJournal(s, j) ==
  /\ Live(s)
  /\ writer[s][j].pc = "write"
  /\ \/ file' = Saved(writer[s][j].snap)
     \/ file.st = "ok" /\ file' = Torn
  /\ SetWriter(s, j, NoWrite)
  /\ UNCHANGED <<os, stage, mem, applyPc, applying, call, nextId>>

\* The error of a journal write is swallowed.
WriteFails(s, j) ==
  /\ "write" \in Faults
  /\ Live(s)
  /\ writer[s][j].pc # "none"
  /\ SetWriter(s, j, NoWrite)
  /\ UNCHANGED <<os, file, stage, mem, applyPc, applying, call, nextId>>

-----------------------------------------------------------------------------
(* restore *)

\* The next change of the reversed copy.
NextRemoval(s, r) ==
  /\ Live(s)
  /\ call[s][r].pc = "loop"
  /\ \E c \in call[s][r].todo :
       /\ \A d \in call[s][r].todo : d.id <= c.id
       /\ SetCall(s, r, [call[s][r] EXCEPT !.pc = "removing", !.cur = c, !.todo = @ \ {c}])
  /\ UNCHANGED <<os, file, stage, mem, applyPc, applying, writer, nextId>>

\* The command removes whoever's address this is; on Linux an absent one is fine.
RemoveLands(s, r) ==
  LET a == call[s][r].cur.addr IN
  /\ call[s][r].pc = "removing"
  /\ os[a] = None => ~AbsentRemoveFails
  /\ os' = [os EXCEPT ![a] = None]
  /\ SetCall(s, r, [call[s][r] EXCEPT !.pc = "removed"])
  /\ UNCHANGED <<file, stage, mem, applyPc, applying, writer, nextId>>

\* Mutant: the loop does not continue, but goes on to forget the change.
RemoveFailsForgotten(s, r) ==
  /\ call[s][r].pc = "removing"
  /\ \/ "remove" \in Faults
     \/ AbsentRemoveFails /\ os[call[s][r].cur.addr] = None
  /\ SetCall(s, r, [call[s][r] EXCEPT !.pc = "removed", !.failed = TRUE])
  /\ UNCHANGED <<os, file, stage, mem, applyPc, applying, writer, nextId>>

\* The failure is remembered, the loop continues, the change stays recorded.
RemoveFails(s, r) ==
  /\ call[s][r].pc = "removing"
  /\ \/ "remove" \in Faults
     \/ AbsentRemoveFails /\ os[call[s][r].cur.addr] = None
  /\ SetCall(s, r, [call[s][r] EXCEPT !.pc = "loop", !.failed = TRUE])
  /\ UNCHANGED <<os, file, stage, mem, applyPc, applying, writer, nextId>>

\* Mutant: filter the copy the loop iterates over.
RemainingOfCopy(s, r) == call[s][r].todo

\* #changes as they are now, not as the loop found them, without the change
\* removed (its changeId is what tells it from the others).
Remaining(s, r) == mem[s] \ {call[s][r].cur}

\* Mutant: the removal is not persisted.
ForgetInMemory(s, r) ==
  /\ Live(s)
  /\ call[s][r].pc = "removed"
  /\ mem' = [mem EXCEPT ![s] = Remaining(s, r)]
  /\ SetCall(s, r, [call[s][r] EXCEPT !.pc = "persisting"])
  /\ UNCHANGED <<os, file, stage, applyPc, applying, writer, nextId>>

Forget(s, r) ==
  /\ Live(s)
  /\ call[s][r].pc = "removed"
  /\ mem' = [mem EXCEPT ![s] = Remaining(s, r)]
  /\ SetWriter(s, r, Write(Remaining(s, r)))
  /\ SetCall(s, r, [call[s][r] EXCEPT !.pc = "persisting"])
  /\ UNCHANGED <<os, file, stage, applyPc, applying, nextId>>

NextIteration(s, r) ==
  /\ Live(s)
  /\ call[s][r].pc = "persisting"
  /\ writer[s][r].pc = "none"
  /\ SetCall(s, r, [call[s][r] EXCEPT !.pc = "loop"])
  /\ UNCHANGED <<os, file, stage, mem, applyPc, applying, writer, nextId>>

\* restore returns or throws.  After the leftovers, run() goes on or throws.
RestoreEnds(s, r) ==
  IF r = "startup"
  THEN /\ SetCall(s, r, IdleCall)
       /\ stage' = [stage EXCEPT ![s] =
                      IF @ # "recovering" THEN @
                      ELSE IF call[s][r].failed THEN "failed" ELSE "open"]
  ELSE /\ SetCall(s, r, [DoneCall EXCEPT !.failed = call[s][r].failed])
       /\ UNCHANGED stage

\* Mutant: restore expects nothing to be left unless a removal failed.
KeepJournalOnFailure(s, r) ==
  /\ Live(s)
  /\ call[s][r].pc = "loop"
  /\ call[s][r].todo = {}
  /\ mem[s] # {}
  /\ call[s][r].failed
  /\ RestoreEnds(s, r)
  /\ UNCHANGED <<os, file, mem, applyPc, applying, writer, nextId>>

\* The loop is over and something is still recorded: the journal stays.
KeepJournal(s, r) ==
  /\ Live(s)
  /\ call[s][r].pc = "loop"
  /\ call[s][r].todo = {}
  /\ mem[s] # {}
  /\ RestoreEnds(s, r)
  /\ UNCHANGED <<os, file, mem, applyPc, applying, writer, nextId>>

BeginDelete(s, r) ==
  /\ Live(s)
  /\ call[s][r].pc = "loop"
  /\ call[s][r].todo = {}
  /\ mem[s] = {}
  /\ SetCall(s, r, [call[s][r] EXCEPT !.pc = "deleting"])
  /\ UNCHANGED <<os, file, stage, mem, applyPc, applying, writer, nextId>>

\* A refused delete is swallowed.
DeleteJournal(s, r) ==
  /\ Live(s)
  /\ call[s][r].pc = "deleting"
  /\ \/ file' = Missing
     \/ "write" \in Faults /\ UNCHANGED file
  /\ RestoreEnds(s, r)
  /\ UNCHANGED <<os, mem, applyPc, applying, writer, nextId>>

-----------------------------------------------------------------------------
(* Shutdown, exit, and what happens outside the process *)

\* engine.shutdown(): restore if there is anything to restore.  Without
\* "signal" it is called once, when run() has resolved or thrown.
Shutdown(s, r) ==
  /\ r # "startup"
  /\ call[s][r].pc = "idle"
  /\ \/ stage[s] \in {"open", "failed"} /\ applyPc[s] = "idle"
     \/ "signal" \in Faults /\ stage[s] \in {"recovering", "open", "failed", "closing"}
  /\ stage' = [stage EXCEPT ![s] = "closing"]
  /\ SetCall(s, r, IF mem[s] = {} THEN DoneCall ELSE StartedCall(mem[s]))
  /\ UNCHANGED <<os, file, mem, applyPc, applying, writer, nextId>>

\* Mutant: process.exit does not wait for the shutdown.
ExitAtOnce(s) ==
  /\ stage[s] = "closing"
  /\ MayStop(s)
  /\ stage' = [stage EXCEPT ![s] = "exited"]
  /\ LosesMemory(s)
  /\ UNCHANGED <<os, file, applyPc, applying, call, nextId>>

\* process.exit, once a shutdown is over; it waits for nothing else.
Exit(s) ==
  /\ stage[s] = "closing"
  /\ \E r \in ShutdownCall : call[s][r].pc = "done"
  /\ MayStop(s)
  /\ stage' = [stage EXCEPT ![s] = "exited"]
  /\ LosesMemory(s)
  /\ UNCHANGED <<os, file, applyPc, applying, call, nextId>>

Crash(s) ==
  /\ "crash" \in Faults
  /\ Live(s)
  /\ MayStop(s)
  /\ stage' = [stage EXCEPT ![s] = "crashed"]
  /\ LosesMemory(s)
  /\ UNCHANGED <<os, file, applyPc, applying, call, nextId>>

\* Every process dies with its children; temporary addresses do not survive.
Reboot ==
  /\ "reboot" \in Faults
  /\ \A s \in Session : Live(s) => MayStop(s)
  /\ os' = [a \in Addr |-> IF os[a] = Foreign THEN Foreign ELSE None]
  /\ stage' = [s \in Session |-> IF Live(s) THEN "crashed" ELSE stage[s]]
  /\ mem' = [s \in Session |-> {}]
  /\ writer' = [s \in Session |-> [j \in Job |-> NoWrite]]
  /\ applyPc' = [s \in Session |-> "idle"]
  /\ call' = [s \in Session |-> [r \in Call |-> IdleCall]]
  /\ UNCHANGED <<file, applying, nextId>>

Flush(a) ==
  /\ "flush" \in Faults
  /\ os[a] \in Change
  /\ os' = [os EXCEPT ![a] = None]
  /\ UNCHANGED <<file, stage, mem, applyPc, applying, call, writer, nextId>>

UserAdds(a) ==
  /\ "user" \in Faults
  /\ os[a] = None
  /\ os' = [os EXCEPT ![a] = Foreign]
  /\ UNCHANGED <<file, stage, mem, applyPc, applying, call, writer, nextId>>

-----------------------------------------------------------------------------
ApplyStep(s) ==
  \/ \E a \in Addr : ApplyStart(s, a)
  \/ SnapshotDone(s)
  \/ SnapshotFails(s)
  \/ AddLands(s)
  \/ AddFails(s)
  \/ Record(s)
  \/ ApplyReturns(s)

WriteStep(s, j) ==
  \/ TruncateJournal(s, j)
  \/ WriteJournal(s, j)
  \/ WriteFails(s, j)

RestoreStep(s, r) ==
  \/ NextRemoval(s, r)
  \/ RemoveLands(s, r)
  \/ RemoveFails(s, r)
  \/ Forget(s, r)
  \/ NextIteration(s, r)
  \/ KeepJournal(s, r)
  \/ BeginDelete(s, r)
  \/ DeleteJournal(s, r)

Next ==
  \/ \E s \in Session :
       \/ Start(s)
       \/ LoadJournal(s)
       \/ ApplyStep(s)
       \/ \E j \in Job : WriteStep(s, j)
       \/ \E r \in Call : RestoreStep(s, r)
       \/ \E r \in ShutdownCall : Shutdown(s, r)
       \/ Exit(s)
       \/ Crash(s)
  \/ Reboot
  \/ \E a \in Addr : Flush(a) \/ UserAdds(a)

Spec == Init /\ [][Next]_vars

\* What the event loop and the operating system owe a process: a continuation
\* that is ready runs, a write ends, a spawned command ends.  Nobody owes a
\* start, an apply, a shutdown or a fault.
Fairness ==
  \A s \in Session :
    /\ WF_vars(LoadJournal(s))
    /\ WF_vars(SnapshotDone(s) \/ SnapshotFails(s))
    /\ WF_vars(AddLands(s) \/ AddFails(s))
    /\ WF_vars(Record(s))
    /\ WF_vars(ApplyReturns(s))
    /\ \A j \in Job : WF_vars(WriteStep(s, j))
    /\ \A r \in Call : WF_vars(RestoreStep(s, r))
    /\ WF_vars(Exit(s))

FairSpec == Spec /\ Fairness

-----------------------------------------------------------------------------
(* Properties *)

CallState ==
  [pc : {"idle", "loop", "removing", "removed", "persisting", "deleting", "done"},
   todo : SUBSET Change, cur : Change \union {None}, failed : BOOLEAN]
WriteState == [pc : {"none", "open", "write"}, snap : SUBSET Change]

\* A call that removes has a change to remove.
CallOK ==
  /\ call \in [Session -> [Call -> CallState]]
  /\ \A s \in Session, r \in Call :
       call[s][r].pc \in {"removing", "removed", "persisting"} => call[s][r].cur \in Change

\* An apply under way has a change of its own to make.
ApplyOK ==
  /\ applyPc \in [Session -> {"idle", "snapshot", "adding", "added", "persisting"}]
  /\ applying \in [Session -> Change \union {None}]
  /\ \A s \in Session :
       applyPc[s] # "idle" => applying[s] \in Change /\ applying[s].by = s

\* The variables keep to their types.
TypeOK ==
  /\ os \in [Addr -> Change \union {None, Foreign}]
  /\ file \in [st : {"missing", "torn", "ok"}, changes : SUBSET Change]
  /\ stage \in [Session -> {"off", "starting", "recovering", "open", "failed",
                            "closing", "exited", "crashed"}]
  /\ mem \in [Session -> SUBSET Change]
  /\ ApplyOK
  /\ CallOK
  /\ writer \in [Session -> [Job -> WriteState]]
  /\ nextId \in 1..(MaxChanges + 1)

\* While a process lives it knows every address of its own on the interface,
\* save between the command's success and the return from its await: whatever
\* restores overlap the apply or each other, and whatever other processes do.
Tracked ==
  \A s \in Session, a \in Addr :
    Live(s) /\ os[a] \in Change /\ os[a].by = s =>
      \/ os[a] \in mem[s]
      \/ applyPc[s] = "added" /\ applying[s] = os[a]

\* The journal, or the write about to replace it, names every Etherfind
\* address on the interface, alive or dead, save one whose apply had not got
\* as far as the end of its own journal write.
RecordedOnDisk ==
  \A a \in Addr : os[a] \in Change =>
    \/ os[a] \in file.changes
    \/ \E s \in Session, j \in Job : writer[s][j].pc = "write" /\ os[a] \in writer[s][j].snap
    \/ applyPc[os[a].by] \in {"added", "persisting"}

\* Between operations the journal says what #changes says.
Quiet(s) ==
  /\ stage[s] \in {"open", "failed", "closing"}
  /\ applyPc[s] \in {"idle", "snapshot", "adding"}
  /\ \A r \in Call : call[s][r].pc \in {"idle", "done"}

JournalMatchesMemory == \A s \in Session : Quiet(s) => file.changes = mem[s]

\* A process that has exited of itself left none of its addresses behind,
\* unless a removal failed and was reported.  (engine.shutdown; README, step 6)
NothingLeftAfterExit ==
  \A s \in Session : stage[s] = "exited" =>
    \/ \E r \in ShutdownCall : call[s][r].failed
    \/ \A a \in Addr : os[a] \in Change => os[a].by # s

\* When recovery has succeeded, no address of a dead process that the journal
\* recorded is on the interface.
RecoveredNothingLeft ==
  \A s \in Session : stage[s] = "open" =>
    \A a \in Addr : os[a] \in Change =>
       \/ Live(os[a].by)
       \/ applyPc[os[a].by] \in {"added", "persisting"}

\* As a lease of addresses: a write under way counts as written, since the
\* process does not stop inside it.
Lent == [a \in Addr |-> IF os[a] \in Change THEN os[a] ELSE None]
OnRecord ==
  file.changes \union
    {c \in Change : \E s \in Session, j \in Job : writer[s][j].pc = "write" /\ c \in writer[s][j].snap}
Lender == {s \in Session : stage[s] = "open"}

Lease == INSTANCE TemporaryLease WITH lent <- Lent, record <- OnRecord, open <- Lender

\* Through crashes, reboots, lost addresses and failing commands, the manager
\* keeps the promises of a lease: above all, no journal write drops a change
\* whose address is still there, and no session begins its work on top of the
\* leftovers of another.
ImplementsLease == Lease!Spec

\* Every shutdown comes to its end, and with it the process.
ShutdownCompletes ==
  \A s \in Session : stage[s] = "closing" ~> stage[s] \in {"exited", "crashed"}
=============================================================================
