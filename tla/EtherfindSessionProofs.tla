------------------------ MODULE EtherfindSessionProofs ------------------------
(***************************************************************************)
(* Proofs about DiscoveryEngine, for every set of sessions, any number of  *)
(* captures, link changes and calls of shutdown() and restartWorkflow().   *)
(*                                                                         *)
(* First what holds of every behaviour: type correctness, that somebody    *)
(* watches the link while the user is asked to replug, that the phase      *)
(* "configuring" is that of an apply.  Then the workflow: who owns the     *)
(* captures, that no transition is invalid, that a shutdown is final, from *)
(* one invariant, Owned, of sessions in which the user quits or restarts,  *)
(* but not both.                                                           *)
(*                                                                         *)
(* Then about EtherfindSession.  Whatever the front ends, the signals and  *)
(* the simulation do, the engine takes no steps but its own: a run of the  *)
(* program is a behaviour of DiscoveryEngine, and the engine's theorems    *)
(* hold of the program.  What the screen offers works, and the adapter it  *)
(* offers first is the best.                                               *)
(***************************************************************************)
EXTENDS EtherfindSession, Recursion, FiniteSetTheorems, TLAPS

Over == {"idle", "cleanup", "done"}
RunState == {"preparing", "waiting", "resolved", "failed", "abandoned"}
SourceState == {"unused", "running", "stopping", "closed"}
JobState == [pc : {"idle", "stopping", "restoring", "done", "threw"},
             wait : Source \union {NoSource}]

\* The flow of a found device has a device.
FlowHasDevice == flow # "none" => best

-----------------------------------------------------------------------------
(* What the parts of the actions do *)

\* The methods of the state machine lead from phases to phases.
LEMMA MethodTypes ==
  /\ \A b \in BOOLEAN : \A p \in DOMAIN start(b) :
       start(b)[p] = IF b THEN "listening" ELSE "waiting-for-disconnect"
  /\ \A p \in DOMAIN linkDown : linkDown[p] = "waiting-for-link"
  /\ linkUp["waiting-for-link"] = "listening"
  /\ \A p \in DOMAIN skipReplug : skipReplug[p] = "listening"
  /\ \A p \in DOMAIN confirmDisconnected : confirmDisconnected[p] = "waiting-for-link"
  /\ \A p \in Phase : beginCleanup[p] \in Over /\ cleanupComplete[beginCleanup[p]] \in Over
  /\ \A p \in DOMAIN cleanupComplete : cleanupComplete[p] \in Over
  /\ \A p \in DOMAIN restart : restart[p] = "waiting-for-disconnect"
  BY DEF start, linkDown, linkUp, skipReplug, confirmDisconnected, beginCleanup, cleanupComplete,
         restart, Waiting, Phase, Over

LEMMA FlowMethodTypes ==
  /\ \A p \in DOMAIN deviceFound : deviceFound[p] = "device-found"
  /\ \A p \in DOMAIN startConfigure : startConfigure[p] = "configuring"
  /\ \A p \in DOMAIN configApplied : configApplied[p] = "verifying"
  /\ \A p \in DOMAIN configureFailed : configureFailed[p] = "device-found"
  /\ \A p \in DOMAIN configureDeclined : configureDeclined[p] = "connected"
  /\ \A p \in DOMAIN verificationEnds : verificationEnds[p] = "connected"
  /\ startVerify["device-found"] = "verifying"
  /\ verificationEnds["verifying"] = "connected"
  /\ "configuring" \in DOMAIN configApplied
  /\ "configuring" \in DOMAIN configureFailed
  BY DEF deviceFound, startConfigure, configApplied, configureFailed, configureDeclined,
         verificationEnds, startVerify

\* A job moves to a state without a capture to wait for.
LEMMA ReachesType ==
  ASSUME TypeOK, NEW j \in Job, NEW pc \in {"idle", "stopping", "restoring", "done", "threw"},
         Reaches(j, pc)
  PROVE  job' \in [Job -> JobState]
<1>1. [pc |-> pc, wait |-> NoSource] \in JobState
  BY DEF JobState
<1>. QED BY <1>1 DEF Reaches, TypeOK, JobState

\* Stopping a capture waits for the one that runs.
LEMMA StopBeginsType ==
  ASSUME TypeOK, NEW j \in Job, MustWait, StopBegins(j)
  PROVE  src' \in [Source -> SourceState] /\ job' \in [Job -> JobState]
<1>1. [pc |-> "stopping", wait |-> current] \in JobState
  BY DEF JobState, TypeOK
<1>. QED BY <1>1 DEF StopBegins, MustWait, TypeOK, JobState, SourceState

\* The rest of a shutdown ends the workflow.
LEMMA TeardownType ==
  ASSUME TypeOK, NEW p \in Phase, NEW r \in Closer, Teardown(p, r)
  PROVE  /\ phase' \in Over /\ job' \in [Job -> JobState]
         /\ current' = NoSource /\ monitor' \in {"none", "disposed"}
<1>1. r \in Job
  BY DEF Job
<1>2. phase' \in Over
  BY MethodTypes DEF Teardown
<1>3. job' \in [Job -> JobState]
  BY <1>1, ReachesType DEF Teardown
<1>. QED BY <1>2, <1>3 DEF Teardown, MonitorDisposed

\* enterListening leads to the given phase, or to the end.
LEMMA EnterListeningType ==
  ASSUME TypeOK, NEW p \in Phase, EnterListening(p)
  PROVE  /\ timer' \in BOOLEAN /\ fatal' \in BOOLEAN
         /\ src' \in [Source -> SourceState]
         /\ current' \in Source \union {NoSource}
         /\ monitor' \in {"none", "live", "disposed"}
         /\ job' \in [Job -> JobState]
         /\ run' \in RunState
         /\ phase' \in Over \union {p}
<1>1. timer' \in BOOLEAN
  BY DEF EnterListening, Armed
<1>2. CASE CaptureStarts(p)
  BY <1>1, <1>2 DEF CaptureStarts, TypeOK, SourceState, JobState, RunState
<1>3. CASE SpawnFails(p)
  <2>. PICK r \in ShutdownCall : Teardown(p, r)
    BY <1>3 DEF SpawnFails
  <2>1. r \in Closer
    BY DEF Closer
  <2>. QED BY <1>1, <1>3, <2>1, TeardownType
       DEF SpawnFails, Resolved, TypeOK, SourceState, RunState
<1>. QED BY <1>2, <1>3 DEF EnterListening

FlowState == {"none", "enumerating", "prompt", "applying", "probing", "ended", "threw"}

\* Whatever verification and the end of the flow do with a phase, it is not
\* one in which the user replugs, and not "configuring" unless it was that.
FlowEnd(p) ==
  /\ phase' \in (Phase \ (Waiting \union {"configuring"})) \union {p}
  /\ flow' \in FlowState \ {"none"} /\ ready' \in BOOLEAN /\ run' \in RunState

LEMMA FinishConnectedType ==
  ASSUME TypeOK, NEW p \in Phase, FinishConnected(p)
  PROVE  FlowEnd(p)
  BY DEF FinishConnected, Resolved, FlowEnd, FlowState, RunState, Phase, Waiting, TypeOK

LEMMA FlowThrowsType ==
  ASSUME TypeOK, FlowThrows
  PROVE  FlowEnd(phase)
  BY DEF FlowThrows, FlowEnd, FlowState, RunState, TypeOK

LEMMA VerifyType ==
  ASSUME TypeOK, NEW p \in Phase, Verify(p)
  PROVE  /\ phase' \in (Phase \ (Waiting \union {"configuring"})) \union {p, phase}
         /\ flow' \in FlowState \ {"none"} /\ ready' \in BOOLEAN /\ run' \in RunState
<1>. DEFINE q == IF p = "device-found" THEN startVerify[p] ELSE p
<1>1. q \in Phase /\ (q = p \/ q = "verifying")
  BY FlowMethodTypes DEF Phase
<1>2. CASE opt.probe
  BY <1>1, <1>2 DEF Verify, TypeOK, FlowState, RunState, Phase, Waiting
<1>3. CASE ~opt.probe /\ q = "verifying"
  <2>1. FinishConnected("connected")
    BY <1>3, FlowMethodTypes DEF Verify
  <2>. QED BY <2>1, FinishConnectedType DEF FlowEnd, Phase, Waiting
<1>4. CASE FlowThrows
  BY <1>4, FlowThrowsType DEF FlowEnd
<1>. QED BY <1>2, <1>3, <1>4 DEF Verify

-----------------------------------------------------------------------------
(* Type correctness *)

LEMMA TypeInit == Init => TypeOK
<1>. SUFFICES ASSUME Init PROVE TypeOK
  OBVIOUS
<1>1. [pc |-> "idle", wait |-> NoSource] \in JobState
  BY DEF JobState
<1>2. job \in [Job -> JobState]
  BY <1>1 DEF Init
<1>3. src \in [Source -> SourceState]
  BY DEF Init, SourceState
<1>4. {timer, menu, best, temp, ready, fatal} \subseteq BOOLEAN /\ configActive \in BOOLEAN
  BY DEF Init
<1>5. flips \in 0..MaxFlips
  BY BoundsAssumption DEF Init
<1>. QED BY <1>2, <1>3, <1>4, <1>5 DEF Init, TypeOK, JobState, SourceState, Phase

\* run(), the link and the timers keep the types.
LEMMA TypeEvents ==
  ASSUME TypeOK, RunFails \/ RunStarts \/ LinkChanges \/ LinkEvent \/ TimerFires
  PROVE  TypeOK'
<1>1. CASE RunFails
  BY <1>1 DEF RunFails, TypeOK, capture, watch, world, told
<1>2. CASE RunStarts /\ opt.skipReplug
  <2>1. start(opt.skipReplug)[phase] \in Phase
    BY <1>2, MethodTypes DEF RunStarts, Accepts, Phase
  <2>2. EnterListening(start(opt.skipReplug)[phase])
    BY <1>2 DEF RunStarts
  <2>3. phase' \in Phase
    BY <2>1, <2>2, EnterListeningType DEF Over, Phase
  <2>. QED BY <1>2, <2>1, <2>2, <2>3, EnterListeningType
       DEF RunStarts, TypeOK, world, SourceState, JobState, RunState
<1>3. CASE RunStarts /\ ~opt.skipReplug
  <2>1. phase' \in Phase
    BY <1>3, MethodTypes DEF RunStarts, Moves, Accepts, Phase, start
  <2>. QED BY <1>3, <2>1 DEF RunStarts, StartLinkWatch, TypeOK, capture, world
<1>4. CASE LinkChanges
  BY <1>4, BoundsAssumption DEF LinkChanges, TypeOK, capture, watch, told
<1>5. CASE LinkEvent
  <2>1. /\ phase' \in Phase /\ timer' \in BOOLEAN /\ fatal' \in BOOLEAN
        /\ src' \in [Source -> SourceState] /\ current' \in Source \union {NoSource}
        /\ monitor' \in {"none", "live", "disposed"} /\ job' \in [Job -> JobState]
        /\ run' \in RunState
    <3>1. CASE Moves(linkDown) /\ UNCHANGED <<run, capture, monitor, timer, fatal, job>>
      BY <3>1, MethodTypes DEF Moves, Accepts, TypeOK, capture, SourceState, JobState, RunState, Phase
    <3>2. CASE link = "up" /\ phase = "waiting-for-link" /\ EnterListening(linkUp[phase])
      <4>1. linkUp[phase] \in Phase
        BY <3>2, MethodTypes DEF Phase
      <4>. QED BY <3>2, <4>1, EnterListeningType DEF Over, Phase
    <3>3. CASE UNCHANGED <<phase, run, capture, monitor, timer, fatal, job>>
      BY <3>3 DEF TypeOK, capture, SourceState, JobState, RunState
    <3>. QED BY <1>5, <3>1, <3>2, <3>3 DEF LinkEvent
  <2>. QED BY <1>5, <2>1 DEF LinkEvent, TypeOK, world, SourceState, JobState, RunState
<1>6. CASE TimerFires
  BY <1>6 DEF TimerFires, TypeOK, capture, watch, world, told
<1>. QED BY <1>1, <1>2, <1>3, <1>4, <1>5, <1>6

\* So do a capture that dies, the discovery and the flow after it.
LEMMA TypeCapture ==
  ASSUME TypeOK, CaptureDies
  PROVE  TypeOK'
<1>. PICK r \in ShutdownCall : Teardown(phase, r)
  BY DEF CaptureDies, OnCaptureError
<1>1. r \in Closer /\ phase \in Phase
  BY DEF Closer, TypeOK
<1>. QED BY <1>1, TeardownType
     DEF CaptureDies, OnCaptureError, Resolved, MustWait, TypeOK, world, JobState, Over, Phase

LEMMA TypeFlow ==
  ASSUME TypeOK, DeviceFound \/ FlowStep
  PROVE  TypeOK'
<1>1. CASE DeviceFound
  <2>. DEFINE p == IF Accepts(deviceFound) THEN deviceFound[phase] ELSE phase
  <2>1. p \in Phase
    BY FlowMethodTypes DEF Accepts, TypeOK, Phase
  <2>2. FinishConnected(p) \/ (phase' = p /\ flow' = "enumerating" /\ UNCHANGED <<ready, run>>)
    BY <1>1 DEF DeviceFound
  <2>3. FlowEnd(p)
    BY <2>1, <2>2, FinishConnectedType DEF FlowEnd, FlowState, RunState, TypeOK
  <2>. QED BY <1>1, <2>1, <2>3
       DEF DeviceFound, FlowEnd, FlowState, RunState, TypeOK, capture, watch, world
<1>2. CASE FlowStep
  <2>1. /\ phase' \in Phase /\ flow' \in FlowState /\ ready' \in BOOLEAN /\ run' \in RunState
        /\ configActive' \in BOOLEAN /\ temp' \in BOOLEAN
    <3>. phase \in Phase
      BY DEF TypeOK
    <3>1. CASE Evaluated
      BY <3>1, VerifyType, FinishConnectedType
         DEF Evaluated, FlowEnd, FlowState, RunState, TypeOK
    <3>2. CASE Confirmed
      BY <3>2, FlowMethodTypes, FlowThrowsType
         DEF Confirmed, Moves, Accepts, FlowEnd, FlowState, RunState, Phase, TypeOK
    <3>3. CASE Declined
      BY <3>3, FlowMethodTypes, FlowThrowsType, FinishConnectedType
         DEF Declined, Accepts, FlowEnd, Phase, TypeOK
    <3>4. CASE Applied
      BY <3>4, FlowMethodTypes, FlowThrowsType, VerifyType
         DEF Applied, Accepts, FlowEnd, Phase, TypeOK
    <3>5. CASE ApplyFails
      BY <3>5, FlowMethodTypes, FlowThrowsType, FinishConnectedType
         DEF ApplyFails, Accepts, FlowEnd, Phase, TypeOK
    <3>6. CASE Probed
      BY <3>6, FlowMethodTypes, FlowThrowsType, FinishConnectedType
         DEF Probed, Accepts, FlowEnd, Phase, TypeOK
    <3>. QED BY <1>2, <3>1, <3>2, <3>3, <3>4, <3>5, <3>6 DEF FlowStep
  <2>2. UNCHANGED <<src, current, monitor, seen, opt, link, flips, timer, menu, best, fatal, job>>
    BY <1>2 DEF FlowStep, Evaluated, Confirmed, Declined, Applied, ApplyFails, Probed,
               capture, watch, world
  <2>. QED BY <2>1, <2>2 DEF TypeOK, FlowState, RunState
<1>. QED BY <1>1, <1>2

\* So do the keys.
LEMMA TypeUser ==
  ASSUME TypeOK, UserStep
  PROVE  TypeOK'
<1>1. CASE UserConfirms
  BY <1>1, MethodTypes
     DEF UserConfirms, Moves, Accepts, StartLinkWatch, TypeOK, capture, world, told, Phase
<1>2. CASE UserSkips
  <2>1. skipReplug[phase] \in Phase
    BY <1>2 DEF UserSkips, skipReplug, Waiting, Phase
  <2>. QED BY <1>2, <2>1, EnterListeningType
       DEF UserSkips, TypeOK, world, SourceState, JobState, RunState, Over, Phase
<1>3. CASE UserKeepsListening
  BY <1>3 DEF UserKeepsListening, Armed, TypeOK, capture, watch, world, told
<1>4. ASSUME NEW j \in RestartCall, UserRestarts(j) PROVE TypeOK'
  <2>1. j \in Job
    BY DEF Job
  <2>2. CASE MustWait
    <3>1. src' \in [Source -> SourceState] /\ job' \in [Job -> JobState]
      BY <1>4, <2>1, <2>2, StopBeginsType DEF UserRestarts
    <3>. QED BY <1>4, <2>2, <3>1
         DEF UserRestarts, TypeOK, world, told, watch, SourceState, JobState
  <2>3. CASE ~MustWait
    <3>1. phase' \in Phase
      BY <1>4, <2>3, MethodTypes DEF UserRestarts, MenuKey, Restart, restart, Phase
    <3>2. job' \in [Job -> JobState]
      BY <1>4, <2>1, <2>3, ReachesType DEF UserRestarts
    <3>. QED BY <1>4, <2>3, <3>1, <3>2
         DEF UserRestarts, Restart, NewMonitor, TypeOK, world, told, JobState
  <2>. QED BY <2>2, <2>3
<1>. QED BY <1>1, <1>2, <1>3, <1>4 DEF UserStep

\* So do shutdowns and restarts.
LEMMA TypeShutdown ==
  ASSUME TypeOK, NEW r \in Closer, Shutdown(r) \/ StopEnds(r) \/ RestoreEnds(r)
  PROVE  TypeOK'
<1>. r \in Job /\ phase \in Phase
  BY DEF Job, TypeOK
<1>1. CASE Shutdown(r) /\ MustWait
  BY <1>1, StopBeginsType
     DEF Shutdown, TypeOK, world, told, SourceState, JobState
<1>2. CASE Shutdown(r) /\ ~MustWait
  BY <1>2, TeardownType DEF Shutdown, TypeOK, world, told, JobState, Over, Phase
<1>3. CASE StopEnds(r)
  BY <1>3, TeardownType DEF StopEnds, TypeOK, world, told, JobState, Over, Phase
<1>4. CASE RestoreEnds(r)
  <2>1. job' \in [Job -> JobState]
    BY <1>4, ReachesType DEF RestoreEnds
  <2>2. phase' \in Phase
    BY <1>4, MethodTypes DEF RestoreEnds, Accepts, Over, Phase
  <2>3. temp' \in BOOLEAN
    BY <1>4 DEF RestoreEnds, TypeOK
  <2>. QED BY <1>4, <2>1, <2>2, <2>3
       DEF RestoreEnds, TypeOK, capture, watch, world, told, JobState
<1>. QED BY <1>1, <1>2, <1>3, <1>4

LEMMA TypeRestart ==
  ASSUME TypeOK, NEW j \in RestartCall, RestartResumes(j)
  PROVE  TypeOK'
<1>1. j \in Job
  BY DEF Job
<1>2. phase' \in Phase
  BY MethodTypes DEF RestartResumes, Restart, Accepts, Phase
<1>3. job' \in [Job -> JobState]
  BY <1>1, ReachesType DEF RestartResumes
<1>. QED BY <1>2, <1>3 DEF RestartResumes, Restart, NewMonitor, TypeOK, world, told, JobState

LEMMA TypeStep == TypeOK /\ [Next]_vars => TypeOK'
<1>. SUFFICES ASSUME TypeOK, [Next]_vars PROVE TypeOK'
  OBVIOUS
<1>1. CASE UNCHANGED vars
  BY <1>1 DEF vars, capture, watch, world, told, TypeOK
<1>. QED BY <1>1, TypeEvents, TypeCapture, TypeFlow, TypeUser, TypeShutdown, TypeRestart DEF Next

\* The variables of the engine keep to their types: every method of the state
\* machine that the engine calls without a guard of its own accepts the phase.
THEOREM TypeCorrect == Spec => []TypeOK
  BY TypeInit, TypeStep, PTL DEF Spec

-----------------------------------------------------------------------------
(* Whoever waits for the link is told of it *)

\* What enterListening does to the phase: it is given, or it is over.
LEMMA ListeningPhases ==
  "listening" \notin Waiting /\ Over \intersect Waiting = {} /\ "configuring" \notin Over
  BY DEF Over, Waiting

LEMMA WatchedEvents ==
  ASSUME TypeOK, WaitingIsWatched,
         RunFails \/ RunStarts \/ LinkChanges \/ LinkEvent \/ TimerFires \/ CaptureDies
  PROVE  WaitingIsWatched'
<1>1. CASE RunStarts /\ opt.skipReplug
  <2>1. start(opt.skipReplug)[phase] = "listening"
    BY <1>1, MethodTypes DEF RunStarts, Accepts
  <2>. QED BY <1>1, <2>1, EnterListeningType, ListeningPhases
       DEF RunStarts, WaitingIsWatched, Phase
<1>2. CASE RunStarts /\ ~opt.skipReplug
  BY <1>2 DEF RunStarts, StartLinkWatch, WaitingIsWatched
<1>3. CASE LinkEvent
  <2>1. CASE UNCHANGED monitor
    BY <1>3, <2>1 DEF LinkEvent, WaitingIsWatched
  <2>2. CASE link = "up" /\ phase = "waiting-for-link" /\ EnterListening(linkUp[phase])
    BY <2>2, MethodTypes, EnterListeningType, ListeningPhases DEF WaitingIsWatched, Phase
  <2>. QED BY <1>3, <2>1, <2>2 DEF LinkEvent
<1>4. CASE CaptureDies
  <2>. PICK r \in ShutdownCall : Teardown(phase, r)
    BY <1>4 DEF CaptureDies, OnCaptureError
  <2>. QED BY TeardownType, ListeningPhases DEF Closer, TypeOK, WaitingIsWatched
<1>5. CASE RunFails \/ LinkChanges \/ TimerFires
  BY <1>5 DEF RunFails, LinkChanges, TimerFires, watch, WaitingIsWatched
<1>. QED BY <1>1, <1>2, <1>3, <1>4, <1>5

\* The flow of a found device does not lead back to waiting.
LEMMA FlowPhases ==
  ASSUME TypeOK, DeviceFound \/ FlowStep
  PROVE  phase' = phase \/ phase' \notin Waiting
<1>. phase \in Phase
  BY DEF TypeOK
<1>1. CASE DeviceFound
  <2>. DEFINE p == IF Accepts(deviceFound) THEN deviceFound[phase] ELSE phase
  <2>1. p \in Phase /\ (p = phase \/ p \notin Waiting)
    BY FlowMethodTypes DEF Accepts, Phase, Waiting
  <2>2. phase' = p \/ FinishConnected(p)
    BY <1>1 DEF DeviceFound
  <2>. QED BY <2>1, <2>2, FinishConnectedType DEF FlowEnd
<1>2. CASE Evaluated
  BY <1>2, VerifyType, FinishConnectedType DEF Evaluated, FlowEnd
<1>3. CASE Confirmed
  BY <1>3, FlowMethodTypes DEF Confirmed, Moves, Accepts, FlowThrows, Waiting
<1>4. CASE Declined \/ ApplyFails \/ Probed
  <2>1. \/ FlowThrows
        \/ FinishConnected("connected")
        \/ FinishConnected("device-found")
    BY <1>4, FlowMethodTypes DEF Declined, ApplyFails, Probed, Accepts
  <2>. QED BY <2>1, FinishConnectedType DEF FlowThrows, FlowEnd, Phase, Waiting
<1>5. CASE Applied
  <2>1. FlowThrows \/ Verify("verifying")
    BY <1>5, FlowMethodTypes DEF Applied, Accepts
  <2>. QED BY <2>1, VerifyType DEF FlowThrows, Phase, Waiting
<1>. QED BY <1>1, <1>2, <1>3, <1>4, <1>5 DEF FlowStep

LEMMA WatchedFlow ==
  ASSUME TypeOK, WaitingIsWatched, DeviceFound \/ FlowStep
  PROVE  WaitingIsWatched'
<1>1. UNCHANGED monitor
  BY DEF DeviceFound, FlowStep, Evaluated, Confirmed, Declined, Applied, ApplyFails, Probed, watch
<1>. QED BY <1>1, FlowPhases DEF WaitingIsWatched

LEMMA WatchedUser ==
  ASSUME TypeOK, WaitingIsWatched, UserStep
  PROVE  WaitingIsWatched'
<1>1. CASE UserConfirms
  BY <1>1 DEF UserConfirms, StartLinkWatch, WaitingIsWatched
<1>2. CASE UserSkips
  <2>1. skipReplug[phase] = "listening"
    BY <1>2 DEF UserSkips, skipReplug, Waiting
  <2>. QED BY <1>2, <2>1, EnterListeningType, ListeningPhases
       DEF UserSkips, WaitingIsWatched, Phase
<1>3. CASE UserKeepsListening
  BY <1>3 DEF UserKeepsListening, watch, WaitingIsWatched
<1>4. ASSUME NEW j \in RestartCall, UserRestarts(j) PROVE WaitingIsWatched'
  BY <1>4 DEF UserRestarts, Restart, NewMonitor, watch, WaitingIsWatched
<1>. QED BY <1>1, <1>2, <1>3, <1>4 DEF UserStep

LEMMA WatchedShutdown ==
  ASSUME TypeOK, WaitingIsWatched, NEW r \in Closer, Shutdown(r) \/ StopEnds(r) \/ RestoreEnds(r)
  PROVE  WaitingIsWatched'
<1>1. CASE Teardown(phase, r)
  BY <1>1, TeardownType, ListeningPhases DEF TypeOK, WaitingIsWatched
<1>2. CASE UNCHANGED <<phase, monitor>>
  BY <1>2 DEF WaitingIsWatched
<1>3. CASE RestoreEnds(r)
  <2>1. UNCHANGED monitor /\ (phase' = phase \/ phase' \notin Waiting)
    BY <1>3, MethodTypes, ListeningPhases DEF RestoreEnds, Accepts, watch
  <2>. QED BY <2>1 DEF WaitingIsWatched
<1>. QED BY <1>1, <1>2, <1>3 DEF Shutdown, StopEnds

LEMMA WatchedStep == TypeOK /\ WaitingIsWatched /\ [Next]_vars => WaitingIsWatched'
<1>. SUFFICES ASSUME TypeOK, WaitingIsWatched, [Next]_vars PROVE WaitingIsWatched'
  OBVIOUS
<1>1. ASSUME NEW j \in RestartCall, RestartResumes(j) PROVE WaitingIsWatched'
  BY <1>1 DEF RestartResumes, Restart, NewMonitor, WaitingIsWatched
<1>2. CASE UNCHANGED vars
  BY <1>2 DEF vars, watch, WaitingIsWatched
<1>. QED BY <1>1, <1>2, WatchedEvents, WatchedFlow, WatchedUser, WatchedShutdown DEF Next

\* While the user is asked to unplug or replug the device, a live monitor
\* watches the link: through overlapping shutdowns and restarts, captures that
\* die, and a monitor that was disposed.
THEOREM WaitingAlwaysWatched == Spec => []WaitingIsWatched
<1>1. Init => WaitingIsWatched
  BY DEF Init, WaitingIsWatched, Waiting
<1>. QED BY <1>1, TypeCorrect, WatchedStep, PTL DEF Spec

-----------------------------------------------------------------------------
(* The phase "configuring" *)

\* A phase is left alone, or does not become "configuring", by all but the
\* confirmation.
LEMMA NotConfiguring ==
  ASSUME TypeOK, [Next]_vars, ~FlowStep, ~DeviceFound
  PROVE  phase' = phase \/ phase' # "configuring"
<1>. phase \in Phase
  BY DEF TypeOK
<1>1. CASE RunStarts \/ LinkEvent \/ UserSkips
  <2>1. CASE EnterListening("listening")
    BY <2>1, EnterListeningType, ListeningPhases DEF Phase
  <2>2. CASE RunStarts
    <3>1. CASE opt.skipReplug
      BY <2>1, <2>2, <3>1, MethodTypes DEF RunStarts, Accepts
    <3>2. CASE ~opt.skipReplug
      BY <2>2, <3>2 DEF RunStarts, Moves, Accepts, start
    <3>. QED BY <3>1, <3>2
  <2>3. CASE LinkEvent
    BY <2>1, <2>3, MethodTypes DEF LinkEvent, Moves, Accepts
  <2>4. CASE UserSkips
    BY <2>1, <2>4 DEF UserSkips, skipReplug, Waiting
  <2>. QED BY <1>1, <2>2, <2>3, <2>4
<1>2. CASE CaptureDies
  <2>. PICK r \in ShutdownCall : Teardown(phase, r)
    BY <1>2 DEF CaptureDies, OnCaptureError
  <2>. QED BY TeardownType, ListeningPhases DEF Closer
<1>3. CASE UserConfirms
  BY <1>3, MethodTypes DEF UserConfirms, Moves, Accepts
<1>4. ASSUME NEW j \in RestartCall, UserRestarts(j) \/ RestartResumes(j)
      PROVE  phase' = phase \/ phase' # "configuring"
  BY <1>4, MethodTypes
     DEF UserRestarts, RestartResumes, Restart, Accepts, MenuKey, restart, Phase
<1>5. ASSUME NEW r \in Closer, Shutdown(r) \/ StopEnds(r) \/ RestoreEnds(r)
      PROVE  phase' = phase \/ phase' # "configuring"
  <2>1. CASE Teardown(phase, r)
    BY <2>1, TeardownType, ListeningPhases
  <2>2. CASE RestoreEnds(r)
    BY <2>2, MethodTypes, ListeningPhases DEF RestoreEnds, Accepts
  <2>. QED BY <1>5, <2>1, <2>2 DEF Shutdown, StopEnds
<1>6. CASE RunFails \/ LinkChanges \/ TimerFires \/ UserKeepsListening \/ UNCHANGED vars
  BY <1>6 DEF RunFails, LinkChanges, TimerFires, UserKeepsListening, vars
<1>. QED BY <1>1, <1>2, <1>3, <1>4, <1>5, <1>6 DEF Next, UserStep

\* The flow moves in its own steps and when a device is found.
LEMMA FlowFrame ==
  ASSUME [Next]_vars, ~FlowStep, ~DeviceFound
  PROVE  UNCHANGED <<flow, best>>
  BY DEF Next, vars, RunFails, RunStarts, LinkChanges, LinkEvent, TimerFires, CaptureDies,
         UserStep, UserConfirms, UserSkips, UserKeepsListening, UserRestarts, Shutdown, StopEnds,
         RestoreEnds, RestartResumes

Configuring == ConfiguringMeansApplying /\ FlowHasDevice

LEMMA ConfiguringStep == TypeOK /\ Configuring /\ [Next]_vars => Configuring'
<1>. SUFFICES ASSUME TypeOK, Configuring, [Next]_vars PROVE Configuring'
  OBVIOUS
<1>. USE DEF Configuring, ConfiguringMeansApplying, FlowHasDevice
<1>. phase \in Phase
  BY DEF TypeOK
<1>1. CASE ~FlowStep /\ ~DeviceFound
  BY <1>1, NotConfiguring, FlowFrame
<1>2. CASE DeviceFound
  <2>. DEFINE p == IF Accepts(deviceFound) THEN deviceFound[phase] ELSE phase
  <2>1. phase # "configuring" /\ best'
    BY <1>2 DEF DeviceFound
  <2>2. p \in Phase /\ p # "configuring"
    BY <2>1, FlowMethodTypes DEF Accepts, Phase
  <2>3. phase' = p \/ FinishConnected(p)
    BY <1>2 DEF DeviceFound
  <2>4. phase' # "configuring"
    <3>. HIDE DEF p
    <3>. QED BY <2>2, <2>3, FinishConnectedType DEF FlowEnd
  <2>. QED BY <2>1, <2>4
<1>3. CASE FlowStep
  <2>1. best' = best /\ best
    BY <1>3 DEF FlowStep, Evaluated, Confirmed, Declined, Applied, ApplyFails, Probed
  <2>2. CASE Evaluated
    BY <2>1, <2>2, VerifyType, FinishConnectedType DEF Evaluated, FlowEnd
  <2>3. CASE Confirmed
    BY <2>1, <2>3 DEF Confirmed, FlowThrows
  <2>4. CASE Declined \/ Probed
    <3>1. FlowThrows \/ FinishConnected("connected")
      BY <2>4, FlowMethodTypes DEF Declined, Probed, Accepts
    <3>2. phase # "configuring"
      BY <2>4 DEF Declined, Probed
    <3>3. phase' # "configuring"
      BY <3>1, <3>2 DEF FinishConnected, Finishable, FlowThrows
    <3>. QED BY <2>1, <3>3
  <2>5. CASE Applied
    <3>1. (FlowThrows /\ phase # "configuring") \/ Verify("verifying")
      BY <2>5, FlowMethodTypes DEF Applied, Accepts
    <3>2. CASE Verify("verifying")
      <4>. QED BY <2>1, <3>2 DEF Verify, verificationEnds, FinishConnected, FlowThrows
    <3>. QED BY <2>1, <3>1, <3>2 DEF FlowThrows
  <2>6. CASE ApplyFails
    <3>1. (FlowThrows /\ phase # "configuring") \/ FinishConnected("device-found")
      BY <2>6, FlowMethodTypes DEF ApplyFails, Accepts
    <3>. QED BY <2>1, <3>1 DEF FlowThrows, FinishConnected, Finishable
  <2>. QED BY <1>3, <2>2, <2>3, <2>4, <2>5, <2>6 DEF FlowStep
<1>. QED BY <1>1, <1>2, <1>3

\* The phase is "configuring" only as long as an apply is under way, whatever
\* ends or restarts the workflow meanwhile.
THEOREM ConfiguringAlwaysApplying == Spec => []ConfiguringMeansApplying
<1>1. Init => Configuring
  BY DEF Init, Configuring, ConfiguringMeansApplying, FlowHasDevice
<1>2. Configuring => ConfiguringMeansApplying
  BY DEF Configuring
<1>. QED BY <1>1, <1>2, TypeCorrect, ConfiguringStep, PTL DEF Spec

-----------------------------------------------------------------------------
(* The captures *)

NoneRunning == \A i \in Source : src[i] # "running"
RestartStops == \E j \in RestartCall : job[j].pc = "stopping"

\* Before run() has started anything there is nothing.
FreshRun ==
  run = "preparing" => phase = "idle" /\ flow = "none" /\ ~menu /\ \A i \in Source : src[i] = "unused"

\* A capture that is being stopped is the only one, and is stopped once.
StopsAlone ==
  /\ Stopping => NoneRunning /\ phase \notin Waiting /\ run # "preparing"
  /\ \A j, k \in Job : job[j].pc = "stopping" /\ job[k].pc = "stopping" => j = k

\* Nobody waits for the link while a capture runs, or under a menu.
WaitsQuietly == phase \in Waiting => NoneRunning /\ ~menu

\* The menu that offers a restart is not there twice.
OneMenu ==
  /\ menu /\ phase = "listening" => ~timer
  /\ May("restart") /\ Stopping /\ opt.mode = "tui" => ~timer /\ ~(menu /\ phase = "listening")
  /\ RestartStops => ~menu /\ ~timer

OneCapture == \A i \in Source : src[i] = "running" => current = i

Apart == ~(May("restart") /\ May("quit"))
Owned == OneCapture /\ FreshRun /\ StopsAlone /\ WaitsQuietly /\ OneMenu

\* Where the flow of a device leads to.
Ahead == {"device-found", "configuring", "verifying", "connected"}

FlowLeads ==
  /\ phase' = phase \/ phase' \in Ahead
  /\ run' = run \/ run' = "resolved"
  /\ flow' # "none" /\ (ready' = ready \/ flow' = "ended")

\* Verification and the end of the flow, begun in the phase or ahead of it.
LEMMA EndsAhead ==
  ASSUME NEW p \in Ahead \union {phase}, FinishConnected(p)
  PROVE  FlowLeads
  BY DEF FinishConnected, Resolved, FlowLeads, Ahead

LEMMA ThrowsInPlace ==
  ASSUME FlowThrows
  PROVE  FlowLeads
  BY DEF FlowThrows, FlowLeads

LEMMA VerifiesAhead ==
  ASSUME NEW p \in Ahead \union {phase}, Verify(p)
  PROVE  FlowLeads
<1>. DEFINE q == IF p = "device-found" THEN startVerify[p] ELSE p
<1>1. q \in Ahead \union {phase}
  BY FlowMethodTypes DEF Ahead
<1>2. CASE opt.probe
  <2>1. phase' = q /\ flow' = "probing" /\ UNCHANGED <<ready, run>>
    BY <1>2 DEF Verify
  <2>. QED BY <1>1, <2>1 DEF FlowLeads
<1>3. CASE ~opt.probe /\ q = "verifying"
  <2>1. FinishConnected("connected")
    BY <1>3, FlowMethodTypes DEF Verify
  <2>. QED BY <2>1, EndsAhead DEF Ahead
<1>4. CASE ~opt.probe /\ q # "verifying"
  <2>1. FlowThrows
    BY <1>4 DEF Verify
  <2>. QED BY <2>1, ThrowsInPlace
<1>. QED BY <1>2, <1>3, <1>4

LEMMA FlowLeadsAhead ==
  ASSUME DeviceFound \/ FlowStep
  PROVE  FlowLeads
<1>1. CASE DeviceFound
  <2>. DEFINE p == IF Accepts(deviceFound) THEN deviceFound[phase] ELSE phase
  <2>1. p \in Ahead \union {phase}
    BY FlowMethodTypes DEF Accepts, Ahead
  <2>2. FinishConnected(p) \/ (phase' = p /\ flow' = "enumerating" /\ UNCHANGED <<ready, run>>)
    BY <1>1 DEF DeviceFound
  <2>. HIDE DEF p
  <2>3. CASE phase' = p /\ flow' = "enumerating" /\ UNCHANGED <<ready, run>>
    BY <2>1, <2>3 DEF FlowLeads
  <2>. QED BY <2>1, <2>2, <2>3, EndsAhead
<1>2. CASE Evaluated
  <2>1. CASE flow' = "prompt" /\ UNCHANGED <<phase, ready, run>>
    BY <2>1 DEF FlowLeads
  <2>. QED BY <1>2, <2>1, EndsAhead, VerifiesAhead DEF Evaluated
<1>3. CASE Confirmed
  <2>1. CASE Moves(startConfigure) /\ flow' = "applying" /\ UNCHANGED <<ready, run>>
    BY <2>1, FlowMethodTypes DEF Moves, Accepts, FlowLeads, Ahead
  <2>. QED BY <1>3, <2>1, ThrowsInPlace DEF Confirmed
<1>4. CASE Declined \/ ApplyFails \/ Probed
  <2>1. FlowThrows \/ FinishConnected("connected") \/ FinishConnected("device-found")
    BY <1>4, FlowMethodTypes DEF Declined, ApplyFails, Probed, Accepts
  <2>. QED BY <2>1, ThrowsInPlace, EndsAhead DEF Ahead
<1>5. CASE Applied
  <2>1. FlowThrows \/ Verify("verifying")
    BY <1>5, FlowMethodTypes DEF Applied, Accepts
  <2>. QED BY <2>1, ThrowsInPlace, VerifiesAhead DEF Ahead
<1>. QED BY <1>1, <1>2, <1>3, <1>4, <1>5 DEF FlowStep

LEMMA OwnedFlow ==
  ASSUME TypeOK, Owned, DeviceFound \/ FlowStep
  PROVE  Owned'
<1>1. UNCHANGED <<src, current, job, menu, opt>> /\ (timer' = timer \/ timer' = FALSE)
  BY DEF DeviceFound, FlowStep, Evaluated, Confirmed, Declined, Applied, ApplyFails, Probed,
         capture, world
<1>2. run # "preparing"
  BY DEF Owned, FreshRun, DeviceFound, FlowStep, Evaluated, Confirmed, Declined, Applied,
         ApplyFails, Probed
<1>3. run' # "preparing" /\ (phase' = phase \/ phase' \in Ahead)
  BY <1>2, FlowLeadsAhead DEF FlowLeads
<1>4. phase' \in Waiting \union {"listening"} => phase' = phase
  BY <1>3 DEF Ahead, Waiting
<1>5. Stopping' = Stopping /\ NoneRunning' = NoneRunning /\ RestartStops' = RestartStops
  BY <1>1 DEF Stopping, NoneRunning, RestartStops
<1>6. OneCapture' /\ FreshRun'
  BY <1>1, <1>3 DEF Owned, OneCapture, FreshRun
<1>7. StopsAlone'
  BY <1>1, <1>3, <1>4, <1>5 DEF Owned, StopsAlone
<1>8. WaitsQuietly'
  BY <1>1, <1>4, <1>5 DEF Owned, WaitsQuietly
<1>9. OneMenu'
  BY <1>1, <1>4, <1>5 DEF Owned, OneMenu, May
<1>. QED BY <1>6, <1>7, <1>8, <1>9 DEF Owned

\* Moves that concern no capture, no menu and no call.
LEMMA OwnedFrame ==
  ASSUME TypeOK, Owned, RunFails \/ LinkChanges \/ UserConfirms \/ UNCHANGED vars
  PROVE  Owned'
<1>1. UNCHANGED <<src, current, job, menu, timer, flow, opt>>
  BY DEF RunFails, LinkChanges, UserConfirms, vars, capture, world
<1>2. (phase' = phase \/ (phase \in Waiting /\ phase' \in Waiting /\ phase' # "listening"
                           /\ run' = run))
      /\ (run' = run \/ run' = "failed")
  BY MethodTypes DEF RunFails, LinkChanges, UserConfirms, vars, Moves, Accepts, Waiting
<1>3. Stopping' = Stopping /\ NoneRunning' = NoneRunning /\ RestartStops' = RestartStops
  BY <1>1 DEF Stopping, NoneRunning, RestartStops
<1>4. OneCapture'
  BY <1>1 DEF Owned, OneCapture
<1>5. FreshRun'
  BY <1>1, <1>2 DEF Owned, FreshRun, Waiting
<1>6. StopsAlone'
  BY <1>1, <1>2, <1>3 DEF Owned, StopsAlone
<1>7. WaitsQuietly'
  BY <1>1, <1>2, <1>3 DEF Owned, WaitsQuietly
<1>8. OneMenu'
  BY <1>1, <1>2, <1>3 DEF Owned, OneMenu, May, Waiting
<1>. QED BY <1>4, <1>5, <1>6, <1>7, <1>8 DEF Owned

LEMMA OwnedTimer ==
  ASSUME TypeOK, Owned, TimerFires \/ UserKeepsListening
  PROVE  Owned'
<1>1. UNCHANGED <<phase, run, src, current, job, flow, opt>>
  BY DEF TimerFires, UserKeepsListening, capture, world
<1>2. Stopping' = Stopping /\ NoneRunning' = NoneRunning /\ RestartStops' = RestartStops
  BY <1>1 DEF Stopping, NoneRunning, RestartStops
<1>3. OneCapture' /\ StopsAlone'
  BY <1>1, <1>2 DEF Owned, OneCapture, StopsAlone
<1>4. CASE TimerFires
  <2>1. timer /\ timer' = FALSE /\ (menu' = menu \/ phase = "listening")
    BY <1>4 DEF TimerFires, TypeOK
  <2>2. FreshRun' /\ WaitsQuietly'
    BY <1>1, <1>2, <2>1 DEF Owned, FreshRun, WaitsQuietly, Waiting
  <2>3. OneMenu'
    BY <1>1, <1>2, <2>1 DEF Owned, OneMenu, May
  <2>. QED BY <1>3, <2>2, <2>3 DEF Owned
<1>5. CASE UserKeepsListening
  <2>1. menu /\ phase = "listening" /\ opt.mode = "tui" /\ menu' = FALSE
    BY <1>5 DEF UserKeepsListening, MenuKey, Key
  <2>2. FreshRun' /\ WaitsQuietly'
    BY <1>1, <1>2, <2>1 DEF Owned, FreshRun, WaitsQuietly
  <2>3. OneMenu'
    BY <1>1, <1>2, <2>1 DEF Owned, OneMenu, May
  <2>. QED BY <1>3, <2>2, <2>3 DEF Owned
<1>. QED BY <1>4, <1>5

\* A capture starts when none runs and none is being stopped.
LEMMA OwnedListening ==
  ASSUME TypeOK, Owned, phase \in Waiting \/ run = "preparing", EnterListening("listening"),
         UNCHANGED <<opt, menu, flow>>
  PROVE  Owned'
<1>1. NoneRunning /\ ~menu /\ ~Stopping
  BY DEF Owned, WaitsQuietly, FreshRun, StopsAlone, NoneRunning
<1>2. CASE CaptureStarts("listening")
  <2>1. PICK i \in Source : src' = [src EXCEPT ![i] = "running"] /\ current' = i
    BY <1>2 DEF CaptureStarts
  <2>2. phase' = "listening" /\ run' # "preparing" /\ job' = job
    BY <1>2 DEF CaptureStarts
  <2>3. ~Stopping' /\ ~RestartStops'
    BY <1>1, <2>2 DEF Stopping, RestartStops, Job
  <2>4. OneCapture'
    BY <1>1, <2>1 DEF OneCapture, NoneRunning, TypeOK
  <2>5. FreshRun' /\ WaitsQuietly' /\ OneMenu'
    BY <1>1, <2>2, <2>3 DEF FreshRun, WaitsQuietly, OneMenu, Waiting
  <2>6. StopsAlone'
    BY <2>2, <2>3 DEF StopsAlone, Stopping
  <2>. QED BY <2>4, <2>5, <2>6 DEF Owned
<1>3. CASE SpawnFails("listening")
  <2>1. PICK r \in ShutdownCall : Teardown("listening", r)
    BY <1>3 DEF SpawnFails
  <2>2. r \in Closer /\ r \in Job
    BY DEF Closer, Job
  <2>3. phase' \in Over /\ src' = src /\ run' # "preparing"
    BY <1>3, <2>1, <2>2, TeardownType DEF SpawnFails, Phase, Resolved
  <2>4. \A j \in Job : job'[j].pc # "stopping"
    BY <1>1, <2>1, <2>2 DEF Teardown, Reaches, Stopping, TypeOK
  <2>5. ~Stopping' /\ ~RestartStops' /\ NoneRunning'
    BY <1>1, <2>3, <2>4 DEF Stopping, RestartStops, Job, NoneRunning
  <2>6. OneCapture' /\ FreshRun' /\ WaitsQuietly' /\ OneMenu'
    BY <1>1, <2>3, <2>5 DEF OneCapture, NoneRunning, FreshRun, WaitsQuietly, OneMenu
  <2>7. StopsAlone'
    BY <2>4, <2>5 DEF StopsAlone
  <2>. QED BY <2>6, <2>7 DEF Owned
<1>. QED BY <1>2, <1>3 DEF EnterListening

LEMMA OwnedStarts ==
  ASSUME TypeOK, Owned, RunStarts \/ LinkEvent \/ UserSkips
  PROVE  Owned'
<1>1. CASE RunStarts /\ opt.skipReplug
  <2>1. EnterListening("listening")
    BY <1>1, MethodTypes DEF RunStarts, Accepts
  <2>. QED BY <1>1, <2>1, OwnedListening DEF RunStarts, world
<1>2. CASE RunStarts /\ ~opt.skipReplug
  <2>1. NoneRunning /\ ~menu /\ ~Stopping /\ run' = "waiting"
        /\ UNCHANGED <<opt, menu, flow, src, current, job, timer>>
    BY <1>2 DEF RunStarts, Owned, FreshRun, StopsAlone, NoneRunning, capture, world
  <2>2. ~Stopping' /\ ~RestartStops' /\ NoneRunning'
    BY <2>1 DEF Stopping, RestartStops, Job, NoneRunning
  <2>3. StopsAlone'
    BY <2>2 DEF StopsAlone, Stopping
  <2>4. OneCapture' /\ FreshRun' /\ WaitsQuietly' /\ OneMenu'
    BY <2>1, <2>2 DEF OneCapture, NoneRunning, FreshRun, WaitsQuietly, OneMenu
  <2>. QED BY <2>3, <2>4 DEF Owned
<1>3. CASE LinkEvent
  <2>1. CASE link = "up" /\ phase = "waiting-for-link" /\ EnterListening(linkUp[phase])
    BY <1>3, <2>1, MethodTypes, OwnedListening DEF LinkEvent, world, Waiting
  <2>2. CASE UNCHANGED <<run, capture, timer, job>>
             /\ (phase' = phase \/ (phase \in Waiting /\ phase' \in Waiting))
    <3>1. UNCHANGED <<src, current, job, menu, timer, flow, opt, run>>
      BY <1>3, <2>2 DEF LinkEvent, capture, world
    <3>2. Stopping' = Stopping /\ NoneRunning' = NoneRunning /\ RestartStops' = RestartStops
      BY <3>1 DEF Stopping, NoneRunning, RestartStops
    <3>3. OneCapture' /\ FreshRun'
      BY <2>2, <3>1 DEF Owned, OneCapture, FreshRun, Waiting
    <3>4. StopsAlone'
      BY <2>2, <3>1, <3>2 DEF Owned, StopsAlone
    <3>5. WaitsQuietly' /\ OneMenu'
      BY <2>2, <3>1, <3>2 DEF Owned, WaitsQuietly, OneMenu, May, Waiting
    <3>. QED BY <3>3, <3>4, <3>5 DEF Owned
  <2>3. CASE Moves(linkDown) /\ UNCHANGED <<run, capture, monitor, timer, fatal, job>>
    <3>1. phase \in Waiting /\ phase' \in Waiting
      BY <2>3, MethodTypes DEF Moves, Accepts, linkDown, Waiting
    <3>. QED BY <2>2, <2>3, <3>1
  <2>. QED BY <1>3, <2>1, <2>2, <2>3 DEF LinkEvent
<1>4. CASE UserSkips
  <2>1. phase \in Waiting /\ skipReplug[phase] = "listening"
    BY <1>4 DEF UserSkips, skipReplug, Waiting
  <2>. QED BY <1>4, <2>1, OwnedListening DEF UserSkips, world
<1>. QED BY <1>1, <1>2, <1>3, <1>4

\* After stop() has returned, or had nothing to stop.
LEMMA OwnedTeardown ==
  ASSUME TypeOK, Owned, NEW r \in Closer, Teardown(phase, r), NoneRunning',
         UNCHANGED <<opt, menu, flow>>, timer' = timer \/ timer' = FALSE,
         run' = "preparing" => run = "preparing" /\ src' = src
  PROVE  Owned'
<1>1. r \in Job /\ phase \in Phase
  BY DEF Job, TypeOK
<1>2. phase' \in Over
  BY <1>1, TeardownType
<1>3. \A j \in Job : job'[j].pc = "stopping" => job[j].pc = "stopping"
  BY <1>1 DEF Teardown, Reaches, TypeOK
<1>4. (Stopping' => Stopping) /\ (RestartStops' => RestartStops)
  BY <1>3 DEF Stopping, RestartStops, Job
<1>5. OneCapture'
  BY DEF OneCapture, NoneRunning
<1>6. FreshRun'
  <2>. SUFFICES ASSUME run' = "preparing" PROVE FreshRun'
    BY DEF FreshRun
  <2>1. phase = "idle" /\ flow = "none" /\ ~menu /\ \A i \in Source : src[i] = "unused"
    BY DEF Owned, FreshRun
  <2>2. phase' = "idle"
    BY <2>1 DEF Teardown, beginCleanup, cleanupComplete, Phase
  <2>. QED BY <2>1, <2>2 DEF FreshRun
<1>7. StopsAlone'
  BY <1>2, <1>3, <1>4, ListeningPhases DEF Owned, StopsAlone
<1>8. WaitsQuietly'
  BY <1>2, ListeningPhases DEF WaitsQuietly
<1>9. OneMenu'
  <2>1. phase' # "listening"
    BY <1>2 DEF Over
  <2>. QED BY <1>4, <2>1 DEF Owned, OneMenu, May
<1>. QED BY <1>5, <1>6, <1>7, <1>8, <1>9 DEF Owned

\* When a call begins to stop a capture, it is the only one.
LEMMA StopBeginsAlone ==
  ASSUME TypeOK, Owned, MustWait, NEW j \in Job, StopBegins(j)
  PROVE  /\ NoneRunning' /\ ~Stopping /\ run # "preparing" /\ phase \notin Waiting
         /\ \A k \in Job : job'[k].pc = "stopping" => k = j
<1>1. current \in Source /\ src[current] = "running"
  BY DEF MustWait, TypeOK
<1>2. ~NoneRunning
  BY <1>1 DEF NoneRunning
<1>3. ~Stopping /\ phase \notin Waiting
  BY <1>2 DEF Owned, StopsAlone, WaitsQuietly
<1>4. run # "preparing"
  BY <1>1 DEF Owned, FreshRun
<1>5. NoneRunning'
  BY <1>1 DEF StopBegins, NoneRunning, Owned, OneCapture, TypeOK
<1>6. ASSUME NEW k \in Job, k # j PROVE job'[k].pc # "stopping"
  BY <1>3, <1>6 DEF StopBegins, Stopping, TypeOK
<1>. QED BY <1>3, <1>4, <1>5, <1>6

LEMMA OwnedShutdown ==
  ASSUME TypeOK, Owned, Apart, NEW r \in Closer, Shutdown(r) \/ StopEnds(r) \/ RestoreEnds(r)
  PROVE  Owned'
<1>1. r \in Job /\ r \notin RestartCall
  BY CallAssumption DEF Closer, Job
<1>2. CASE Shutdown(r) /\ MustWait
  <2>1. StopBegins(r) /\ UNCHANGED <<opt, phase, current, menu, flow>> /\ timer' = FALSE
    BY <1>2 DEF Shutdown, world
  <2>2. run' = run \/ run' = "abandoned"
    BY <1>2 DEF Shutdown
  <2>3. /\ NoneRunning' /\ ~Stopping /\ run # "preparing" /\ phase \notin Waiting
        /\ \A k \in Job : job'[k].pc = "stopping" => k = r
    BY <1>1, <1>2, <2>1, StopBeginsAlone
  <2>4. ~RestartStops'
    BY <1>1, <2>3 DEF RestartStops, Job
  <2>5. OneCapture' /\ FreshRun' /\ StopsAlone' /\ WaitsQuietly'
    BY <2>1, <2>2, <2>3 DEF OneCapture, NoneRunning, FreshRun, StopsAlone, WaitsQuietly
  <2>6. May("restart") /\ opt.mode = "tui" => ~(menu /\ phase = "listening")
    BY <1>2 DEF Shutdown, AsksToClose, Apart, May
  <2>7. OneMenu'
    BY <2>1, <2>4, <2>6 DEF OneMenu, May
  <2>. QED BY <2>5, <2>7 DEF Owned
<1>3. CASE Shutdown(r) /\ ~MustWait
  <2>1. NoneRunning
    BY <1>3, NoSourceAssumption DEF NoneRunning, Owned, OneCapture, MustWait
  <2>2. Teardown(phase, r) /\ src' = src /\ timer' = FALSE /\ UNCHANGED <<opt, menu, flow>>
        /\ (run' = "preparing" => run = "preparing")
    BY <1>3 DEF Shutdown, world
  <2>3. NoneRunning'
    BY <2>1, <2>2 DEF NoneRunning
  <2>. QED BY <2>2, <2>3, OwnedTeardown
<1>4. CASE StopEnds(r)
  <2>1. Stopping
    BY <1>1, <1>4 DEF StopEnds, Stopping
  <2>2. NoneRunning /\ run # "preparing"
    BY <2>1 DEF Owned, StopsAlone
  <2>3. NoneRunning'
    BY <1>4, <2>2 DEF StopEnds, NoneRunning, TypeOK
  <2>. QED BY <1>4, <2>2, <2>3, OwnedTeardown DEF StopEnds, world
<1>5. CASE RestoreEnds(r)
  <2>1. UNCHANGED <<opt, src, current, run, timer, menu, flow>>
    BY <1>5 DEF RestoreEnds, capture, world
  <2>2. phase' = phase \/ (phase # "idle" /\ phase' \in Over)
    BY <1>5, MethodTypes DEF RestoreEnds, Accepts, cleanupComplete
  <2>3. \A j \in Job : job'[j].pc = "stopping" => job[j].pc = "stopping"
    BY <1>1, <1>5 DEF RestoreEnds, Reaches, TypeOK
  <2>4. (Stopping' => Stopping) /\ (RestartStops' => RestartStops) /\ NoneRunning' = NoneRunning
    BY <2>1, <2>3 DEF Stopping, RestartStops, NoneRunning, Job
  <2>5. OneCapture' /\ FreshRun'
    BY <2>1, <2>2 DEF Owned, OneCapture, FreshRun
  <2>6. StopsAlone' /\ WaitsQuietly'
    BY <2>1, <2>2, <2>3, <2>4, ListeningPhases DEF Owned, StopsAlone, WaitsQuietly
  <2>7. OneMenu'
    BY <2>1, <2>2, <2>4 DEF Owned, OneMenu, May, Over
  <2>. QED BY <2>5, <2>6, <2>7 DEF Owned
<1>. QED BY <1>2, <1>3, <1>4, <1>5

LEMMA OwnedDeath ==
  ASSUME TypeOK, Owned, CaptureDies
  PROVE  Owned'
<1>1. PICK r \in ShutdownCall : Teardown(phase, r)
  BY DEF CaptureDies, OnCaptureError
<1>2. r \in Closer
  BY DEF Closer
<1>3. current \in Source /\ src[current] = "running" /\ src' = [src EXCEPT ![current] = "closed"]
  BY DEF CaptureDies, MustWait, TypeOK
<1>4. NoneRunning'
  BY <1>3 DEF NoneRunning, Owned, OneCapture, TypeOK
<1>5. run # "preparing"
  BY <1>3 DEF Owned, FreshRun
<1>. QED BY <1>1, <1>2, <1>4, <1>5, OwnedTeardown
     DEF CaptureDies, OnCaptureError, Resolved, world

\* The workflow begins anew when nothing runs any more.
LEMMA OwnedRestart ==
  ASSUME TypeOK, Owned, NoneRunning', phase' \in Waiting, run # "preparing", run' = run,
         ~menu', \A k \in Job : job'[k].pc # "stopping"
  PROVE  Owned'
<1>1. ~Stopping' /\ ~RestartStops'
  BY DEF Stopping, RestartStops, Job
<1>. QED BY <1>1 DEF Owned, OneCapture, NoneRunning, FreshRun, StopsAlone, WaitsQuietly, OneMenu

LEMMA OwnedRestarts ==
  ASSUME TypeOK, Owned, NEW j \in RestartCall, UserRestarts(j) \/ RestartResumes(j)
  PROVE  Owned'
<1>1. j \in Job
  BY DEF Job
<1>2. CASE UserRestarts(j) /\ MustWait
  <2>1. /\ StopBegins(j) /\ UNCHANGED <<opt, phase, run, current, timer, flow>>
        /\ menu /\ phase = "listening" /\ menu' = FALSE
    BY <1>2 DEF UserRestarts, MenuKey, Key, world
  <2>2. /\ NoneRunning' /\ ~Stopping /\ run # "preparing" /\ phase \notin Waiting
        /\ \A k \in Job : job'[k].pc = "stopping" => k = j
    BY <1>1, <1>2, <2>1, StopBeginsAlone
  <2>3. ~timer
    BY <2>1 DEF Owned, OneMenu
  <2>. QED BY <2>1, <2>2, <2>3
       DEF Owned, OneCapture, NoneRunning, FreshRun, StopsAlone, WaitsQuietly, OneMenu
<1>3. CASE UserRestarts(j) /\ ~MustWait
  <2>1. /\ May("restart") /\ opt.mode = "tui" /\ menu /\ phase = "listening"
        /\ Restart /\ Reaches(j, "done") /\ UNCHANGED <<src, run>> /\ menu' = FALSE
    BY <1>3 DEF UserRestarts, MenuKey, Key
  <2>2. ~Stopping
    BY <2>1 DEF Owned, OneMenu
  <2>3. \A k \in Job : job'[k].pc # "stopping"
    BY <1>1, <2>1, <2>2 DEF Reaches, Stopping, TypeOK
  <2>4. NoneRunning'
    BY <1>3, <2>1, NoSourceAssumption DEF NoneRunning, Owned, OneCapture, MustWait
  <2>5. run # "preparing"
    BY <2>1 DEF Owned, FreshRun
  <2>6. phase' \in Waiting
    BY <2>1, MethodTypes DEF Restart, restart, Phase, Waiting
  <2>. QED BY <2>1, <2>3, <2>4, <2>5, <2>6, OwnedRestart
<1>4. CASE RestartResumes(j)
  <2>1. RestartStops /\ Stopping
    BY <1>1, <1>4 DEF RestartResumes, RestartStops, Stopping
  <2>2. NoneRunning /\ run # "preparing" /\ ~menu
    BY <2>1 DEF Owned, StopsAlone, OneMenu
  <2>3. NoneRunning'
    BY <1>4, <2>2 DEF RestartResumes, NoneRunning, TypeOK
  <2>4. \A k \in Job : job[k].pc = "stopping" => k = j
    BY <1>1, <1>4 DEF RestartResumes, Owned, StopsAlone
  <2>5. \A k \in Job : job'[k].pc # "stopping"
    BY <1>1, <1>4, <2>4 DEF RestartResumes, Reaches, TypeOK
  <2>6. phase' \in Waiting
    BY <1>4, MethodTypes DEF RestartResumes, Restart, Accepts, Waiting
  <2>. QED BY <1>4, <2>2, <2>3, <2>5, <2>6, OwnedRestart DEF RestartResumes
<1>. QED BY <1>2, <1>3, <1>4

LEMMA OwnedStep == TypeOK /\ Apart /\ Owned /\ [Next]_vars => Owned'
<1>. SUFFICES ASSUME TypeOK, Apart, Owned, [Next]_vars PROVE Owned'
  OBVIOUS
<1>. QED BY OwnedFrame, OwnedTimer, OwnedStarts, OwnedFlow, OwnedShutdown, OwnedDeath, OwnedRestarts
     DEF Next, UserStep

\* The options do not change.
LEMMA OptFrame == [Next]_vars => UNCHANGED opt
BY DEF Next, vars, world, RunFails, RunStarts, LinkChanges, LinkEvent, TimerFires, CaptureDies,
       DeviceFound, FlowStep, Evaluated, Confirmed, Declined, Applied, ApplyFails, Probed,
       UserStep, UserConfirms, UserSkips, UserKeepsListening, UserRestarts, Shutdown, StopEnds,
       RestoreEnds, RestartResumes

LEMMA OwnedApart == Spec => [](Apart => Owned)
<1>1. Init => Owned
  <2>. SUFFICES ASSUME Init PROVE Owned
    OBVIOUS
  <2>1. \A j \in Job : job[j].pc = "idle"
    BY DEF Init
  <2>2. ~Stopping /\ ~RestartStops
    BY <2>1 DEF Stopping, RestartStops, Job
  <2>. QED BY <2>1, <2>2
       DEF Init, Owned, OneCapture, FreshRun, StopsAlone, WaitsQuietly, OneMenu, NoneRunning, Waiting
<1>2. [Next]_vars => (Apart' <=> Apart)
  BY OptFrame DEF Apart, May
<1>3. TypeOK /\ (Apart => Owned) /\ [Next]_vars => (Apart => Owned)'
  BY <1>2, OwnedStep
<1>. QED BY <1>1, <1>3, TypeCorrect, PTL DEF Spec

\* No capture runs that the engine has lost, in a session with quits or with
\* restarts: no overlap of a shutdown or a restart with a discovery, a death of
\* the capture or a replug starts one while another runs.
THEOREM CaptureAlwaysOwned == Spec => []CaptureOwned
<1>1. (Apart => Owned) => CaptureOwned
  BY DEF Apart, Owned, OneCapture, CaptureOwned
<1>. QED BY <1>1, OwnedApart, PTL

-----------------------------------------------------------------------------
(* Who listens has a capture *)

LEMMA CapturesListening ==
  ASSUME TypeOK, NEW p \in Phase, EnterListening(p)
  PROVE  phase' \in Over \/ MustWait'
<1>1. CASE CaptureStarts(p)
  <2>1. PICK i \in Source : src' = [src EXCEPT ![i] = "running"] /\ current' = i
    BY <1>1 DEF CaptureStarts
  <2>2. src'[i] = "running"
    BY <2>1 DEF TypeOK
  <2>3. current' # NoSource
    BY <2>1, NoSourceAssumption
  <2>. QED BY <2>1, <2>2, <2>3 DEF MustWait
<1>2. CASE SpawnFails(p)
  BY <1>2, TeardownType DEF SpawnFails, Closer
<1>. QED BY <1>1, <1>2 DEF EnterListening

\* Every step leaves the capture and the calls alone, or ends or does not begin
\* the listening, or stops or starts the capture of a listening engine.
LEMMA ListeningStep == TypeOK /\ ListeningCaptures /\ [Next]_vars => ListeningCaptures'
<1>. SUFFICES ASSUME TypeOK, ListeningCaptures, [Next]_vars PROVE ListeningCaptures'
  OBVIOUS
<1>. phase \in Phase
  BY DEF TypeOK
<1>1. ASSUME UNCHANGED <<src, current, job>>, phase' # "listening" \/ phase' = phase
      PROVE  ListeningCaptures'
  BY <1>1 DEF ListeningCaptures, MustWait, Stopping
<1>2. ASSUME phase' \in Over \union Waiting
      PROVE  ListeningCaptures'
  BY <1>2 DEF ListeningCaptures, Over, Waiting
<1>3. ASSUME EnterListening("listening")
      PROVE  ListeningCaptures'
  BY <1>2, <1>3, CapturesListening DEF ListeningCaptures, Phase
<1>4. ASSUME NEW j \in Job, StopBegins(j)
      PROVE  ListeningCaptures'
  <2>1. job'[j].pc = "stopping"
    BY <1>4 DEF StopBegins, TypeOK
  <2>. QED BY <2>1 DEF ListeningCaptures, Stopping
<1>5. CASE DeviceFound \/ FlowStep
  <2>1. UNCHANGED <<src, current, job>>
    BY <1>5 DEF DeviceFound, FlowStep, Evaluated, Confirmed, Declined, Applied, ApplyFails, Probed,
               capture
  <2>. QED BY <1>1, <1>5, <2>1, FlowLeadsAhead DEF FlowLeads, Ahead
<1>6. CASE RunStarts
  <2>1. CASE opt.skipReplug
    BY <1>3, <1>6, <2>1, MethodTypes DEF RunStarts, Accepts
  <2>2. CASE ~opt.skipReplug
    BY <1>2, <1>6, <2>2 DEF RunStarts, Moves, Accepts, start, Waiting
  <2>. QED BY <2>1, <2>2
<1>7. CASE LinkEvent
  <2>1. CASE Moves(linkDown)
    BY <1>2, <2>1, MethodTypes DEF Moves, Accepts, Waiting
  <2>2. CASE EnterListening(linkUp[phase]) /\ phase = "waiting-for-link"
    BY <1>3, <2>2, MethodTypes
  <2>3. CASE UNCHANGED <<phase, capture, job>>
    BY <1>1, <2>3 DEF capture
  <2>. QED BY <1>7, <2>1, <2>2, <2>3 DEF LinkEvent
<1>8. CASE UserSkips
  BY <1>3, <1>8 DEF UserSkips, skipReplug, Waiting
<1>9. CASE UserConfirms
  BY <1>2, <1>9, MethodTypes DEF UserConfirms, Moves, Accepts, Waiting
<1>10. CASE RunFails \/ LinkChanges \/ TimerFires \/ UserKeepsListening \/ UNCHANGED vars
  BY <1>1, <1>10 DEF RunFails, LinkChanges, TimerFires, UserKeepsListening, vars, capture
<1>11. CASE CaptureDies
  <2>. PICK r \in ShutdownCall : Teardown(phase, r)
    BY <1>11 DEF CaptureDies, OnCaptureError
  <2>. QED BY <1>2, TeardownType DEF Closer
<1>12. ASSUME NEW r \in Closer, Shutdown(r) \/ StopEnds(r) \/ RestoreEnds(r)
       PROVE  ListeningCaptures'
  <2>1. CASE Teardown(phase, r)
    BY <1>2, <2>1, TeardownType
  <2>2. CASE StopBegins(r)
    BY <1>4, <2>2 DEF Job
  <2>3. CASE RestoreEnds(r)
    <3>1. UNCHANGED <<src, current>> /\ (phase' = phase \/ phase' \in Over)
      BY <2>3, MethodTypes DEF RestoreEnds, Accepts, capture
    <3>2. \A j \in Job : job[j].pc = "stopping" => job'[j] = job[j]
      BY <2>3 DEF RestoreEnds, Reaches, TypeOK
    <3>3. Stopping => Stopping'
      BY <3>2 DEF Stopping
    <3>. QED BY <1>2, <3>1, <3>3 DEF ListeningCaptures, MustWait
  <2>. QED BY <1>12, <2>1, <2>2, <2>3 DEF Shutdown, StopEnds
<1>13. ASSUME NEW j \in RestartCall, UserRestarts(j) \/ RestartResumes(j)
       PROVE  ListeningCaptures'
  <2>1. CASE Restart /\ (phase = "listening" \/ Accepts(restart))
    BY <1>2, <2>1, MethodTypes DEF Restart, Accepts, restart, Phase, Waiting
  <2>2. CASE StopBegins(j)
    BY <1>4, <2>2 DEF Job
  <2>. QED BY <1>13, <2>1, <2>2 DEF UserRestarts, RestartResumes, MenuKey
<1>. QED BY <1>5, <1>6, <1>7, <1>8, <1>9, <1>10, <1>11, <1>12, <1>13 DEF Next, UserStep

\* While the screen says that Etherfind is listening, a capture runs that the
\* engine can stop, or is being stopped, whatever overlaps.
THEOREM ListeningAlwaysCaptures == Spec => []ListeningCaptures
<1>1. Init => ListeningCaptures
  BY DEF Init, ListeningCaptures
<1>. QED BY <1>1, TypeCorrect, ListeningStep, PTL DEF Spec

-----------------------------------------------------------------------------
(* No transition is invalid unless something ends or restarts the workflow *)

Undisturbed == opt.inputs \intersect {"quit", "error", "restart"} = {}

NothingLive == \A i \in Source : src[i] \notin {"running", "stopping"}

\* Where the phase is while the flow waits.
FlowInPhase ==
  /\ flow # "threw"
  /\ flow \in {"enumerating", "prompt"} => phase = "device-found"
  /\ flow = "applying" => phase = "configuring"
  /\ flow = "probing" => phase = "verifying"
  /\ FlowHasDevice

\* The workflow came to its end, or there is nothing that could be found.
Settled == flow = "ended" \/ (flow = "none" /\ NothingLive /\ phase \in Over)

\* Only a settled workflow is closed.
ClosedLast ==
  /\ ready => flow = "ended"
  /\ run \in {"resolved", "failed"} => Settled
  /\ \A r \in Closer :
       /\ job[r].pc # "threw"
       /\ job[r].pc # "idle" => Settled /\ run # "preparing" /\ phase \notin Waiting
       /\ job[r].pc = "stopping" => flow = "ended"
       /\ job[r].pc = "restoring" => phase \in Over
  /\ \A j \in RestartCall : job[j].pc = "idle"

\* A capture runs for a workflow that listens, or has found its device.
CapturesFor ==
  /\ run = "preparing" \/ phase \in Waiting => flow = "none" /\ NothingLive
  /\ NothingLive \/ flow # "none" \/ phase = "listening"

Lawful == FlowInPhase /\ ClosedLast /\ CapturesFor

\* The phases in which verify() is called allow it.
LEMMA VerifyLawful ==
  ASSUME NEW p \in {"device-found", "verifying"}, Verify(p)
  PROVE  \/ phase' = "verifying" /\ flow' = "probing" /\ UNCHANGED <<ready, run>>
         \/ flow' = "ended" /\ phase' \notin Waiting
<1>. DEFINE q == IF p = "device-found" THEN startVerify[p] ELSE p
<1>1. q = "verifying"
  BY FlowMethodTypes
<1>2. CASE opt.probe
  BY <1>1, <1>2 DEF Verify
<1>3. CASE ~opt.probe
  <2>1. FinishConnected("connected")
    BY <1>1, <1>3, FlowMethodTypes DEF Verify
  <2>. QED BY <2>1 DEF FinishConnected, Waiting
<1>. QED BY <1>2, <1>3

\* Where the flow goes.
LEMMA FlowLawful ==
  ASSUME TypeOK, Lawful, DeviceFound \/ FlowStep
  PROVE  /\ best' /\ flow' # "none" /\ FlowInPhase' /\ phase' \notin Waiting
         /\ \/ UNCHANGED <<ready, run>>
            \/ flow' = "ended"
<1>1. CASE DeviceFound
  <2>1. flow = "none" /\ best'
    BY <1>1 DEF DeviceFound, Lawful, FlowInPhase, FlowHasDevice
  <2>2. phase = "listening"
    BY <1>1, <2>1 DEF DeviceFound, Lawful, CapturesFor, NothingLive
  <2>3. Accepts(deviceFound) /\ deviceFound[phase] = "device-found"
    BY <2>2 DEF Accepts, deviceFound
  <2>4. CASE opt.listenOnly
    <3>1. FinishConnected("device-found")
      BY <1>1, <2>3, <2>4 DEF DeviceFound
    <3>. QED BY <2>1, <3>1 DEF FinishConnected, Finishable, FlowInPhase, FlowHasDevice, Waiting
  <2>5. CASE ~opt.listenOnly
    <3>1. phase' = "device-found" /\ flow' = "enumerating" /\ UNCHANGED <<ready, run>>
      BY <1>1, <2>3, <2>5 DEF DeviceFound
    <3>. QED BY <2>1, <3>1 DEF FlowInPhase, FlowHasDevice, Waiting
  <2>. QED BY <2>4, <2>5
<1>2. CASE FlowStep
  <2>1. flow # "none" /\ best' = best
    BY <1>2 DEF FlowStep, Evaluated, Confirmed, Declined, Applied, ApplyFails, Probed
  <2>2. best'
    BY <2>1 DEF Lawful, FlowInPhase, FlowHasDevice
  <2>3. ASSUME NEW p \in {"device-found", "verifying", "connected"}, FinishConnected(p)
        PROVE  flow' = "ended" /\ phase' \notin Waiting
    BY <2>3 DEF FinishConnected, Waiting
  <2>4. \/ phase' = "verifying" /\ flow' = "probing" /\ UNCHANGED <<ready, run>>
        \/ phase' = "device-found" /\ flow' = "prompt" /\ UNCHANGED <<ready, run>>
        \/ phase' = "configuring" /\ flow' = "applying" /\ UNCHANGED <<ready, run>>
        \/ flow' = "ended" /\ phase' \notin Waiting
    <3>1. CASE Evaluated
      <4>1. phase = "device-found"
        BY <3>1 DEF Evaluated, Lawful, FlowInPhase
      <4>. QED BY <2>3, <3>1, <4>1, VerifyLawful DEF Evaluated
    <3>2. CASE Confirmed
      <4>1. phase = "device-found" /\ Accepts(startConfigure)
        BY <3>2 DEF Confirmed, Lawful, FlowInPhase, Accepts, startConfigure
      <4>. QED BY <3>2, <4>1, FlowMethodTypes DEF Confirmed, Moves, Accepts
    <3>3. CASE Declined
      <4>1. phase = "device-found" /\ Accepts(configureDeclined)
        BY <3>3 DEF Declined, Lawful, FlowInPhase, Accepts, configureDeclined
      <4>. QED BY <2>3, <3>3, <4>1, FlowMethodTypes DEF Declined, Accepts
    <3>4. CASE Applied
      <4>1. phase = "configuring" /\ Accepts(configApplied)
        BY <3>4 DEF Applied, Lawful, FlowInPhase, Accepts, configApplied
      <4>2. Verify("verifying")
        BY <3>4, <4>1, FlowMethodTypes DEF Applied
      <4>. QED BY <4>2, VerifyLawful
    <3>5. CASE ApplyFails
      <4>1. phase = "configuring" /\ Accepts(configureFailed)
        BY <3>5 DEF ApplyFails, Lawful, FlowInPhase, Accepts, configureFailed
      <4>. QED BY <2>3, <3>5, <4>1, FlowMethodTypes DEF ApplyFails
    <3>6. CASE Probed
      <4>1. phase = "verifying" /\ Accepts(verificationEnds)
        BY <3>6 DEF Probed, Lawful, FlowInPhase, Accepts, verificationEnds
      <4>. QED BY <2>3, <3>6, <4>1, FlowMethodTypes DEF Probed
    <3>. QED BY <1>2, <3>1, <3>2, <3>3, <3>4, <3>5, <3>6 DEF FlowStep
  <2>. QED BY <2>2, <2>4 DEF FlowInPhase, FlowHasDevice, Waiting
<1>. QED BY <1>1, <1>2

LEMMA LawfulFlow ==
  ASSUME TypeOK, Lawful, DeviceFound \/ FlowStep
  PROVE  Lawful'
<1>1. UNCHANGED <<src, job>>
  BY DEF DeviceFound, FlowStep, Evaluated, Confirmed, Declined, Applied, ApplyFails, Probed, capture
<1>2. NothingLive' = NothingLive
  BY <1>1 DEF NothingLive
<1>3. /\ best' /\ flow' # "none" /\ FlowInPhase' /\ phase' \notin Waiting
      /\ UNCHANGED <<ready, run>> \/ flow' = "ended"
  BY FlowLawful
<1>4. ~Settled
  BY DEF DeviceFound, FlowStep, Evaluated, Confirmed, Declined, Applied, ApplyFails, Probed,
         Lawful, FlowInPhase, FlowHasDevice, Settled, NothingLive
<1>5. run # "preparing" /\ (run' = run \/ run' = "resolved")
  <2>1. flow # "none" \/ ~NothingLive
    BY DEF DeviceFound, FlowStep, Evaluated, Confirmed, Declined, Applied, ApplyFails, Probed,
           NothingLive
  <2>. QED BY <2>1, FlowLeadsAhead DEF FlowLeads, Lawful, CapturesFor
<1>6. \A r \in Closer : job'[r].pc = "idle"
  BY <1>1, <1>4 DEF Lawful, ClosedLast
<1>7. ClosedLast'
  <2>1. \A r \in Closer : job'[r].pc \notin {"threw", "stopping", "restoring"}
    BY <1>6
  <2>2. ready' => flow' = "ended"
    BY <1>3, <1>4 DEF Lawful, ClosedLast, Settled
  <2>3. run' \in {"resolved", "failed"} => Settled'
    BY <1>3, <1>4 DEF Lawful, ClosedLast, Settled
  <2>4. \A j \in RestartCall : job'[j].pc = "idle"
    BY <1>1 DEF Lawful, ClosedLast
  <2>. QED BY <1>6, <2>1, <2>2, <2>3, <2>4 DEF ClosedLast
<1>8. CapturesFor'
  BY <1>3, <1>5 DEF CapturesFor
<1>. QED BY <1>3, <1>7, <1>8 DEF Lawful

LEMMA LawfulFrame ==
  ASSUME TypeOK, Owned, Lawful,
         RunFails \/ LinkChanges \/ TimerFires \/ UserKeepsListening \/ UserConfirms
         \/ UNCHANGED vars
  PROVE  Lawful'
<1>1. UNCHANGED <<src, job, flow, best, ready>> /\ NothingLive' = NothingLive
  BY DEF RunFails, LinkChanges, TimerFires, UserKeepsListening, UserConfirms, vars, capture, told,
         NothingLive
<1>2. \/ UNCHANGED <<phase, run>>
      \/ UNCHANGED phase /\ run = "preparing" /\ run' = "failed"
      \/ phase \in Waiting /\ phase' \in Waiting /\ run' = run
  BY MethodTypes
     DEF RunFails, LinkChanges, TimerFires, UserKeepsListening, UserConfirms, vars, Moves, Accepts,
         Waiting
<1>3. CASE UNCHANGED <<phase, run>>
  BY <1>1, <1>3 DEF Lawful, FlowInPhase, FlowHasDevice, ClosedLast, Settled, CapturesFor
<1>4. CASE UNCHANGED phase /\ run = "preparing" /\ run' = "failed"
  <2>1. Settled'
    BY <1>1, <1>4 DEF Owned, FreshRun, Lawful, CapturesFor, Settled, Over
  <2>. QED BY <1>1, <1>4, <2>1 DEF Lawful, FlowInPhase, FlowHasDevice, ClosedLast, Settled, CapturesFor
<1>5. CASE phase \in Waiting /\ phase' \in Waiting /\ run' = run
  <2>1. flow = "none" /\ NothingLive /\ \A r \in Closer : job[r].pc = "idle"
    BY <1>5 DEF Lawful, CapturesFor, ClosedLast
  <2>2. run \notin {"resolved", "failed"}
    BY <1>5, <2>1, ListeningPhases DEF Lawful, ClosedLast, Settled
  <2>. QED BY <1>1, <1>5, <2>1, <2>2
       DEF Lawful, FlowInPhase, FlowHasDevice, ClosedLast, CapturesFor
<1>. QED BY <1>2, <1>3, <1>4, <1>5

\* The engine begins to listen.
LEMMA LawfulListening ==
  ASSUME TypeOK, Lawful, phase \in Waiting \/ run = "preparing", EnterListening("listening"),
         UNCHANGED <<flow, best, ready>>
  PROVE  Lawful'
<1>1. flow = "none" /\ NothingLive /\ \A r \in Closer : job[r].pc = "idle"
  BY DEF Lawful, CapturesFor, ClosedLast
<1>2. run \notin {"resolved", "failed"} /\ ~ready
  BY <1>1, ListeningPhases DEF Lawful, ClosedLast, Settled, TypeOK
<1>3. FlowInPhase'
  BY <1>1 DEF Lawful, FlowInPhase, FlowHasDevice
<1>4. CASE CaptureStarts("listening")
  <2>1. phase' = "listening" /\ run' \notin {"preparing", "resolved", "failed"} /\ job' = job
    BY <1>2, <1>4 DEF CaptureStarts
  <2>. QED BY <1>1, <1>2, <1>3, <2>1 DEF Lawful, ClosedLast, CapturesFor, Waiting
<1>5. CASE SpawnFails("listening")
  <2>1. PICK r \in ShutdownCall : Teardown("listening", r)
    BY <1>5 DEF SpawnFails
  <2>2. r \in Closer /\ r \in Job /\ r \notin RestartCall
    BY CallAssumption DEF Closer, Job
  <2>3. phase' \in Over /\ src' = src /\ run' # "preparing"
    BY <1>5, <2>1, <2>2, TeardownType DEF SpawnFails, Phase, Resolved
  <2>4. NothingLive' /\ Settled'
    BY <1>1, <2>3 DEF NothingLive, Settled
  <2>5. \A k \in Job : IF k = r THEN job'[k].pc \in {"restoring", "done"} ELSE job'[k] = job[k]
    BY <2>1, <2>2 DEF Teardown, Reaches, TypeOK
  <2>6. ClosedLast'
    BY <1>1, <1>2, <2>2, <2>3, <2>4, <2>5, ListeningPhases DEF Lawful, ClosedLast, Closer, Job
  <2>7. CapturesFor'
    BY <1>1, <2>4 DEF CapturesFor
  <2>. QED BY <1>3, <2>6, <2>7 DEF Lawful
<1>. QED BY <1>4, <1>5 DEF EnterListening

LEMMA LawfulStarts ==
  ASSUME TypeOK, Owned, Lawful, RunStarts \/ LinkEvent \/ UserSkips
  PROVE  Lawful'
<1>1. UNCHANGED <<flow, best, ready>>
  BY DEF RunStarts, LinkEvent, UserSkips
<1>2. CASE RunStarts /\ opt.skipReplug
  <2>1. EnterListening("listening") /\ run = "preparing"
    BY <1>2, MethodTypes DEF RunStarts, Accepts
  <2>. QED BY <1>1, <2>1, LawfulListening
<1>3. CASE RunStarts /\ ~opt.skipReplug
  <2>1. flow = "none" /\ NothingLive /\ \A r \in Closer : job[r].pc = "idle"
    BY <1>3 DEF RunStarts, Lawful, CapturesFor, ClosedLast
  <2>2. run' = "waiting" /\ UNCHANGED <<src, job>> /\ NothingLive' = NothingLive /\ ~ready
    BY <1>3, <2>1 DEF RunStarts, capture, NothingLive, Lawful, ClosedLast, TypeOK
  <2>. QED BY <1>1, <2>1, <2>2 DEF Lawful, FlowInPhase, FlowHasDevice, ClosedLast, CapturesFor
<1>4. CASE LinkEvent
  <2>1. CASE Moves(linkDown) /\ UNCHANGED <<run, capture, job>>
    <3>1. phase \in Waiting /\ phase' \in Waiting
      BY <2>1, MethodTypes DEF Moves, Accepts, linkDown, Waiting
    <3>2. flow = "none" /\ NothingLive /\ \A r \in Closer : job[r].pc = "idle"
      BY <3>1 DEF Lawful, CapturesFor, ClosedLast
    <3>3. run \notin {"resolved", "failed"}
      BY <3>1, <3>2, ListeningPhases DEF Lawful, ClosedLast, Settled
    <3>4. NothingLive' /\ UNCHANGED <<run, job>>
      BY <2>1, <3>2 DEF NothingLive, capture
    <3>. QED BY <1>1, <3>1, <3>2, <3>3, <3>4
         DEF Lawful, FlowInPhase, FlowHasDevice, ClosedLast, CapturesFor
  <2>2. CASE EnterListening(linkUp[phase]) /\ phase = "waiting-for-link"
    BY <1>1, <2>2, MethodTypes, LawfulListening DEF Waiting
  <2>3. CASE UNCHANGED <<phase, run, capture, job>>
    <3>1. NothingLive' = NothingLive /\ UNCHANGED <<phase, run, job>>
      BY <2>3 DEF NothingLive, capture
    <3>. QED BY <1>1, <3>1
         DEF Lawful, FlowInPhase, FlowHasDevice, ClosedLast, Settled, CapturesFor
  <2>. QED BY <1>4, <2>1, <2>2, <2>3 DEF LinkEvent
<1>5. CASE UserSkips
  <2>1. EnterListening("listening") /\ phase \in Waiting
    BY <1>5 DEF UserSkips, skipReplug, Waiting
  <2>. QED BY <1>1, <2>1, LawfulListening
<1>. QED BY <1>2, <1>3, <1>4, <1>5

\* A shutdown comes last, and shutdowns do not disturb one another.
LEMMA LawfulShutdown ==
  ASSUME TypeOK, Lawful, Undisturbed,
         NEW r \in Closer, Shutdown(r) \/ StopEnds(r) \/ RestoreEnds(r)
  PROVE  Lawful'
<1>1. r \in Job /\ r \notin RestartCall
  BY CallAssumption DEF Closer, Job
<1>2. UNCHANGED <<flow, best, ready>> /\ (run' = run \/ run' = "abandoned")
  BY DEF Shutdown, StopEnds, RestoreEnds, told
<1>3. Settled
  BY DEF Shutdown, AsksToClose, May, Undisturbed, StopEnds, RestoreEnds, Lawful, ClosedLast, Settled
<1>4. flow \in {"none", "ended"}
  BY <1>3 DEF Settled
<1>5. run # "preparing" /\ phase \notin Waiting
  BY <1>3, ListeningPhases
     DEF Shutdown, AsksToClose, May, Undisturbed, StopEnds, RestoreEnds, Lawful, ClosedLast, Settled,
         CapturesFor
<1>6. FlowInPhase'
  BY <1>2, <1>4 DEF Lawful, FlowInPhase, FlowHasDevice
<1>7. ASSUME Settled', phase' \notin Waiting, phase' \in Over \/ phase' = phase,
             NEW pc \in {"stopping", "restoring", "done"},
             \A k \in Job : IF k = r THEN job'[k].pc = pc ELSE job'[k] = job[k],
             pc = "stopping" => flow = "ended",
             pc = "restoring" => phase' \in Over
      PROVE  Lawful'
  <2>1. ClosedLast'
    <3>1. ASSUME NEW k \in Closer
          PROVE  /\ job'[k].pc # "threw"
                 /\ job'[k].pc # "idle" => Settled' /\ run' # "preparing" /\ phase' \notin Waiting
                 /\ job'[k].pc = "stopping" => flow' = "ended"
                 /\ job'[k].pc = "restoring" => phase' \in Over
      <4>1. k \in Job
        BY DEF Job
      <4>2. CASE k = r
        BY <1>2, <1>5, <1>7, <4>1, <4>2
      <4>3. CASE k # r
        BY <1>2, <1>5, <1>7, <4>1, <4>3 DEF Lawful, ClosedLast
      <4>. QED BY <4>2, <4>3
    <3>2. \A j \in RestartCall : job'[j].pc = "idle"
      BY <1>1, <1>7 DEF Lawful, ClosedLast, Job
    <3>3. ready' => flow' = "ended"
      BY <1>2 DEF Lawful, ClosedLast
    <3>. QED BY <1>7, <3>1, <3>2, <3>3 DEF ClosedLast
  <2>2. CapturesFor'
    BY <1>2, <1>5, <1>7 DEF CapturesFor, Settled
  <2>. QED BY <1>6, <2>1, <2>2 DEF Lawful
<1>8. CASE Shutdown(r) /\ MustWait
  <2>1. ~NothingLive
    BY <1>8 DEF MustWait, NothingLive, TypeOK
  <2>2. flow = "ended"
    BY <1>3, <2>1 DEF Settled
  <2>3. StopBegins(r) /\ phase' = phase
    BY <1>8 DEF Shutdown
  <2>4. \A k \in Job : IF k = r THEN job'[k].pc = "stopping" ELSE job'[k] = job[k]
    BY <1>1, <2>3 DEF StopBegins, TypeOK
  <2>. QED BY <1>2, <1>5, <1>7, <2>2, <2>3, <2>4 DEF Settled
<1>9. ASSUME Teardown(phase, r), Settled'
      PROVE  Lawful'
  <2>1. phase' \in Over
    BY <1>9, TeardownType DEF TypeOK
  <2>2. PICK pc \in {"restoring", "done"} : Reaches(r, pc)
    BY <1>9 DEF Teardown
  <2>3. \A k \in Job : IF k = r THEN job'[k].pc = pc ELSE job'[k] = job[k]
    BY <1>1, <2>2 DEF Reaches, TypeOK
  <2>. QED BY <1>7, <1>9, <2>1, <2>3, ListeningPhases
<1>10. CASE Shutdown(r) /\ ~MustWait
  <2>1. Teardown(phase, r) /\ src' = src
    BY <1>10 DEF Shutdown
  <2>2. phase' \in Over
    BY <2>1, TeardownType DEF TypeOK
  <2>3. Settled'
    BY <1>2, <1>3, <2>1, <2>2 DEF Settled, NothingLive
  <2>. QED BY <1>9, <2>1, <2>3
<1>11. CASE StopEnds(r)
  <2>1. flow = "ended"
    BY <1>11 DEF StopEnds, Lawful, ClosedLast
  <2>. QED BY <1>2, <1>9, <1>11, <2>1 DEF StopEnds, Settled
<1>12. CASE RestoreEnds(r)
  <2>1. phase \in Over
    BY <1>12 DEF RestoreEnds, Lawful, ClosedLast
  <2>2. Accepts(cleanupComplete)
    BY <2>1 DEF Accepts, cleanupComplete, Over
  <2>3. phase' \in Over /\ Reaches(r, "done") /\ src' = src
    BY <1>12, <2>2, MethodTypes DEF RestoreEnds, RestoreReturns, Accepts, capture
  <2>4. Settled'
    BY <1>2, <1>3, <2>3 DEF Settled, NothingLive
  <2>5. \A k \in Job : IF k = r THEN job'[k].pc = "done" ELSE job'[k] = job[k]
    BY <1>1, <2>3 DEF Reaches, TypeOK
  <2>. QED BY <1>7, <2>3, <2>4, <2>5, ListeningPhases
<1>. QED BY <1>8, <1>10, <1>11, <1>12

LEMMA LawfulStep == TypeOK /\ Owned /\ Lawful /\ Undisturbed /\ [Next]_vars => Lawful'
<1>. SUFFICES ASSUME TypeOK, Owned, Lawful, Undisturbed, [Next]_vars PROVE Lawful'
  OBVIOUS
<1>1. ~CaptureDies
  BY DEF CaptureDies, May, Undisturbed
<1>2. ASSUME NEW j \in RestartCall
      PROVE  ~UserRestarts(j) /\ ~RestartResumes(j)
  BY DEF UserRestarts, RestartResumes, MenuKey, Key, May, Undisturbed, Lawful, ClosedLast
<1>. QED BY <1>1, <1>2, LawfulFrame, LawfulStarts, LawfulFlow, LawfulShutdown DEF Next, UserStep

\* No handler of the engine meets a phase that refuses its transition, unless
\* the workflow is quit, restarted or loses its capture in the middle: each step
\* of the flow finds the phase that the step before it left, and a shutdown
\* finds the workflow at its end.
THEOREM NeverInvalidTransition == Spec => []NoInvalidTransition
<1>1. Init => Lawful
  <2>. SUFFICES ASSUME Init PROVE Lawful
    OBVIOUS
  <2>1. \A j \in Job : job[j].pc = "idle"
    BY DEF Init
  <2>2. NothingLive
    BY DEF Init, NothingLive
  <2>. QED BY <2>1, <2>2
       DEF Init, Lawful, FlowInPhase, FlowHasDevice, ClosedLast, CapturesFor, Job
<1>2. [Next]_vars => (Undisturbed' <=> Undisturbed)
  BY OptFrame DEF Undisturbed
<1>3. TypeOK /\ (Apart => Owned) /\ (Undisturbed => Lawful) /\ [Next]_vars
      => (Undisturbed => Lawful)'
  <2>1. Undisturbed => Apart
    BY DEF Undisturbed, Apart, May
  <2>. QED BY <1>2, <2>1, LawfulStep
<1>4. (Undisturbed => Lawful) => NoInvalidTransition
  BY DEF NoInvalidTransition, Undisturbed, Lawful, FlowInPhase, ClosedLast
<1>. QED BY <1>1, <1>3, <1>4, TypeCorrect, OwnedApart, PTL DEF Spec

-----------------------------------------------------------------------------
(* A shutdown is final *)

Lasting == ~May("restart") /\ ~May("early")

\* Some shutdown() is past its stopCapture().
TornDown == \E r \in Closer : job[r].pc \notin {"idle", "stopping"}

\* Nothing runs any more, and nothing that is left could start it again.
Final ==
  /\ TornDown => run # "preparing" /\ phase \notin Waiting /\ monitor # "live" /\ NoneRunning
  /\ run = "preparing" => ~ready
  /\ \A j \in RestartCall : job[j].pc = "idle"

LEMMA DownFrame ==
  ASSUME TypeOK, Owned, Final,
         RunFails \/ LinkChanges \/ TimerFires \/ UserKeepsListening \/ DeviceFound \/ FlowStep
         \/ UNCHANGED vars
  PROVE  Final'
<1>1. UNCHANGED <<src, job, monitor>>
  BY DEF RunFails, LinkChanges, TimerFires, UserKeepsListening, DeviceFound, FlowStep, Evaluated,
         Confirmed, Declined, Applied, ApplyFails, Probed, vars, capture, watch
<1>2. TornDown' = TornDown /\ NoneRunning' = NoneRunning
  BY <1>1 DEF TornDown, NoneRunning
<1>3. (run' = run \/ run' # "preparing") /\ (phase' = phase \/ phase' \notin Waiting)
  <2>1. CASE DeviceFound \/ FlowStep
    BY <2>1, FlowLeadsAhead DEF FlowLeads, Ahead, Waiting
  <2>2. CASE RunFails \/ LinkChanges \/ TimerFires \/ UserKeepsListening \/ UNCHANGED vars
    BY <2>2 DEF RunFails, LinkChanges, TimerFires, UserKeepsListening, vars
  <2>. QED BY <2>1, <2>2
<1>4. run' = "preparing" => ready' = ready
  <2>1. CASE DeviceFound \/ FlowStep
    <3>1. run # "preparing"
      BY <2>1 DEF DeviceFound, FlowStep, Evaluated, Confirmed, Declined, Applied, ApplyFails,
                  Probed, Owned, FreshRun
    <3>. QED BY <2>1, <3>1, FlowLeadsAhead DEF FlowLeads
  <2>2. CASE RunFails \/ LinkChanges \/ TimerFires \/ UserKeepsListening \/ UNCHANGED vars
    BY <2>2 DEF RunFails, LinkChanges, TimerFires, UserKeepsListening, vars, told
  <2>. QED BY <2>1, <2>2
<1>. QED BY <1>1, <1>2, <1>3, <1>4 DEF Final

\* A teardown with nothing left to stop.
LEMMA DownTeardown ==
  ASSUME TypeOK, Final, NEW p \in Phase, NEW r \in Closer, Teardown(p, r), NoneRunning',
         run' # "preparing"
  PROVE  Final'
<1>1. r \in Job /\ r \notin RestartCall
  BY CallAssumption DEF Closer, Job
<1>2. phase' \in Over /\ monitor' # "live"
  BY TeardownType
<1>3. \A j \in RestartCall : job'[j] = job[j]
  BY <1>1 DEF Teardown, Reaches, TypeOK, Job
<1>. QED BY <1>2, <1>3, ListeningPhases DEF Final

LEMMA DownStarts ==
  ASSUME TypeOK, Owned, Final, RunStarts \/ LinkEvent \/ UserSkips \/ UserConfirms
  PROVE  Final'
<1>. ready' = ready /\ (run' = "preparing" => run = "preparing")
  BY DEF RunStarts, LinkEvent, UserSkips, UserConfirms, told, EnterListening, CaptureStarts,
         SpawnFails, Resolved
<1>1. CASE UNCHANGED job
  <2>1. CASE run = "preparing" \/ phase \in Waiting
    <3>1. ~TornDown'
      BY <1>1, <2>1 DEF Final, TornDown
    <3>. QED BY <1>1, <3>1 DEF Final
  <2>2. CASE run # "preparing" /\ phase \notin Waiting
    <3>1. LinkEvent
      BY <2>2 DEF RunStarts, UserSkips, skipReplug, UserConfirms, Waiting
    <3>2. UNCHANGED <<phase, run, capture, monitor>>
      BY <2>2, <3>1 DEF LinkEvent, Waiting
    <3>3. TornDown' = TornDown /\ NoneRunning' = NoneRunning
      BY <1>1, <3>2 DEF TornDown, NoneRunning, capture
    <3>. QED BY <1>1, <3>2, <3>3 DEF Final
  <2>. QED BY <2>1, <2>2
<1>2. ASSUME phase \in Waiting \/ run = "preparing", EnterListening("listening")
      PROVE  Final'
  <2>1. CASE CaptureStarts("listening")
    BY <1>1, <2>1 DEF CaptureStarts
  <2>2. CASE SpawnFails("listening")
    <3>1. PICK r \in ShutdownCall : Teardown("listening", r)
      BY <2>2 DEF SpawnFails
    <3>2. NoneRunning' /\ run' # "preparing"
      BY <1>2, <2>2
         DEF SpawnFails, Resolved, NoneRunning, Owned, WaitsQuietly, FreshRun
    <3>. QED BY <3>1, <3>2, DownTeardown DEF Closer, Phase
  <2>. QED BY <1>2, <2>1, <2>2 DEF EnterListening
<1>3. CASE RunStarts
  <2>1. CASE opt.skipReplug
    BY <1>2, <1>3, <2>1, MethodTypes DEF RunStarts, Accepts
  <2>2. CASE ~opt.skipReplug
    BY <1>1, <1>3, <2>2 DEF RunStarts
  <2>. QED BY <2>1, <2>2
<1>4. CASE LinkEvent
  <2>1. CASE UNCHANGED job
    BY <1>1, <2>1
  <2>2. CASE EnterListening(linkUp[phase]) /\ phase = "waiting-for-link"
    BY <1>2, <2>2, MethodTypes DEF Waiting
  <2>. QED BY <1>4, <2>1, <2>2 DEF LinkEvent
<1>5. CASE UserSkips
  BY <1>2, <1>5 DEF UserSkips, skipReplug, Waiting
<1>6. CASE UserConfirms
  BY <1>1, <1>6 DEF UserConfirms
<1>. QED BY <1>3, <1>4, <1>5, <1>6

LEMMA DownShutdown ==
  ASSUME TypeOK, Owned, Final, Lasting,
         NEW r \in Closer, Shutdown(r) \/ StopEnds(r) \/ RestoreEnds(r)
  PROVE  Final'
<1>1. r \in Job /\ r \notin RestartCall /\ phase \in Phase
  BY CallAssumption DEF Closer, Job, TypeOK
<1>2. CASE Shutdown(r) /\ MustWait
  <2>1. StopBegins(r) /\ UNCHANGED <<phase, monitor>>
    BY <1>2 DEF Shutdown
  <2>2. \A k \in Job : IF k = r THEN job'[k].pc = "stopping" ELSE job'[k] = job[k]
    BY <1>1, <2>1 DEF StopBegins, TypeOK
  <2>3. TornDown' => TornDown
    BY <2>2 DEF TornDown, Closer, Job
  <2>4. NoneRunning' /\ run # "preparing"
    BY <1>1, <1>2, <2>1, StopBeginsAlone
  <2>5. run' # "preparing"
    BY <1>2, <2>4 DEF Shutdown
  <2>. QED BY <1>1, <2>1, <2>2, <2>3, <2>4, <2>5 DEF Final, Job
<1>3. CASE Shutdown(r) /\ ~MustWait
  <2>1. Teardown(phase, r) /\ src' = src
    BY <1>3 DEF Shutdown
  <2>2. NoneRunning'
    BY <1>3, <2>1, NoSourceAssumption DEF NoneRunning, Owned, OneCapture, MustWait
  <2>3. run # "preparing"
    BY <1>3 DEF Shutdown, AsksToClose, Lasting, May, Final
  <2>4. run' # "preparing"
    BY <1>3, <2>3 DEF Shutdown
  <2>. QED BY <1>1, <2>1, <2>2, <2>4, DownTeardown
<1>4. CASE StopEnds(r)
  <2>1. NoneRunning /\ run # "preparing"
    BY <1>1, <1>4 DEF StopEnds, Stopping, Owned, StopsAlone
  <2>2. NoneRunning'
    BY <1>4, <2>1 DEF StopEnds, NoneRunning, TypeOK
  <2>. QED BY <1>1, <1>4, <2>1, <2>2, DownTeardown DEF StopEnds
<1>5. CASE RestoreEnds(r)
  <2>1. TornDown /\ UNCHANGED <<run, src, monitor>>
    BY <1>5 DEF RestoreEnds, TornDown, capture, watch
  <2>2. phase' = phase \/ phase' \in Over
    BY <1>5, MethodTypes DEF RestoreEnds, Accepts
  <2>3. \A j \in RestartCall : job'[j] = job[j]
    BY <1>1, <1>5 DEF RestoreEnds, Reaches, TypeOK, Job
  <2>. QED BY <2>1, <2>2, <2>3, ListeningPhases DEF Final, NoneRunning
<1>. QED BY <1>2, <1>3, <1>4, <1>5

LEMMA DownStep == TypeOK /\ Owned /\ Final /\ Lasting /\ [Next]_vars => Final'
<1>. SUFFICES ASSUME TypeOK, Owned, Final, Lasting, [Next]_vars PROVE Final'
  OBVIOUS
<1>1. CASE CaptureDies
  <2>1. PICK r \in ShutdownCall : Teardown(phase, r)
    BY <1>1 DEF CaptureDies, OnCaptureError
  <2>2. /\ current \in Source /\ src[current] = "running"
        /\ src' = [src EXCEPT ![current] = "closed"]
    BY <1>1 DEF CaptureDies, MustWait, TypeOK
  <2>3. NoneRunning'
    BY <2>2 DEF NoneRunning, Owned, OneCapture, TypeOK
  <2>4. run' # "preparing"
    BY <1>1, <2>2 DEF CaptureDies, Resolved, Owned, FreshRun
  <2>. QED BY <2>1, <2>3, <2>4, DownTeardown DEF Closer, TypeOK
<1>2. ASSUME NEW j \in RestartCall
      PROVE  ~UserRestarts(j) /\ ~RestartResumes(j)
  BY DEF UserRestarts, RestartResumes, MenuKey, Key, May, Lasting, Final
<1>. QED BY <1>1, <1>2, DownFrame, DownStarts, DownShutdown DEF Next, UserStep

\* Once the shutdowns that were asked for are over, neither a capture nor a poll
\* keeps the process alive, unless a restart resumes after them or they came
\* before run() had started: no flow, key or report of the link that was under
\* way brings the workflow back.
THEOREM AlwaysStaysDown == Spec => []StaysDown
<1>1. Init => Final
  BY DEF Init, Final, TornDown, Closer, Job
<1>2. [Next]_vars => (Lasting' <=> Lasting)
  BY OptFrame DEF Lasting, May
<1>3. TypeOK /\ (Apart => Owned) /\ (Lasting => Final) /\ [Next]_vars => (Lasting => Final)'
  <2>1. Lasting => Apart
    BY DEF Lasting, Apart
  <2>. QED BY <1>2, <2>1, DownStep
<1>4. (Lasting => Final) => StaysDown
  BY DEF StaysDown, Lasting, Final, ShutdownIsFinal, TornDown, NoneRunning
<1>. QED BY <1>1, <1>3, <1>4, TypeCorrect, OwnedApart, PTL DEF Spec

-----------------------------------------------------------------------------
(* Without a restart, the workflow goes forward *)

\* What has a device does not wait or listen any more.
Forward ==
  /\ FlowHasDevice
  /\ ready => flow = "ended"
  /\ run = "preparing" \/ phase \in Waiting => ~best /\ NothingLive
  /\ phase = "listening" => ~best
  /\ \A j \in RestartCall : job[j].pc = "idle"

LEMMA ForwardFlow ==
  ASSUME TypeOK, Forward, DeviceFound \/ FlowStep
  PROVE  Forward'
<1>1. UNCHANGED <<src, job>>
  BY DEF DeviceFound, FlowStep, Evaluated, Confirmed, Declined, Applied, ApplyFails, Probed, capture
<1>2. best' /\ ~ready
  BY DEF DeviceFound, FlowStep, Evaluated, Confirmed, Declined, Applied, ApplyFails, Probed,
         Forward, FlowHasDevice, TypeOK
<1>3. run # "preparing" /\ phase \notin Waiting
  BY DEF DeviceFound, FlowStep, Evaluated, Confirmed, Declined, Applied, ApplyFails, Probed,
         Forward, FlowHasDevice, NothingLive
<1>4. phase' # "listening"
  <2>1. CASE FlowStep
    <3>1. phase # "listening"
      BY <2>1 DEF FlowStep, Evaluated, Confirmed, Declined, Applied, ApplyFails, Probed,
                  Forward, FlowHasDevice
    <3>. QED BY <3>1, FlowLeadsAhead DEF FlowLeads, Ahead
  <2>2. CASE DeviceFound /\ phase = "listening"
    <3>1. Accepts(deviceFound) /\ deviceFound[phase] = "device-found"
      BY <2>2 DEF Accepts, deviceFound
    <3>2. FinishConnected("device-found") \/ phase' = "device-found"
      BY <2>2, <3>1 DEF DeviceFound
    <3>. QED BY <3>2 DEF FinishConnected
  <2>3. CASE DeviceFound /\ phase # "listening"
    BY <2>3, FlowLeadsAhead DEF FlowLeads, Ahead
  <2>. QED BY <2>1, <2>2, <2>3
<1>5. phase' \notin Waiting /\ run' # "preparing" /\ (ready' => flow' = "ended")
  BY <1>2, <1>3, FlowLeadsAhead DEF FlowLeads, Ahead, Waiting
<1>. QED BY <1>1, <1>2, <1>4, <1>5 DEF Forward, FlowHasDevice

\* The other steps leave the flow alone.
LEMMA ForwardOther ==
  ASSUME TypeOK, Owned, Forward, ~May("restart"), [Next]_vars, ~DeviceFound, ~FlowStep
  PROVE  Forward'
<1>1. UNCHANGED <<flow, best, ready>>
  BY FlowFrame
     DEF Next, vars, told, RunFails, RunStarts, LinkChanges, LinkEvent, TimerFires, CaptureDies,
         UserStep, UserConfirms, UserSkips, UserKeepsListening, UserRestarts, Shutdown, StopEnds,
         RestoreEnds, RestartResumes
<1>2. ASSUME NEW j \in RestartCall
      PROVE  ~UserRestarts(j) /\ ~RestartResumes(j)
  BY DEF UserRestarts, RestartResumes, MenuKey, Key, Forward
<1>3. ASSUME \/ phase' \in Over /\ run' # "preparing"
             \/ phase' \in Over /\ run' = run /\ src' = src
             \/ ~best /\ NothingLive /\ src' = src
             \/ ~best /\ phase' \notin Waiting /\ run' # "preparing"
             \/ phase' = phase /\ run' # "preparing" /\ phase \notin Waiting
             \/ UNCHANGED <<phase, src>> /\ (run' = "preparing" => run = "preparing"),
             \A j \in RestartCall : job'[j] = job[j]
      PROVE  Forward'
  <2>1. src' = src => NothingLive' = NothingLive
    BY DEF NothingLive
  <2>. QED BY <1>1, <1>3, <2>1 DEF Forward, FlowHasDevice, Over, Waiting
<1>4. ASSUME NEW p, NEW r \in Closer, Teardown(p, r)
      PROVE  \A j \in RestartCall : job'[j] = job[j]
  <2>1. r \notin RestartCall
    BY CallAssumption DEF Closer
  <2>. QED BY <1>4, <2>1 DEF Teardown, Reaches, TypeOK, Job, Closer
<1>5. ASSUME EnterListening("listening"), phase \in Waiting \/ run = "preparing"
      PROVE  Forward'
  <2>1. ~best /\ NothingLive
    BY <1>5 DEF Forward
  <2>2. CASE CaptureStarts("listening")
    <3>1. phase' = "listening" /\ run' # "preparing" /\ job' = job
      BY <2>2 DEF CaptureStarts
    <3>. QED BY <1>3, <2>1, <3>1 DEF Waiting
  <2>3. CASE SpawnFails("listening")
    <3>1. PICK r \in ShutdownCall : Teardown("listening", r)
      BY <2>3 DEF SpawnFails
    <3>2. r \in Closer
      BY DEF Closer
    <3>. QED BY <1>3, <1>4, <2>1, <2>3, <3>1, <3>2 DEF SpawnFails
  <2>. QED BY <1>5, <2>2, <2>3 DEF EnterListening
<1>6. CASE RunStarts
  <2>1. CASE opt.skipReplug
    BY <1>5, <1>6, <2>1, MethodTypes DEF RunStarts, Accepts
  <2>2. CASE ~opt.skipReplug
    BY <1>3, <1>6, <2>2 DEF RunStarts, Forward, capture
  <2>. QED BY <2>1, <2>2
<1>7. CASE LinkEvent
  <2>1. CASE EnterListening(linkUp[phase]) /\ phase = "waiting-for-link"
    BY <1>5, <2>1, MethodTypes DEF Waiting
  <2>2. CASE Moves(linkDown) /\ UNCHANGED <<run, capture, job>>
    <3>1. phase \in Waiting
      BY <2>2 DEF Moves, Accepts, linkDown
    <3>. QED BY <1>3, <2>2, <3>1 DEF Forward, capture
  <2>3. CASE UNCHANGED <<phase, run, capture, job>>
    BY <1>3, <2>3 DEF capture
  <2>. QED BY <1>7, <2>1, <2>2, <2>3 DEF LinkEvent
<1>8. CASE UserSkips
  BY <1>5, <1>8 DEF UserSkips, skipReplug, Waiting
<1>9. CASE UserConfirms
  <2>1. phase \in Waiting /\ UNCHANGED <<src, job>>
    BY <1>9 DEF UserConfirms, Waiting, capture
  <2>. QED BY <1>3, <2>1 DEF Forward
<1>10. CASE RunFails \/ LinkChanges \/ TimerFires \/ UserKeepsListening \/ UNCHANGED vars
  BY <1>3, <1>10 DEF RunFails, LinkChanges, TimerFires, UserKeepsListening, vars, capture
<1>11. CASE CaptureDies
  <2>1. PICK r \in ShutdownCall : Teardown(phase, r)
    BY <1>11 DEF CaptureDies, OnCaptureError
  <2>2. r \in Closer /\ phase' \in Over
    BY <2>1, TeardownType DEF Closer, TypeOK
  <2>3. run' # "preparing"
    BY <1>11 DEF CaptureDies, MustWait, Resolved, Owned, FreshRun, TypeOK
  <2>. QED BY <1>3, <1>4, <2>1, <2>2, <2>3
<1>12. ASSUME NEW r \in Closer, Shutdown(r) \/ StopEnds(r) \/ RestoreEnds(r)
       PROVE  Forward'
  <2>1. r \in Job /\ r \notin RestartCall
    BY CallAssumption DEF Closer, Job
  <2>2. CASE Shutdown(r) /\ MustWait
    <3>1. StopBegins(r) /\ phase' = phase
      BY <2>2 DEF Shutdown
    <3>2. run # "preparing" /\ phase \notin Waiting
      BY <2>1, <2>2, <3>1, StopBeginsAlone
    <3>3. run' # "preparing"
      BY <2>2, <3>2 DEF Shutdown
    <3>4. \A j \in RestartCall : job'[j] = job[j]
      BY <2>1, <3>1 DEF StopBegins, TypeOK, Job
    <3>. QED BY <1>3, <3>1, <3>2, <3>3, <3>4
  <2>3. CASE Shutdown(r) /\ ~MustWait
    <3>1. Teardown(phase, r) /\ src' = src /\ (run' = run \/ run' # "preparing")
      BY <2>3 DEF Shutdown
    <3>2. phase' \in Over
      BY <3>1, TeardownType DEF TypeOK
    <3>. QED BY <1>3, <1>4, <3>1, <3>2
  <2>4. CASE StopEnds(r)
    <3>1. Stopping
      BY <2>1, <2>4 DEF StopEnds, Stopping
    <3>2. run' # "preparing"
      BY <2>4, <3>1 DEF StopEnds, Owned, StopsAlone
    <3>3. Teardown(phase, r) /\ phase' \in Over
      BY <2>4, TeardownType DEF StopEnds, TypeOK
    <3>. QED BY <1>3, <1>4, <3>2, <3>3
  <2>5. CASE RestoreEnds(r)
    <3>1. UNCHANGED <<run, src>> /\ (phase' = phase \/ phase' \in Over)
      BY <2>5, MethodTypes DEF RestoreEnds, Accepts, capture
    <3>2. \A j \in RestartCall : job'[j] = job[j]
      BY <2>1, <2>5 DEF RestoreEnds, Reaches, TypeOK, Job
    <3>. QED BY <1>3, <3>1, <3>2
  <2>. QED BY <1>12, <2>2, <2>3, <2>4, <2>5
<1>. QED BY <1>2, <1>6, <1>7, <1>8, <1>9, <1>10, <1>11, <1>12 DEF Next, UserStep

LEMMA AlwaysForward == Spec => [](~May("restart") => Forward)
<1>1. Init => Forward
  BY DEF Init, Forward, FlowHasDevice, NothingLive, Job
<1>2. [Next]_vars => (May("restart")' <=> May("restart"))
  BY OptFrame DEF May
<1>3. TypeOK /\ (Apart => Owned) /\ (~May("restart") => Forward) /\ [Next]_vars
      => (~May("restart") => Forward)'
  <2>1. ~May("restart") => Apart
    BY DEF Apart
  <2>. QED BY <1>2, <2>1, ForwardFlow, ForwardOther
<1>. QED BY <1>1, <1>3, TypeCorrect, OwnedApart, PTL DEF Spec

-----------------------------------------------------------------------------
(* The program *)

\* What the callers of run() remember is not the engine's.
LEMMA UiStep ==
  ASSUME Launch \/ Enumerated \/ Choosing \/ JsonReturns \/ \E r \in Closer : Left(r) \/ Killed(r)
  PROVE  UNCHANGED vars
BY DEF Launch, Enumerated, Choosing, JsonReturns, Left, Killed

LEMMA EngineStep ==
  ASSUME SessionNext
  PROVE  [Next]_vars
<1>1. CASE Launch \/ Enumerated \/ Choosing \/ JsonReturns
           \/ \E r \in Closer : Left(r) \/ Killed(r)
  BY <1>1, UiStep
<1>2. CASE Hopeless \/ Fails
  BY <1>2 DEF Hopeless, Fails, InEngine, Next
<1>3. CASE Starts(RunStarts)
  BY <1>3 DEF Starts, InEngine, Next
<1>4. CASE Starts(\E j \in RestartCall : RestartResumes(j))
  BY <1>4 DEF Starts, InEngine, Next
<1>5. CASE Starts(UserKeys)
  BY <1>5 DEF Starts, InEngine, UserKeys, UserStep, FlowStep, Next
<1>6. CASE InEngine(InBackground) /\ UNCHANGED ui
  BY <1>6 DEF InEngine, InBackground, FlowStep, Next
<1>7. CASE LinkMoves \/ LinkHeard \/ TimesOut
  BY <1>7 DEF LinkMoves, LinkHeard, TimesOut, InEngine, Next
<1>8. CASE Found \/ Announced
  BY <1>8 DEF Found, Announced, InEngine, Next
<1>9. CASE JsonConfirms
  BY <1>9 DEF JsonConfirms, InEngine, FlowStep, Next
<1>10. CASE JsonCloses
  <2>1. Shutdown("json") BY <1>10 DEF JsonCloses, InEngine
  <2>2. "json" \in Closer BY DEF Closer
  <2>3. QED BY <2>1, <2>2 DEF Next
<1>11. ASSUME NEW r \in Closer, Finishes(r) \/ Signalled(r)
       PROVE  [Next]_vars
  BY <1>11 DEF Finishes, Signalled, Next
<1>12. QED
  BY <1>1, <1>2, <1>3, <1>4, <1>5, <1>6, <1>7, <1>8, <1>9, <1>10, <1>11 DEF SessionNext

\* A run of the program is a run of the engine: no key, signal, command line or
\* timer of the simulation reaches it except through its operations.
THEOREM SessionIsEngine == SessionSpec => Spec
<1>1. SessionInit => Init
  BY DEF SessionInit
<1>2. [SessionNext]_session => [Next]_vars
  BY EngineStep DEF session
<1>3. QED
  BY <1>1, <1>2, PTL DEF SessionSpec, Spec

\* In the whole program, from any command line, a live monitor watches the link
\* while the user is asked to unplug or replug the device.
THEOREM SessionWatched == SessionSpec => []WaitingIsWatched
BY SessionIsEngine, WaitingAlwaysWatched, PTL

-----------------------------------------------------------------------------
(* The keys on the screen *)

\* Before an interface is chosen the engine has not begun.
ChoosesFirst == at # "chosen" => run = "preparing"

LEMMA ChoosesFirstStep == ChoosesFirst /\ [SessionNext]_session => ChoosesFirst'
<1>. SUFFICES ASSUME ChoosesFirst, [SessionNext]_session PROVE ChoosesFirst'
  OBVIOUS
<1>. USE DEF ChoosesFirst
<1>1. CASE Launch \/ Enumerated \/ Choosing \/ JsonReturns
           \/ \E r \in Closer : Left(r) \/ Killed(r)
  <2>1. run' = run
    BY <1>1, UiStep DEF vars
  <2>2. CASE Launch
    BY <2>1, <2>2 DEF Launch
  <2>3. CASE Enumerated
    <3>1. at = "enumerating" BY <2>3 DEF Enumerated
    <3>. QED BY <2>1, <3>1
  <2>4. CASE Choosing
    <3>1. UNCHANGED at \/ at' = "chosen"
      BY <2>4 DEF Choosing, Up, Down, Enter, Rerendered
    <3>. QED BY <2>1, <3>1
  <2>5. CASE JsonReturns \/ \E r \in Closer : Left(r) \/ Killed(r)
    <3>1. UNCHANGED at BY <2>5 DEF JsonReturns, Left, Killed
    <3>. QED BY <2>1, <3>1
  <2>. QED BY <1>1, <2>2, <2>3, <2>4, <2>5
<1>2. CASE Hopeless
  BY <1>2 DEF Hopeless
<1>3. CASE Fails \/ LinkHeard \/ Found \/ TimesOut \/ JsonConfirms \/ JsonCloses
           \/ (InEngine(InBackground) /\ UNCHANGED ui)
  BY <1>3 DEF Fails, LinkHeard, Found, TimesOut, JsonConfirms, JsonCloses, InEngine, ui
<1>4. CASE Starts(RunStarts) \/ (Starts(\E j \in RestartCall : RestartResumes(j)))
           \/ Starts(UserKeys) \/ LinkMoves \/ Announced
  BY <1>4 DEF Starts, InEngine, LinkMoves, Announced
<1>5. ASSUME NEW r \in Closer, Finishes(r) \/ Signalled(r)
      PROVE  ChoosesFirst'
  BY <1>5 DEF Finishes, Signalled, Shutdown
<1>6. CASE UNCHANGED session
  BY <1>6 DEF session, vars, ui
<1>. QED BY <1>1, <1>2, <1>3, <1>4, <1>5, <1>6 DEF SessionNext

\* What is on the screen agrees with what listens: the prompt stands over no
\* other question, and a result over none at all.
LEMMA KeysWork ==
  ASSUME TypeOK, ChoosesFirst, ~May("restart"), Forward, Owned
  PROVE  OfferedKeysWork
<1>. USE DEF When
<1>1. CASE at = "choosing"
  <2>1. phase = "idle" /\ flow = "none" /\ ~ready
    BY <1>1 DEF ChoosesFirst, Owned, FreshRun, Forward
  <2>2. Listener = "select"
    BY <1>1 DEF Listener
  <2>3. Offered \subseteq {"up", "down", "Enter", "q"}
    BY <1>1, <2>1 DEF Offered
  <2>. QED BY <2>2, <2>3 DEF OfferedKeysWork, Takes
<1>2. CASE at # "choosing" /\ flow = "prompt"
  <2>1. best /\ ~ready /\ phase \notin Waiting /\ phase # "listening"
    BY <1>2 DEF Forward, FlowHasDevice
  <2>2. Listener = "confirm"
    BY <1>2 DEF Listener
  <2>3. Offered \subseteq {"y", "Enter", "n", "q"}
    BY <1>2, <2>1 DEF Offered, Waiting
  <2>. QED BY <2>2, <2>3 DEF OfferedKeysWork, Takes
<1>3. CASE at # "choosing" /\ flow # "prompt" /\ phase = "waiting-for-disconnect"
  <2>1. ~best /\ ~ready
    BY <1>3 DEF Forward, FlowHasDevice, Waiting
  <2>2. Listener = "disconnect"
    BY <1>3 DEF Listener
  <2>3. Offered \subseteq {"Enter", "s", "q"}
    BY <1>3, <2>1 DEF Offered
  <2>. QED BY <2>2, <2>3 DEF OfferedKeysWork, Takes
<1>4. CASE at # "choosing" /\ flow # "prompt" /\ phase = "listening" /\ menu
  <2>1. ~best /\ ~ready
    BY <1>4 DEF Forward, FlowHasDevice
  <2>2. Listener = "menu"
    BY <1>4 DEF Listener
  <2>3. Offered \subseteq {"k", "r", "q"}
    BY <1>4, <2>1 DEF Offered
  <2>. QED BY <2>2, <2>3 DEF OfferedKeysWork, Takes
<1>5. CASE /\ at # "choosing" /\ flow # "prompt" /\ phase # "waiting-for-disconnect"
           /\ ~(phase = "listening" /\ menu)
  <2>1. Listener = IF ready THEN "result" ELSE "nobody"
    BY <1>5 DEF Listener
  <2>2. Offered = When(phase = "waiting-for-link", {"s"})
                  \union When(ready, {"c", "o", "Enter", "q"})
                  \union When(fatal \/ run = "failed", {"q"})
    BY <1>5 DEF Offered
  <2>. QED BY <2>1, <2>2 DEF OfferedKeysWork, Takes
<1>. QED BY <1>1, <1>2, <1>3, <1>4, <1>5

\* Whatever the screen offers, the key handler takes, for every command line and
\* in every interleaving of keys, frames, timers and shutdowns without a
\* restart.
THEOREM SessionKeysWork == SessionSpec => []OfferedKeysWork
<1>1. SessionInit => ChoosesFirst
  BY DEF SessionInit, Init, ChoosesFirst
<1>2. TypeOK /\ ChoosesFirst /\ (Apart => Owned) /\ (~May("restart") => Forward)
      => OfferedKeysWork
  <2>1. ~May("restart") => Apart
    BY DEF Apart
  <2>2. May("restart") => OfferedKeysWork
    BY DEF OfferedKeysWork
  <2>. QED BY <2>1, <2>2, KeysWork
<1>. QED BY <1>1, <1>2, ChoosesFirstStep, SessionIsEngine, TypeCorrect, OwnedApart, AlwaysForward, PTL
     DEF SessionSpec
-----------------------------------------------------------------------------
(* The adapter at the top *)

Adapter == LinuxAdapter \union WindowsAdapter

\* What the platform says of an adapter.
infoOf(a) == IF a.os = "linux" THEN describe(a) ELSE toInfo(a)

\* No adapter without a cable scores as much as one with a cable.
LEMMA ScoreOfConnected ==
  ASSUME NEW a \in Adapter
  PROVE  /\ infoOf(a).adapter = a
         /\ score(infoOf(a)) \in 0..9
         /\ Connected(a) <=> score(infoOf(a)) >= 8
         /\ Connected(a) => infoOf(a).kind = "ethernet"
<1>1. CASE a \in LinuxAdapter
  <2>1. a.os = "linux"
    BY <1>1 DEF LinuxAdapter
  <2>2. /\ infoOf(a).adapter = a
        /\ (infoOf(a).linkState = "up") <=> a.operstate = "up"
        /\ infoOf(a).kind = IF ~a.wireless /\ a.name \notin {"loopback", "virtual"} /\ a.device
                            THEN "ethernet" ELSE a.name
        /\ infoOf(a).physical <=> a.device /\ infoOf(a).kind \notin {"virtual", "loopback"}
    BY <1>1, <2>1 DEF infoOf, describe, LinuxAdapter
  <2>. QED BY <1>1, <2>1, <2>2 DEF LinuxAdapter, Connected, score, Points
<1>2. CASE a \in WindowsAdapter
  <2>1. a.os = "windows"
    BY <1>2 DEF WindowsAdapter
  <2>. DEFINE loopback == a.description = "loopback"
              virtual == a.virtual \/ a.description \in {"virtual", "loopback"} \/ a.media = ""
  <2>2. /\ infoOf(a).adapter = a
        /\ (infoOf(a).linkState = "up") <=> a.status = "Up"
        /\ (infoOf(a).kind = "ethernet") <=>
             ~loopback /\ a.media # "802.11" /\ a.description # "wifi" /\ ~virtual
        /\ infoOf(a).physical <=> ~virtual /\ ~loopback
    BY <1>2, <2>1 DEF infoOf, toInfo, WindowsAdapter
  <2>3. /\ a.media \in {"802.3", "802.11", ""} /\ a.virtual \in BOOLEAN
        /\ a.description \in {"wifi", "loopback", "virtual", "other"}
        /\ a.addressed \in BOOLEAN
    BY <1>2 DEF WindowsAdapter
  <2>4. Connected(a) <=> /\ infoOf(a).linkState = "up" /\ infoOf(a).physical
                         /\ infoOf(a).kind = "ethernet"
    BY <2>1, <2>2, <2>3 DEF Connected
  <2>5. infoOf(a).physical \in BOOLEAN /\ infoOf(a).addressed \in BOOLEAN
    BY <1>2, <2>1, <2>3 DEF infoOf, toInfo
  <2>6. score(infoOf(a)) \in 0..9 /\ (Connected(a) <=> score(infoOf(a)) >= 8)
    BY <2>4, <2>5 DEF score, Points
  <2>. QED BY <2>2, <2>4, <2>6
<1>. QED BY <1>1, <1>2 DEF Adapter

\* The one shown first scores as much as every other that is shown.
LEMMA FirstScoresBest ==
  ASSUME NEW infos, NEW n \in Nat, DOMAIN infos = 1..n, NEW all,
         \A i \in 1..n : score(infos[i]) \in 0..9,
         NEW k \in 1..n, infos[k].kind = "ethernet"
  PROVE  \E i \in 1..n : /\ selectEthernetInterfaces(infos, all)[1] = infos[i]
                         /\ score(infos[i]) >= score(infos[k])
<1>. DEFINE shown == {i \in DOMAIN infos : all \/ infos[i].kind \notin {"loopback", "wifi", "virtual"}}
            Before(i, j) == \/ score(infos[i]) > score(infos[j])
                            \/ (score(infos[i]) = score(infos[j]) /\ i < j)
            place(i) == 1 + Cardinality({j \in shown : Before(j, i)})
            missing == {9 - score(infos[i]) : i \in shown}
            tops == {i \in shown : \A j \in shown : score(infos[i]) >= score(infos[j])}
            first == CHOOSE i \in shown : place(i) = 1
<1>1. k \in shown /\ shown \subseteq 1..n
  OBVIOUS
<1>2. IsFiniteSet(shown) /\ Cardinality(shown) \in Nat /\ Cardinality(shown) >= 1
  <2>1. IsFiniteSet(1..n)
    BY FS_Interval
  <2>2. IsFiniteSet(shown)
    BY <1>1, <2>1, FS_Subset
  <2>3. Cardinality(shown) # 0
    BY <1>1, <2>2, FS_EmptySet
  <2>. QED BY <2>2, <2>3, FS_CardinalityType
<1>3. \E i \in tops : \A j \in tops : i <= j
  <2>1. missing \subseteq Nat /\ missing # {}
    BY <1>1
  <2>2. \E x \in missing : \A y \in missing : x <= y
    <3>. HIDE DEF missing
    <3>. QED BY <2>1, LeastNatural
  <2>3. tops # {}
    <3>. PICK i \in shown : \A y \in missing : 9 - score(infos[i]) <= y
      BY <2>2
    <3>1. \A j \in shown : 9 - score(infos[i]) <= 9 - score(infos[j])
      OBVIOUS
    <3>2. \A j \in shown : score(infos[j]) \in 0..9
      BY <1>1
    <3>3. \A j \in shown : score(infos[i]) >= score(infos[j])
      <4>. HIDE DEF shown
      <4>. QED BY <3>1, <3>2
    <3>4. i \in tops
      <4>. HIDE DEF shown
      <4>. QED BY <3>3
    <3>. HIDE DEF tops
    <3>. QED BY <3>4
  <2>4. tops \subseteq Nat
    BY <1>1
  <2>. HIDE DEF tops
  <2>. QED BY <2>3, <2>4, LeastNatural
<1>. PICK t \in tops : \A j \in tops : t <= j
  BY <1>3
<1>4. place(t) = 1
  <2>. DEFINE B == {j \in shown : Before(j, t)}
  <2>1. B = {}
    BY <1>1
  <2>2. place(t) = 1 + Cardinality(B)
    OBVIOUS
  <2>. HIDE DEF B, place
  <2>. QED BY <2>1, <2>2, FS_EmptySet
<1>5. first \in shown /\ place(first) = 1
  <2>. HIDE DEF shown, place
  <2>. QED BY <1>4
<1>6. {j \in shown : Before(j, first)} = {}
  <2>. DEFINE B == {j \in shown : Before(j, first)}
  <2>1. IsFiniteSet(B)
    BY <1>2, FS_Subset
  <2>2. Cardinality(B) = 0
    <3>1. 1 + Cardinality(B) = 1 /\ Cardinality(B) \in Nat
      BY <1>5, <2>1, FS_CardinalityType
    <3>. HIDE DEF B
    <3>. QED BY <3>1
  <2>. HIDE DEF B
  <2>3. B = {}
    BY <2>1, <2>2, FS_EmptySet
  <2>. QED BY <2>3 DEF B
<1>7. score(infos[first]) >= score(infos[k])
  <2>1. ~Before(k, first)
    BY <1>1, <1>6
  <2>2. score(infos[first]) \in 0..9 /\ score(infos[k]) \in 0..9
    BY <1>1, <1>5
  <2>. HIDE DEF first
  <2>. QED BY <2>1, <2>2
<1>8. selectEthernetInterfaces(infos, all)[1] = infos[first]
  <2>1. 1 \in 1..Cardinality(shown)
    BY <1>2
  <2>. HIDE DEF shown
  <2>2. [m \in 1..Cardinality(shown) |-> infos[CHOOSE i \in shown : place(i) = m]][1] = infos[first]
    BY <2>1
  <2>. QED BY <2>2 DEF selectEthernetInterfaces, shown
<1>. QED BY <1>1, <1>5, <1>7, <1>8

\* The user chooses among adapters that a platform may have, or the simulated.
MachineOK ==
  /\ machine = <<>> \/ machine \in Machines
  /\ Simulated => machine = <<>>

LEMMA MachineStep == MachineOK /\ [SessionNext]_session => MachineOK'
<1>. SUFFICES ASSUME MachineOK, [SessionNext]_session PROVE MachineOK'
  OBVIOUS
<1>. USE DEF MachineOK, Simulated
<1>1. CASE Launch \/ JsonReturns \/ \E r \in Closer : Left(r) \/ Killed(r)
  BY <1>1 DEF Launch, JsonReturns, Left, Killed
<1>2. CASE Enumerated
  BY <1>2 DEF Enumerated
<1>3. CASE Choosing
  BY <1>3 DEF Choosing, Up, Down, Enter, Rerendered
<1>4. CASE Hopeless \/ Fails \/ LinkHeard \/ Found \/ TimesOut \/ JsonConfirms \/ JsonCloses
           \/ (InEngine(InBackground) /\ UNCHANGED ui)
  BY <1>4 DEF Hopeless, Fails, LinkHeard, Found, TimesOut, JsonConfirms, JsonCloses, ui
<1>5. CASE Starts(RunStarts) \/ (Starts(\E j \in RestartCall : RestartResumes(j)))
           \/ Starts(UserKeys) \/ LinkMoves \/ Announced
  BY <1>5 DEF Starts, LinkMoves, Announced
<1>6. ASSUME NEW r \in Closer, Finishes(r) \/ Signalled(r)
      PROVE  MachineOK'
  BY <1>6 DEF Finishes, Signalled
<1>7. CASE UNCHANGED session
  BY <1>7 DEF session, ui
<1>. QED BY <1>1, <1>2, <1>3, <1>4, <1>5, <1>6, <1>7 DEF SessionNext

LEMMA FirstOfMachine ==
  ASSUME MachineOK, NEW c \in DOMAIN machine, Connected(machine[c])
  PROVE  Connected(Candidates(machine)[1].adapter)
<1>. DEFINE infos == enumerate(machine)
            all == args.interface # ""
<1>1. machine \in Seq(Adapter) /\ machine # <<>>
  BY MachinesAssumption DEF MachineOK, Adapter
<1>2. PICK n \in Nat : DOMAIN machine = 1..n /\ \A i \in 1..n : machine[i] \in Adapter
  BY <1>1
<1>3. DOMAIN infos = 1..n /\ \A i \in 1..n : infos[i] = infoOf(machine[i])
  BY <1>2 DEF enumerate, infoOf
<1>4. \A i \in 1..n : /\ infos[i].adapter = machine[i]
                      /\ score(infos[i]) \in 0..9
                      /\ Connected(machine[i]) <=> score(infos[i]) >= 8
                      /\ Connected(machine[i]) => infos[i].kind = "ethernet"
  BY <1>2, <1>3, ScoreOfConnected
<1>5. Candidates(machine) = selectEthernetInterfaces(infos, all)
  BY <1>1 DEF Candidates, MachineOK
<1>. HIDE DEF infos, all
<1>6. c \in 1..n /\ infos[c].kind = "ethernet" /\ score(infos[c]) >= 8
  BY <1>2, <1>4
<1>7. PICK i \in 1..n : /\ selectEthernetInterfaces(infos, all)[1] = infos[i]
                        /\ score(infos[i]) >= score(infos[c])
  BY <1>3, <1>4, <1>6, FirstScoresBest
<1>8. score(infos[i]) >= 8
  BY <1>4, <1>6, <1>7
<1>. QED BY <1>4, <1>5, <1>7, <1>8

\* Whatever adapters a machine has and in whichever order, the one at the top of
\* the list has a cable plugged in, if any of them has.
THEOREM FirstAlwaysBest == SessionSpec => []FirstIsBest
<1>1. SessionInit => MachineOK
  BY DEF SessionInit, MachineOK
<1>2. MachineOK => FirstIsBest
  BY FirstOfMachine DEF FirstIsBest
<1>. QED BY <1>1, <1>2, MachineStep, PTL DEF SessionSpec
================================================================================
