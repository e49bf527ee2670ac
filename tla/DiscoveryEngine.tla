--------------------------- MODULE DiscoveryEngine ---------------------------
(***************************************************************************)
(* The workflow engine with the front end that drives it: run(), the       *)
(* handlers of link events, frames and timers, the flow that follows a     *)
(* discovery, restartWorkflow() and shutdown(), and the keys of the        *)
(* terminal UI with the conditions under which it passes them on.          *)
(*                                                                         *)
(* A step runs until the engine waits for something outside the microtask  *)
(* queue: a child process, a timer, a command, the user.                   *)
(***************************************************************************)
EXTENDS DiscoveryStateMachine, Naturals, FiniteSets

CONSTANTS
  Sessions,      \* how the program may be started and used, a subset of Session
  ShutdownCall,  \* shutdown() calls by key, signal or capture failure
  RestartCall,   \* restartWorkflow() calls
  MaxSources,    \* bound: captures started
  MaxFlips,      \* bound: changes of the physical link
  NoSource       \* no capture

Inputs ==
  {"confirm", "skip", "keep", "restart",  \* the keys Enter, s, k and r
   "quit",        \* q, Ctrl+C or a signal before the workflow is over
   "early",       \* ... even before run() has started it
   "error",       \* the capture process dies
   "spawn"}       \* the capture process cannot be spawned

\* EngineOptions, the services that are present, and what happens.
Session ==
  [mode : {"tui", "json"},      \* the front end
   skipReplug : BOOLEAN,
   listenOnly : BOOLEAN,
   configurable : BOOLEAN,      \* not noConfigure, and there is a configuration service
   probe : BOOLEAN,             \* there is a ping probe
   monitored : BOOLEAN,         \* there is a platform link monitor
   inputs : SUBSET Inputs]

ASSUME SessionsAssumption == Sessions \subseteq Session
ASSUME BoundsAssumption == MaxSources \in Nat /\ MaxFlips \in Nat
ASSUME CallAssumption ==
  ShutdownCall \intersect RestartCall = {} /\ "json" \notin ShutdownCall \union RestartCall

Source == 1..MaxSources
ASSUME NoSourceAssumption == NoSource \notin Source

\* "json" is the shutdown that JSON mode makes once run() is over.
Closer == ShutdownCall \union {"json"}
Job == Closer \union RestartCall

VARIABLES
  opt,      \* how this session was started and is used
  run,      \* what run() and its caller know
  src,      \* src[i]: the i-th capture
  current,  \* #packetSource
  monitor,  \* #linkMonitor
  seen,     \* the last state the monitor reported
  link,     \* the physical link
  flips,    \* how often it changed
  timer,    \* the listening timer is armed
  menu,     \* the UI offers the timeout menu
  best,     \* #bestCandidate is set
  flow,     \* where afterDeviceFound is
  temp,     \* the lease holds a change (CleanupManager.hasChanges)
  ready,    \* "ready" was emitted
  fatal,    \* a fatal "error" was emitted
  job       \* job[j]: the shutdown() or restartWorkflow() call j

capture == <<src, current>>
watch == <<monitor, seen>>
world == <<opt, link, flips>>
told == <<ready, fatal>>
vars == <<phase, configActive, run, capture, watch, world, timer, menu, best, flow,
          temp, told, job>>

Init ==
  /\ opt \in Sessions
  /\ phase = "idle" /\ configActive = FALSE
  /\ run = "preparing"
  /\ src = [i \in Source |-> "unused"] /\ current = NoSource
  /\ monitor = "none" /\ seen = "unknown"
  /\ link \in {"up", "down"} /\ flips = 0
  /\ timer = FALSE /\ menu = FALSE
  /\ best = FALSE /\ flow = "none" /\ temp = FALSE
  /\ ready = FALSE /\ fatal = FALSE
  /\ job = [j \in Job |-> [pc |-> "idle", wait |-> NoSource]]

May(input) == input \in opt.inputs

\* Mutant: the outcome does not reach run().
Unresolved == run
\* run() resolves if it has not been abandoned.
Resolved == IF run = "waiting" THEN "resolved" ELSE run

Reaches(j, pc) == job' = [job EXCEPT ![j] = [pc |-> pc, wait |-> NoSource]]

-----------------------------------------------------------------------------
(* stopCapture and shutdown *)

\* Mutant: stop() returns without stopping anything.
MustWaitNever == FALSE

\* stop() waits for a running child; a second stop() of the same source finds
\* #child unset and returns at once.
MustWait == current # NoSource /\ src[current] = "running"

StopBegins(j) ==
  /\ src' = [src EXCEPT ![current] = "stopping"]
  /\ job' = [job EXCEPT ![j] = [pc |-> "stopping", wait |-> current]]

\* Mutant: shutdown() leaves the link monitor alone.
MonitorLeft == monitor
MonitorDisposed == IF monitor = "none" THEN "none" ELSE "disposed"

\* shutdown() after its stopCapture, in phase p.
Teardown(p, r) ==
  /\ current' = NoSource
  /\ monitor' = MonitorDisposed
  /\ IF temp
     THEN phase' = beginCleanup[p] /\ Reaches(r, "restoring")
     ELSE phase' = cleanupComplete[beginCleanup[p]] /\ Reaches(r, "done")

\* Who calls shutdown(): Enter on the result, a key or a signal at any time;
\* JSON mode when run() has resolved or thrown.
AsksToClose(r) ==
  IF r = "json"
  THEN opt.mode = "json" /\ run \in {"resolved", "failed"}
  ELSE \/ /\ opt.mode = "tui" /\ ready /\ flow # "prompt"
          /\ phase # "waiting-for-disconnect" /\ ~(menu /\ phase = "listening")
       \/ May("quit") /\ (run = "preparing" => May("early"))

Shutdown(r) ==
  /\ job[r].pc = "idle"
  /\ AsksToClose(r)
  /\ timer' = FALSE
  /\ run' = IF run = "waiting" THEN "abandoned" ELSE run
  /\ IF MustWait
     THEN StopBegins(r) /\ UNCHANGED <<phase, current, monitor>>
     ELSE Teardown(phase, r) /\ UNCHANGED src
  /\ UNCHANGED <<configActive, seen, world, menu, best, flow, temp, told>>

StopEnds(r) ==
  /\ r \in Closer
  /\ job[r].pc = "stopping"
  /\ src' = [src EXCEPT ![job[r].wait] = "closed"]
  /\ Teardown(phase, r)
  /\ UNCHANGED <<configActive, run, seen, world, timer, menu, best, flow, temp, told>>

\* Mutant: the failure of a removal is thrown, not reported.
RestoreReturnsOnSuccess == ~temp'
RestoreReturns == TRUE

\* restoreConfiguration, which removes the address or reports why not, and the
\* rest of shutdown().
RestoreEnds(r) ==
  /\ job[r].pc = "restoring"
  /\ temp' \in {FALSE, temp}
  /\ IF Accepts(cleanupComplete) /\ RestoreReturns
     THEN phase' = cleanupComplete[phase] /\ Reaches(r, "done")
     ELSE Reaches(r, "threw") /\ UNCHANGED phase
  /\ UNCHANGED <<configActive, run, capture, watch, world, timer, menu, best, flow, told>>

-----------------------------------------------------------------------------
(* enterListening, in phase p *)

\* A capture starts.
CaptureStarts(p) ==
  /\ \E i \in Source :
       /\ src[i] = "unused" /\ \A k \in 1..(i - 1) : src[k] # "unused"
       /\ src' = [src EXCEPT ![i] = "running"]
       /\ current' = i
  /\ phase' = p
  /\ run' = IF run = "preparing" THEN "waiting" ELSE run
  /\ UNCHANGED <<monitor, fatal, job>>

\* spawn throws: the error is reported and shutdown() called before run() has
\* subscribed to the outcome; then the listening timer starts all the same.
SpawnFails(p) ==
  /\ May("spawn")
  /\ \E r \in ShutdownCall : job[r].pc = "idle" /\ Teardown(p, r)
  /\ fatal' = TRUE
  /\ run' = IF run = "preparing" THEN "waiting" ELSE Resolved
  /\ UNCHANGED src

\* Mutant: nothing arms the listening timer.
Unarmed == UNCHANGED timer
Armed == timer' = TRUE

EnterListening(p) == Armed /\ (CaptureStarts(p) \/ SpawnFails(p))

\* startLinkWatch: a disposed monitor that is still held starts again.
StartLinkWatch ==
  /\ monitor' = "live"
  /\ seen' = IF monitor = "none" THEN "unknown" ELSE seen

-----------------------------------------------------------------------------
(* run() and the engine's events *)

\* No interface is usable, none has the given name, or the restore of the
\* leftovers throws, which stay recorded.
RunFails ==
  /\ run = "preparing"
  /\ run' = "failed"
  /\ temp' \in BOOLEAN
  /\ UNCHANGED <<phase, configActive, capture, watch, world, timer, menu, best, flow, told, job>>

RunStarts ==
  /\ run = "preparing"
  /\ Accepts(start(opt.skipReplug))
  /\ IF opt.skipReplug
     THEN EnterListening(start(opt.skipReplug)[phase]) /\ UNCHANGED seen
     ELSE /\ Moves(start(opt.skipReplug))
          /\ StartLinkWatch
          /\ run' = "waiting"
          /\ UNCHANGED <<capture, timer, fatal, job>>
  /\ UNCHANGED <<configActive, world, menu, best, flow, temp, ready>>

LinkChanges ==
  /\ flips < MaxFlips
  /\ flips' = flips + 1
  /\ link' = IF link = "up" THEN "down" ELSE "up"
  /\ UNCHANGED <<opt, phase, configActive, run, capture, watch, timer, menu, best, flow,
                 temp, told, job>>

\* The monitor reports a state other than the last one it saw.  The fallback
\* monitor never reports.
LinkEvent ==
  /\ opt.monitored
  /\ monitor = "live"
  /\ seen # link
  /\ seen' = link
  /\ CASE link = "down" /\ phase = "waiting-for-disconnect" ->
            Moves(linkDown) /\ UNCHANGED <<run, capture, monitor, timer, fatal, job>>
       [] link = "up" /\ phase = "waiting-for-link" -> EnterListening(linkUp[phase])
       [] OTHER -> UNCHANGED <<phase, run, capture, monitor, timer, fatal, job>>
  /\ UNCHANGED <<configActive, world, menu, best, flow, temp, ready>>

\* Nothing was heard: the UI offers its menu.
TimerFires ==
  /\ timer
  /\ timer' = FALSE
  /\ menu' = (menu \/ (phase = "listening" /\ ~best))
  /\ UNCHANGED <<phase, configActive, run, capture, watch, world, best, flow, temp, told, job>>

\* Mutant: the error is only told.
OnCaptureErrorTold == UNCHANGED <<phase, current, monitor, timer, job>>

\* A fatal error shuts the engine down; stop() finds the child gone.
OnCaptureError ==
  /\ timer' = FALSE
  /\ \E r \in ShutdownCall : job[r].pc = "idle" /\ Teardown(phase, r)

\* The capture process of the current source dies.
CaptureDies ==
  /\ May("error")
  /\ MustWait
  /\ src' = [src EXCEPT ![current] = "closed"]
  /\ fatal' = TRUE
  /\ run' = Resolved
  /\ OnCaptureError
  /\ UNCHANGED <<configActive, seen, world, menu, best, flow, temp, ready>>

-----------------------------------------------------------------------------
(* afterDeviceFound *)

\* Mutant: only a verified device gets connected.
FinishableVerified == {"verifying"}
Finishable == {"device-found", "verifying"}

\* finishConnected in phase p.
FinishConnected(p) ==
  /\ phase' = IF p \in Finishable THEN "connected" ELSE p
  /\ ready' = TRUE
  /\ flow' = "ended"
  /\ run' = Resolved

FlowThrows == flow' = "threw" /\ UNCHANGED <<phase, ready, run>>

\* verify in phase p.  Without a probe it succeeds, if the phase allows it.
Verify(p) ==
  LET q == IF p = "device-found" THEN startVerify[p] ELSE p IN
  CASE opt.probe -> phase' = q /\ flow' = "probing" /\ UNCHANGED <<ready, run>>
    [] ~opt.probe /\ q = "verifying" -> FinishConnected(verificationEnds[q])
    [] OTHER -> FlowThrows

\* The first frame that identifies a device; frames come until the child is
\* gone.  A phase that cannot take it is tolerated.
DeviceFound ==
  LET p == IF Accepts(deviceFound) THEN deviceFound[phase] ELSE phase IN
  /\ ~best
  /\ \E i \in Source : src[i] \in {"running", "stopping"}
  /\ best' = TRUE
  /\ timer' = FALSE
  /\ IF opt.listenOnly
     THEN FinishConnected(p)
     ELSE phase' = p /\ flow' = "enumerating" /\ UNCHANGED <<ready, run>>
  /\ UNCHANGED <<configActive, capture, watch, world, menu, temp, fatal, job>>

\* The interfaces are enumerated again and reachability is evaluated.
Evaluated ==
  /\ flow = "enumerating"
  /\ \/ Verify(phase)
     \/ ~opt.configurable /\ FinishConnected(phase)
     \/ opt.configurable /\ flow' = "prompt" /\ UNCHANGED <<phase, ready, run>>
  /\ UNCHANGED <<configActive, capture, watch, world, timer, menu, best, temp, fatal, job>>

\* JSON mode confirms at once.
Confirmed ==
  /\ flow = "prompt"
  /\ IF Accepts(startConfigure)
     THEN Moves(startConfigure) /\ flow' = "applying" /\ UNCHANGED <<ready, run>>
     ELSE FlowThrows
  /\ UNCHANGED <<configActive, capture, watch, world, timer, menu, best, temp, fatal, job>>

Declined ==
  /\ flow = "prompt"
  /\ opt.mode = "tui"
  /\ IF Accepts(configureDeclined)
     THEN FinishConnected(configureDeclined[phase])
     ELSE FlowThrows
  /\ UNCHANGED <<configActive, capture, watch, world, timer, menu, best, temp, fatal, job>>

\* applyTemporaryAddress returns.  When configApplied throws, the handler of
\* the failure calls configureFailed, which throws too.
Applied ==
  /\ flow = "applying"
  /\ temp' = TRUE
  /\ IF Accepts(configApplied)
     THEN configActive' = TRUE /\ Verify(configApplied[phase])
     ELSE FlowThrows /\ UNCHANGED configActive
  /\ UNCHANGED <<capture, watch, world, timer, menu, best, fatal, job>>

ApplyFails ==
  /\ flow = "applying"
  /\ IF Accepts(configureFailed)
     THEN FinishConnected(configureFailed[phase])
     ELSE FlowThrows
  /\ UNCHANGED <<configActive, capture, watch, world, timer, menu, best, temp, fatal, job>>

\* The last of three pings: verificationSucceeded or verificationFailed.
Probed ==
  /\ flow = "probing"
  /\ IF Accepts(verificationEnds)
     THEN FinishConnected(verificationEnds[phase])
     ELSE FlowThrows
  /\ UNCHANGED <<configActive, capture, watch, world, timer, menu, best, temp, fatal, job>>

-----------------------------------------------------------------------------
(* The keys of the terminal UI *)

\* A pending prompt takes the keys first.
Key(k) == May(k) /\ opt.mode = "tui" /\ flow # "prompt"
MenuKey(k) == Key(k) /\ menu /\ phase = "listening"

UserConfirms ==
  /\ Key("confirm")
  /\ phase = "waiting-for-disconnect"
  /\ Moves(confirmDisconnected)
  /\ StartLinkWatch
  /\ UNCHANGED <<configActive, run, capture, world, timer, menu, best, flow, temp, told, job>>

UserSkips ==
  /\ Key("skip")
  /\ phase = "waiting-for-disconnect"
  /\ EnterListening(skipReplug[phase])
  /\ UNCHANGED <<configActive, seen, world, menu, best, flow, temp, ready>>

UserKeepsListening ==
  /\ MenuKey("keep")
  /\ menu' = FALSE
  /\ Armed
  /\ UNCHANGED <<phase, configActive, run, capture, watch, world, best, flow, temp, told, job>>

\* Mutant: the disposed monitor is not replaced.
NoNewMonitor == monitor' = "disposed" /\ UNCHANGED seen
NewMonitor == monitor' = "live" /\ seen' = "unknown"

\* restartWorkflow() after its stopCapture.
Restart ==
  /\ current' = NoSource
  /\ configActive' = FALSE
  /\ phase' = restart[phase]
  /\ NewMonitor

UserRestarts(j) ==
  /\ MenuKey("restart")
  /\ job[j].pc = "idle"
  /\ menu' = FALSE
  /\ IF MustWait
     THEN StopBegins(j) /\ UNCHANGED <<phase, configActive, current, watch>>
     ELSE Restart /\ Reaches(j, "done") /\ UNCHANGED src
  /\ UNCHANGED <<run, world, timer, best, flow, temp, told>>

RestartResumes(j) ==
  /\ j \in RestartCall
  /\ job[j].pc = "stopping"
  /\ src' = [src EXCEPT ![job[j].wait] = "closed"]
  /\ Accepts(restart)
  /\ Restart
  /\ Reaches(j, "done")
  /\ UNCHANGED <<run, world, timer, menu, best, flow, temp, told>>

-----------------------------------------------------------------------------
FlowStep ==
  \/ Evaluated
  \/ Confirmed
  \/ Declined
  \/ Applied
  \/ ApplyFails
  \/ Probed

UserStep ==
  \/ UserConfirms
  \/ UserSkips
  \/ UserKeepsListening
  \/ \E j \in RestartCall : UserRestarts(j)

Next ==
  \/ RunFails
  \/ RunStarts
  \/ LinkChanges
  \/ LinkEvent
  \/ TimerFires
  \/ CaptureDies
  \/ DeviceFound
  \/ FlowStep
  \/ UserStep
  \/ \E r \in Closer : Shutdown(r) \/ StopEnds(r) \/ RestoreEnds(r)
  \/ \E j \in RestartCall : RestartResumes(j)

Spec == Init /\ [][Next]_vars

\* What is under way comes to its end: startup, polls, timers, enumeration,
\* commands, pings, children that were told to stop.  Nobody owes a device, a
\* failure or a key; JSON mode owes its confirmation and its shutdown.
Fairness ==
  /\ WF_vars(RunFails \/ RunStarts)
  /\ WF_vars(LinkEvent)
  /\ WF_vars(TimerFires)
  /\ WF_vars(Evaluated)
  /\ WF_vars(opt.mode = "json" /\ Confirmed)
  /\ WF_vars(Applied \/ ApplyFails)
  /\ WF_vars(Probed)
  /\ WF_vars(Shutdown("json"))
  /\ \A r \in Closer : WF_vars(StopEnds(r) \/ RestoreEnds(r))
  /\ \A j \in RestartCall : WF_vars(RestartResumes(j))

FairSpec == Spec /\ Fairness

-----------------------------------------------------------------------------
(* Properties *)

\* The variables keep to their types.
TypeOK ==
  /\ opt \in Sessions
  /\ phase \in Phase /\ configActive \in BOOLEAN
  /\ run \in {"preparing", "waiting", "resolved", "failed", "abandoned"}
  /\ src \in [Source -> {"unused", "running", "stopping", "closed"}]
  /\ current \in Source \union {NoSource}
  /\ monitor \in {"none", "live", "disposed"} /\ seen \in {"unknown", "up", "down"}
  /\ link \in {"up", "down"} /\ flips \in 0..MaxFlips
  /\ {timer, menu, best, temp, ready, fatal} \subseteq BOOLEAN
  /\ flow \in {"none", "enumerating", "prompt", "applying", "probing", "ended", "threw"}
  /\ job \in [Job -> [pc : {"idle", "stopping", "restoring", "done", "threw"},
                      wait : Source \union {NoSource}]]

Stopping == \E j \in Job : job[j].pc = "stopping"

\* No capture runs that the engine has lost: the running one is #packetSource,
\* whose stop() the next shutdown or restart will call.  A key r and a quit
\* that overlap can lose one.
CaptureOwned ==
  ~(May("restart") /\ May("quit")) => \A i \in Source : src[i] = "running" => current = i

\* While the screen says that Etherfind is listening it listens, unless a
\* shutdown or a restart is stopping the capture.
ListeningCaptures == phase = "listening" => MustWait \/ Stopping

\* While the user is asked to replug, somebody watches the link.
WaitingIsWatched == phase \in Waiting => monitor = "live"

\* The engine is configuring as long as an apply is under way, and no longer.
ConfiguringMeansApplying == phase = "configuring" => flow = "applying"

\* Once every shutdown that was asked for is over, nothing is left that keeps
\* the process alive: no capture, no polling.  (The front ends end by having
\* nothing left to do.)
ShutdownIsFinal ==
  (\E r \in Closer : job[r].pc = "done") /\ (\A r \in Closer : job[r].pc \in {"idle", "done", "threw"})
    => monitor # "live" /\ \A i \in Source : src[i] # "running"

\* ... unless a restart resumes after it, or it came before run() had started.
StaysDown == ~May("restart") /\ ~May("early") => ShutdownIsFinal

\* The engine drives the state machine correctly, as long as nothing ends or
\* restarts the workflow in the middle: no handler of its own throws.
NoInvalidTransition ==
  opt.inputs \intersect {"quit", "error", "restart"} = {} =>
    flow # "threw" /\ \A r \in Closer : job[r].pc # "threw"

\* Listening ends, or the user is told that nothing was heard.
ListeningEnds == phase = "listening" ~> (phase # "listening" \/ menu)
=============================================================================
