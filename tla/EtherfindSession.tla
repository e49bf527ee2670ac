--------------------------- MODULE EtherfindSession ---------------------------
(***************************************************************************)
(* A run of the program, from its command line to its exit code: main(),   *)
(* the choice of an interface, the terminal UI or JSON mode around the     *)
(* workflow engine, the termination signals, and the script of --simulate. *)
(* The engine's own steps are those of DiscoveryEngine.                    *)
(***************************************************************************)
EXTENDS DiscoveryEngine, InterfaceSelection

CONSTANTS
  Commands,  \* how the program may be started and used
  Machines   \* what the platform may say of the adapters, sequences of them

Flags == {"--listen", "--no-configure", "--json", "--all-interfaces", "--simulate", "--debug",
          "--cleanup", "--help", "--version"}

\* A name that --interface may be given counts by whether an adapter has it.
Tokens == Flags \union {"-i", "present", "absent", "--unknown"}

Command == [argv : Seq(Tokens), tty : BOOLEAN, inputs : SUBSET Inputs]

\* parseArgs: --interface takes whatever follows it.
parseArgs(argv) ==
  FoldLeft(LAMBDA args, arg :
             CASE args.wants -> [args EXCEPT !.interface = arg, !.wants = FALSE]
               [] ~args.wants /\ arg = "-i" -> [args EXCEPT !.wants = TRUE]
               [] ~args.wants /\ arg \in Flags -> [args EXCEPT !.flags = @ \union {arg}]
               [] OTHER -> [args EXCEPT !.unknown = TRUE],
           [flags |-> {}, interface |-> "", wants |-> FALSE, unknown |-> FALSE], argv)

\* Every platform has all the services, and so has the simulation.
Services == {"interfaces", "capture", "link monitor", "network configuration", "ping"}

\* The options that main() builds.
OptionsOf(c) ==
  LET Has(flag) == flag \in parseArgs(c.argv).flags IN
  [mode |-> IF Has("--json") THEN "json" ELSE "tui",
   skipReplug |-> Has("--listen"), listenOnly |-> Has("--listen"),
   configurable |-> "network configuration" \in Services /\ ~Has("--no-configure"),
   probe |-> "ping" \in Services, monitored |-> "link monitor" \in Services,
   inputs |-> c.inputs]

ASSUME CommandsAssumption == \A c \in Commands : OptionsOf(c) \in Sessions
ASSUME MachinesAssumption == Machines \subseteq Seq(LinuxAdapter \union WindowsAdapter)

VARIABLES
  args,     \* what the command line says
  tty,      \* there is a terminal
  at,       \* how far main() and the choice of the interface are
  machine,  \* the adapters, while the user chooses
  index,    \* selectIndex, the row that is highlighted
  bound,    \* the selectIndex that the key handler closes over
  by,       \* by[r]: who made the shutdown() call r
  script,   \* the timers of the simulation that are still to fire
  result,   \* what run() resolved to
  exit      \* the exit code, or "killed" by a signal's handler

ui == <<args, tty, at, machine, index, bound, by, script, exit>>
session == <<vars, ui, result>>

Simulated == "--simulate" \in args.flags

SessionInit ==
  /\ Init
  /\ \E c \in Commands : opt = OptionsOf(c) /\ args = parseArgs(c.argv) /\ tty = c.tty
  /\ Simulated => link = "up"
  /\ at = "launch" /\ machine = <<>> /\ index = 1 /\ bound = 1
  /\ by = [r \in Closer |-> "nobody"]
  /\ script = "off" /\ result = "none" /\ exit = "none"

\* What run() resolves to, whichever step resolves it.
ResultOf == IF fatal' # fatal THEN "nothing" ELSE "device"

HearsResult == result' = IF run' = "resolved" /\ run # run' THEN ResultOf ELSE result

\* A step of the engine, in a process that runs it.
InEngine(Step) ==
  /\ at = "chosen" /\ exit # "killed"
  /\ Step /\ HearsResult

-----------------------------------------------------------------------------
(* main() *)

\* The codes with which main() returns before there is an engine.  --cleanup
\* restores the leftovers.
ExitsAtOnce ==
  CASE args.wants \/ args.unknown -> {"usage"}
    [] ~(args.wants \/ args.unknown) /\ {"--help", "--version"} \intersect args.flags # {} -> {"ok"}
    [] OTHER -> CASE "--cleanup" \in args.flags -> {"ok", "failed"}
                  [] {"--cleanup", "--json"} \intersect args.flags = {} /\ ~tty -> {"usage"}
                  [] OTHER -> {}

Launch ==
  /\ at = "launch"
  /\ IF ExitsAtOnce = {}
     THEN at' = "enumerating" /\ UNCHANGED exit
     ELSE at' = "over" /\ exit' \in ExitsAtOnce
  /\ UNCHANGED <<vars, args, tty, machine, index, bound, by, script, result>>

\* What SimulatedPlatform enumerates.
SimulatedInterfaces ==
  LET Simulated_(kind, addressed) ==
        [adapter |-> kind, linkState |-> "up", kind |-> kind, physical |-> TRUE,
         addressed |-> addressed]
  IN <<Simulated_("ethernet", FALSE), Simulated_("wifi", TRUE)>>

Candidates(m) ==
  selectEthernetInterfaces(IF Simulated THEN SimulatedInterfaces ELSE enumerate(m),
                           args.interface # "")

\* The first await of run() is over.  A name is looked up among all adapters;
\* without one the terminal UI always asks.
Enumerated ==
  /\ at = "enumerating" /\ exit # "killed"
  /\ \E m \in Machines :
       CASE args.interface # "" ->
              at' = (IF args.interface = "present" THEN "chosen" ELSE "hopeless") /\ UNCHANGED machine
         [] args.interface = "" /\ Candidates(m) = <<>> -> at' = "hopeless" /\ UNCHANGED machine
         [] OTHER -> IF opt.mode = "json"
                     THEN at' = "chosen" /\ UNCHANGED machine
                     ELSE at' = "choosing" /\ machine' = (IF Simulated THEN <<>> ELSE m)
  /\ UNCHANGED <<vars, args, tty, index, bound, by, script, result, exit>>

\* run() throws: the enumeration fails, or finds nothing to use.
Hopeless ==
  /\ at = "hopeless" \/ (at = "enumerating" /\ ~Simulated)
  /\ exit # "killed"
  /\ RunFails
  /\ at' = "chosen"
  /\ UNCHANGED <<args, tty, machine, index, bound, by, script, result, exit>>

\* ... or the restore of the leftovers.
Fails == InEngine(RunFails) /\ ~Simulated /\ UNCHANGED ui

-----------------------------------------------------------------------------
(* The terminal UI *)

\* Mutant: the menu takes the keys whatever the phase.
ListenerMenuStays ==
  CASE at = "choosing" -> "select"
    [] at # "choosing" /\ flow = "prompt" -> "confirm"
    [] at # "choosing" /\ flow # "prompt" /\ phase = "waiting-for-disconnect" -> "disconnect"
    [] at # "choosing" /\ flow # "prompt" /\ phase # "waiting-for-disconnect" /\ menu -> "menu"
    [] OTHER -> IF ready THEN "result" ELSE "nobody"

\* useInput: the part of the handler that takes the next key, by its early
\* returns.
Listener ==
  CASE at = "choosing" -> "select"
    [] at # "choosing" /\ flow = "prompt" -> "confirm"
    [] at # "choosing" /\ flow # "prompt" /\ phase = "waiting-for-disconnect" -> "disconnect"
    [] at # "choosing" /\ flow # "prompt" /\ menu /\ phase = "listening" -> "menu"
    [] OTHER -> IF ready THEN "result" ELSE "nobody"

Takes ==
  [select |-> {"up", "down", "Enter"}, confirm |-> {"y", "Enter", "n"},
   disconnect |-> {"Enter", "s"}, menu |-> {"k", "r"}, result |-> {"Enter", "c", "o"},
   nobody |-> {}]

\* The keys that the screen names.
When(condition, keys) == IF condition THEN keys ELSE {}
Offered ==
  When(at = "choosing", {"up", "down", "Enter"})
  \union When(phase = "waiting-for-disconnect", {"Enter", "s"})
  \union When(phase = "waiting-for-link", {"s"})
  \union When(phase = "listening" /\ ~best /\ menu, {"k", "r", "q"})
  \union When(flow = "prompt", {"y", "Enter", "n"})
  \union When(ready, {"c", "o", "Enter", "q"})
  \union When(fatal \/ run = "failed", {"q"})

\* Ink listens until exit().
AtScreen(part) == opt.mode = "tui" /\ exit = "none" /\ Listener = part

Up == index' = (IF index = 1 THEN 1 ELSE index - 1) /\ UNCHANGED <<at, machine, bound>>
Down ==
  /\ index' = (IF index < Len(Candidates(machine)) THEN index + 1 ELSE index)
  /\ UNCHANGED <<at, machine, bound>>
Enter ==
  /\ bound \in DOMAIN Candidates(machine)
  /\ at' = "chosen" /\ machine' = <<>> /\ index' = 1 /\ bound' = 1

\* After its next rendering the handler sees the row that is highlighted.
Rerendered == bound' = index /\ UNCHANGED <<at, machine, index>>

Choosing ==
  /\ AtScreen("select")
  /\ Up \/ Down \/ Enter \/ Rerendered
  /\ UNCHANGED <<vars, args, tty, by, script, result, exit>>

\* Enter on the result and q anywhere: finish().
Finishes(r) ==
  /\ r # "json" /\ opt.mode = "tui" /\ exit = "none" /\ at \notin {"launch", "over"}
  /\ May("quit") \/ Listener = "result"
  /\ Shutdown(r) /\ HearsResult
  /\ by' = [by EXCEPT ![r] = "key"]
  /\ UNCHANGED <<args, tty, at, machine, index, bound, script, exit>>

\* finish() has heard from shutdown() and waited 900 ms.
Left(r) ==
  /\ by[r] = "key" /\ exit = "none"
  /\ job[r].pc = "done"
  /\ exit' = "ok"
  /\ UNCHANGED <<vars, args, tty, at, machine, index, bound, by, script, result>>

-----------------------------------------------------------------------------
(* Signals and JSON mode *)

\* onSignal: only the first one counts.
Signalled(r) ==
  /\ r # "json" /\ May("quit") /\ exit # "killed" /\ at \notin {"launch", "over"}
  /\ \A c \in Closer : by[c] # "signal"
  /\ Shutdown(r) /\ HearsResult
  /\ by' = [by EXCEPT ![r] = "signal"]
  /\ UNCHANGED <<args, tty, at, machine, index, bound, script, exit>>

Killed(r) ==
  /\ by[r] = "signal" /\ exit # "killed"
  /\ job[r].pc \in {"done", "threw"}
  /\ exit' = "killed"
  /\ UNCHANGED <<vars, args, tty, at, machine, index, bound, by, script, result>>

\* runJsonMode calls shutdown() when run() has resolved or thrown.
JsonCloses == InEngine(Shutdown("json")) /\ UNCHANGED ui

JsonReturns ==
  /\ opt.mode = "json" /\ exit = "none"
  /\ job["json"].pc = "done"
  /\ exit' = IF result = "device" THEN "ok" ELSE "failed"
  /\ UNCHANGED <<vars, args, tty, at, machine, index, bound, by, script, result>>

-----------------------------------------------------------------------------
(* The world, real or simulated *)

Scripted == script \in {"unplug", "plug", "announce"}

\* Starting a monitor of the simulation starts its script.
Starts(Step) ==
  /\ InEngine(Step)
  /\ script' = IF Simulated /\ phase' = "waiting-for-disconnect" /\ phase # phase'
               THEN "unplug" ELSE script
  /\ UNCHANGED <<args, tty, at, machine, index, bound, by, exit>>

\* The timers of the script that change the link; then the device announces
\* itself.
\* Mutant: it does not.
NextTimerSilent ==
  \/ script = "unplug" /\ link = "up" /\ script' = "plug"
  \/ script = "plug" /\ (monitor = "live" => seen = link) /\ script' = "over"
NextTimer ==
  \/ script = "unplug" /\ link = "up" /\ script' = "plug"
  \/ script = "plug" /\ (monitor = "live" => seen = link) /\ script' = "announce"

LinkMoves ==
  /\ InEngine(LinkChanges)
  /\ IF Simulated THEN NextTimer ELSE UNCHANGED script
  /\ UNCHANGED <<args, tty, at, machine, index, bound, by, exit>>

\* ManualLinkMonitor reports changes, never the state it starts with.
LinkHeard ==
  /\ InEngine(LinkEvent)
  /\ Simulated => script \in {"plug", "announce"}
  /\ UNCHANGED ui

\* Traffic of a real device, or the announcement of the simulated one, 0.5 s
\* after the link came up; it is lost if no capture runs.
Announced ==
  /\ Simulated /\ script = "announce" /\ (monitor = "live" => seen = link)
  /\ at = "chosen" /\ exit # "killed"
  /\ IF MustWait /\ ~best
     THEN DeviceFound /\ HearsResult
     ELSE UNCHANGED <<vars, result>>
  /\ script' = "over"
  /\ UNCHANGED <<args, tty, at, machine, index, bound, by, exit>>

Found == ~Simulated /\ InEngine(DeviceFound) /\ UNCHANGED ui

\* Listening times out after 10 s, the script takes 3.2 s.
TimesOut == ~Scripted /\ InEngine(TimerFires) /\ UNCHANGED ui

-----------------------------------------------------------------------------
UserKeys ==
  \/ AtScreen("disconnect") /\ (UserConfirms \/ UserSkips)
  \/ AtScreen("menu") /\ (UserKeepsListening \/ \E j \in RestartCall : UserRestarts(j))
  \/ AtScreen("confirm") /\ (Confirmed \/ Declined)

InBackground ==
  \/ Evaluated
  \/ Applied
  \/ ApplyFails
  \/ Probed
  \/ CaptureDies
  \/ \E r \in Closer : StopEnds(r) \/ RestoreEnds(r)

JsonConfirms == opt.mode = "json" /\ InEngine(Confirmed) /\ UNCHANGED ui

SessionNext ==
  \/ Launch
  \/ Enumerated
  \/ Hopeless
  \/ Fails
  \/ Choosing
  \/ Starts(RunStarts)
  \/ Starts(\E j \in RestartCall : RestartResumes(j))
  \/ Starts(UserKeys)
  \/ InEngine(InBackground) /\ UNCHANGED ui
  \/ LinkMoves
  \/ LinkHeard
  \/ Found
  \/ Announced
  \/ TimesOut
  \/ JsonConfirms
  \/ JsonCloses
  \/ JsonReturns
  \/ \E r \in Closer : Finishes(r) \/ Left(r) \/ Signalled(r) \/ Killed(r)

SessionSpec == SessionInit /\ [][SessionNext]_session

\* What is under way comes to its end, as in the engine; so do the timers of the
\* simulation, finish() and the handler of a signal.  Nobody owes a key.
SessionFairness ==
  /\ WF_session(Launch)
  /\ WF_session(Enumerated)
  /\ WF_session(Hopeless \/ Fails \/ Starts(RunStarts))
  /\ WF_session(LinkHeard)
  /\ WF_session(TimesOut)
  /\ WF_session(InEngine(Evaluated) /\ UNCHANGED ui)
  /\ WF_session(InEngine(Applied \/ ApplyFails) /\ UNCHANGED ui)
  /\ WF_session(InEngine(Probed) /\ UNCHANGED ui)
  /\ WF_session(JsonConfirms)
  /\ WF_session(JsonCloses)
  /\ WF_session(JsonReturns)
  /\ WF_session(Simulated /\ LinkMoves)
  /\ WF_session(Announced)
  /\ \A r \in Closer :
       /\ WF_session(InEngine(StopEnds(r) \/ RestoreEnds(r)) /\ UNCHANGED ui)
       /\ WF_session(Left(r) \/ Killed(r))
  /\ \A j \in RestartCall : WF_session(Starts(RestartResumes(j)))

FairSession == SessionSpec /\ SessionFairness

-----------------------------------------------------------------------------
(* Properties *)

\* The adapter that is preselected has a cable plugged in, if any adapter has:
\* no filter hides the only connected one, no address outweighs a link.
FirstIsBest ==
  at = "choosing" /\ (\E i \in DOMAIN machine : Connected(machine[i]))
    => Connected(Candidates(machine)[1].adapter)

\* Every key that the screen names reaches the code that handles it, whatever
\* else is pending.  (The exceptions are s while waiting for the link, and a
\* restart beneath the flow of a device.)
OfferedKeysWork ==
  opt.mode = "tui" /\ exit = "none" /\ ~May("restart") =>
    Offered \ When(phase = "waiting-for-link", {"s"}) \subseteq Takes[Listener] \union {"q"}

\* Listening ends, or the user is told that nothing was heard, unless the
\* program ends before.
ListeningEndsOnce ==
  ~May("restart") /\ phase = "listening" ~> (phase # "listening" \/ menu \/ exit # "none")

\* What was found is brought to a result, unless the user is being asked or the
\* program ends before.
FoundSettles ==
  ~May("restart") /\ phase = "device-found"
    ~> (phase \in {"connected", "done"} \/ flow = "prompt" \/ exit # "none")

\* Who asks to leave gets away, whatever the engine was doing, unless a restart
\* moves the phase under the shutdown, whose exception finish() does not catch.
QuitLeaves ==
  \A r \in Closer : ~May("restart") /\ by[r] \in {"key", "signal"} ~> exit # "none"

\* JSON mode ends with exit code 0 once a device was found, and with 1 after a
\* fatal error that came first and was not lost (a failed spawn is).
JsonExits ==
  opt.mode = "json" /\ ~May("quit") /\ (best \/ (fatal /\ ~May("spawn")))
    ~> exit = "ok" \/ (fatal /\ exit = "failed")

\* The simulation always finds its device, whichever keys the user presses.
SimulationFindsDevice ==
  Simulated /\ ~opt.skipReplug /\ ~May("quit") /\ at = "chosen" ~> best
=============================================================================
