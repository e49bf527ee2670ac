# Etherfind: a verification project

Etherfind guides a user through unplugging and replugging a network device,
listens to the Ethernet interface, infers the device's address from what it
hears, and, when the device is not reachable, adds a temporary address to the
interface, which it must take away again. This directory models that program in
TLA+, checks the models with TLC and proves theorems about them with TLAPS.

Run from this directory: `tlc -config X.cfg M` for each run of the table below,
`tlapm M.tla` for each module named `...Proofs`. Paths are
relative to `packages/core/src/` unless they start with `packages/`.

## Inventory

| Component | State it keeps | Operations | Interacts with | What makes it correct |
|---|---|---|---|---|
| Temporary address lease: `network-config/cleanup-manager.ts` | `#changes`, the journal file, the addresses on the interface | `loadJournal`, `applyTemporaryAddress`, `restore`, `#persist` | called by the engine and by `--cleanup`; calls the platform's `addAddress`/`removeAddress`, the file system | nothing it added is forgotten, nothing else is removed, a crash can be recovered from |
| Workflow engine: `engine.ts`, `discovery/state-machine.ts` | phase, packet source, link monitor, best candidate, listening timer | `run`, `confirmDisconnected`, `skipReplug`, `keepListening`, `restartWorkflow`, `shutdown`, `#afterDeviceFound` | driven by link events, frames, timers, user input, signals | it owns the capture that runs, it gets somewhere, nothing runs after a shutdown |
| Device observer: `discovery/device-observer.ts` | candidates by MAC, sources, hostnames | `observe`, `recordIp` | fed by the extractor, feeds the engine | the engine's candidate is the best the evidence gives, confidence never falls, no hostname is lost |
| Address suggestion: `reachability/local-address.ts`, `models/address.ts` | none | `evaluateReachability`, `suggestLocalAddress` | called by the engine | what is suggested is on the device's /24, is not the device's own, and hides no route of the host; what is pinged can be reached |
| Capture subprocess: `capture/subprocess-source.ts` | child process, stopping and reported flags | `start`, `stop`, child events | runs tcpdump or dumpcap, feeds the parser, tells the engine of errors | a stop is no crash, a crash is reported once, `stop()` returns, the child dies |
| Capture stream parsers: `capture/pcap/*.ts` | bytes not decoded yet, section and interfaces | `push` | fed by the child's output in arbitrary chunks | the frames do not depend on the chunks |
| Polling link monitor: `interfaces/polling-link-monitor.ts` | last state, interval, a poll under way | `start`, `poll`, `subscribe`, `dispose` | polls the interface service, informs the engine | it tells what it holds, it comes to hold what is, it leaves no timer |
| Platform configuration: `platform/linux`, `platform/windows` | the coexistence flag and the addresses of one interface | `snapshot`, `addAddress`, `removeAddress` | called by the lease; runs `ip`, `netsh` | a failing compound command leaves nothing behind |
| Front ends: `packages/cli` | the interface being chosen, the prompt, the timeout's menu, the shutdown latch of the signals | the command line, keys, signals, JSON mode, exit codes | drive the engine, rank the interfaces | a key that is offered works and reaches the engine only where it is legal, who asks to leave gets away |
| Packet decoders and extractor: `discovery/decoders`, `discovery/extractor.ts` | none | `extractObservations` and the decoders it calls | fed by the capture, feed the observer | what a device said is what is observed; a frame that is cut invents nothing |
| Interface services and filtering: `platform/*/interface-service.ts`, `interfaces/filtering.ts` | none | `enumerate`, `selectEthernetInterfaces` | read the operating system, called by the front ends | the adapter with the cable comes first |
| Simulation: `simulate.ts` | the timers of its script, its link monitor | `SimulatedPlatform`, its script | stands in for the platform under `--simulate` | its device is found |
| Ping, execution and elevation | none | `ping`, `runFile`, `UacElevator.run` | run commands for the engine and the lease | they end, and tell how |
| Emitter, documents, build and release scripts | a list of listeners | | | left out |

What is hard here: everything runs on one event loop, so races are between
continuations after an `await`, timers, child-process events and user input;
elevated commands are children that outlive their parent; the process can die
at any point; two processes may share one journal; the machine can reboot,
which removes the address and keeps the journal. `PROJECT.json` lists the
hazards at their lines with the properties that watch them.

## Modules

| Module | Models |
|---|---|
| `TemporaryLease`, `CleanupManager` | what a lease of temporary addresses promises, and the lease with its callers, the journal, the interface and what goes wrong around them, which implements it |
| `WindowsNetworkConfig` | the Windows backend's coexistence flag and elevated scripts, under the lease's apply and restore |
| `DiscoveryStateMachine`, `DiscoveryEngine` | the phases, and the engine |
| `InterfaceSelection` | what the platforms say of an adapter, the filter and the ranking |
| `EtherfindSession` | the whole program: command line, choice of the interface, terminal UI, JSON mode, signals and simulation around `DiscoveryEngine` |
| `LinkWatch`, `LinkMonitor` | what the engine may expect of a link monitor, and the polling one, which implements it |
| `CaptureStream`, `PacketCapture` | the stream parsers, and the capture process they decode |
| `FrameDecoders`, `FrameReception` | the decoders, and what they make of the frames that devices send |
| `LocalAddress`, `DeviceObserver` | the address arithmetic, and the observer with the engine's use of its candidate |
| `MC...` | instances for TLC: the command lines, frames, streams and addresses of the runs |
| `CleanupManagerProofs`, `WindowsNetworkConfigProofs`, `EtherfindSessionProofs`, `LinkMonitorProofs`, `PacketCaptureProofs`, `FrameReceptionProofs`, `DeviceObserverProofs` | theorems; those about the engine are in `EtherfindSessionProofs` |
| `Recursion` | least elements, induction and functions defined by recursion, for those proofs |

A definition marked `Mutant` is a plausible bug. It stands before the
definition that it would replace, and no specification uses it.

A step runs from one wait to the next. In the lease, the monitor and the
capture every `await` is such a wait. The engine has many more, and a step of
its model ends only where it waits for something outside the microtask queue: a
child process, a command, a timer, the user. Between two microtasks no event
can be handled, so nothing is lost.

`EtherfindSession` composes the engine, the front ends, the choice of the
interface and the simulation: it extends `DiscoveryEngine` and
`InterfaceSelection`, its variables are those of the engine and its own, and
each of its steps is one of the engine's under the front end's condition for it,
or leaves the engine alone.

The rest is not composed: the product would be out of reach. Instead each model
that uses another states what it takes from it. `DiscoveryEngine` has a monitor
that reports any state other than the last one it saw, as `LinkWatch` has it,
with a restarted monitor that keeps what it held; `LinkMonitor` is shown to
implement that port. It has captures whose `stop()` returns and that may die
(`StopEnds`), and a lease that is a Boolean (`hasChanges`). The observations of
`DeviceObserver` are those of `FrameReception`, an address and a source at a
time. `CleanupManager` has an engine that may start an apply when none is under
way, and a shutdown at any moment or only at the end, and commands that succeed
or fail as a whole. `WindowsNetworkConfig` opens those commands up and has a
journal that is never lost (`RecordedOnDisk`) and sessions one after the other.

## Runs

| Run | Module | Properties | Instance | What it shows |
|---|---|---|---|---|
| `CleanupFaults` | `MCCleanupManager` | `Tracked` | 2 sessions, 1 shutdown call, 2 changes, 1 address; signals, crashes, torn and refused writes, failing removals, two instances, the user | a live process knows each of its addresses on the interface |
| `CleanupCrash` | `MCCleanupManager` | `RecordedOnDisk` `JournalMatchesMemory` `NothingLeftAfterExit` `RecoveredNothingLeft`; `ImplementsLease` | 3 sessions one after the other, 2 addresses; crashes, reboots, drops, failing commands | the journal names every address; an orderly exit and a recovery leave nothing; the abstract lease is implemented |
| `CleanupShutdown` | `MCCleanupManager` | `ShutdownCompletes` | 2 sessions, 2 changes, fairness; failing removals, crashes, reboots, drops, signals | a shutdown ends, whatever fails in it |
| `CleanupSignal` | `MCCleanupManager` | `NothingLeftAfterExit` violated | a signal during an apply | finding: the address stays after an orderly exit |
| `Windows` | `MCWindowsNetworkConfig` | `UserEnabledKept` `LeasedWithFlag` `LeftoversOnRecord` | 2 sessions, 2 addresses, 3 leases; failing commands, declined elevations, an unreadable flag, crashes, reboots | the coexistence flag stays the user's, what is on the interface is on record |
| `Session` | `MCEtherfindSession` | `CaptureOwned` `ListeningCaptures` `WaitingIsWatched` `ConfiguringMeansApplying` `StaysDown` `NoInvalidTransition` `FirstIsBest` `OfferedKeysWork`; `ListeningEndsOnce` `FoundSettles` `JsonExits` `QuitLeaves` `SimulationFindsDevice` | 11 ways to start and use the program and 8 command lines it refuses, up to 2 adapters, 3 captures, 2 shutdowns and 2 restarts, 2 changes of the link, fairness | the program from its command line to its exit code, under keys, signals, failures, restarts and the simulation |
| `EngineRestartStuck` | `MCDiscoveryEngine` | `ListeningEnds` violated | a restart whose capture hears the device | finding: it listens for ever |
| `LinkMonitor` | `LinkMonitor` | `IntervalsAccounted` `ToldWhatItHolds`; `ImplementsPort` | 2 overlapping reads, 2 changes, 1 failed read, 2 disposals, fairness | the monitor implements the engine's port, liveness included, and what it may leave behind |
| `Capture` | `MCPacketCapture` | `FramesInOrder` `ErrorOnce`; `StoppedQuietly` `StopEnds` `EndReported` | 7 streams, cut after 1 or 11 bytes or wherever the program paused, 2 calls of `stop()` | chunks do not matter, each end is reported once, a stop is quiet |
| `Decoders` | `MCFrameReception` | `DecodesWhatWasSent` `CutFramesInventNothing` | every frame of a device, a proxy and a DHCP server, whole and cut at every cell, names uncompressed, 2 records | what was sent is observed, a cut frame invents nothing |
| `DecodersNames` | `MCFrameReception` | `NamesAsSent` violated | names compressed | finding: another name is read than was sent |
| `Observer` | `MCDeviceObserver` | `CandidateIsCurrent` `HostnameKept` `SuggestionUsable` `PingReaches`; `NeverDemoted` | 2 devices and the host, 4 addresses, 2 names, 3 observations; 3 hosts of 2 adapters, enumerated again or in vain | the candidate agrees with the evidence, the suggested address and the ping with what was enumerated |

`CHECK_DEADLOCK FALSE` stands where the system really stops: the processes of
the lease and of its Windows backend end, a session ends, the child has gone, no
further observation is made. `LinkMonitor` never stops, nor do frames, and these
runs are checked for deadlock.

## The temporary address lease

- `os[a]` is the interface: who put address `a` there (a change, or `Foreign`).
- `file` is the journal: missing, torn (unreadable), or a saved set of changes.
- `mem[s]` is `#changes` of process `s`. A change has a serial number for its
  random `changeId`; the order of the array is the order of the numbers.
- `applyPc`, `applying` are the one `applyTemporaryAddress` in flight.
  `AddLands` is the elevated child: it needs no living parent.
- `call[s][r]` is one restore in flight: the startup restore of leftovers or a
  shutdown's. `NextRemoval` takes the next element of the reversed copy,
  `RemoveLands`/`RemoveFails` are the command, `Forget` filters `#changes` and
  starts the journal write, `KeepJournal`/`BeginDelete`/`DeleteJournal` end it.
- `writer[s][j]` is a journal write in flight: `fs.writeFile` truncates, then
  writes; `WriteFails` is swallowed, as in the code.

`TemporaryLease` is the lease without its machinery: the loans that are in
effect (`lent`), those on record, and the session that may lend (`open`). It
promises that only free addresses are lent, that of each session at most one
loan is off the record, that a loan is struck off the record only when it is
over, and that a session opens with a clean record. `ImplementsLease` reads it
off the manager: `lent` is what Etherfind has on the interface (`Lent`), the
record is the journal, or what the write under way is about to put there
(`OnRecord`), and `open` is a process past its recovery and before its shutdown
(`Lender`). The promise takes a journal that can be written and one process at a
time, as in `CleanupCrash`.

`Faults` names what may go wrong in a run, so that each run asks one question.
`AbsentRemoveFails` is the difference between the platforms: the Linux backend
takes removing an absent address for a success, the Windows backend does not
(when the coexistence flag was not ours to reset). Where any removal may
fail (`"remove"`), as in the three passing runs, the instance in which an absent
address may also be removed has the behaviours of both platforms. That a
recovery succeeds is no property here: it does unless a removal fails, which on
Windows it always does after a reboot (see the disagreements).

Bounds: `Session` (each process is started once), `Addr` (the addresses a
suggestion may name), `ShutdownCall` (concurrent shutdowns), `MaxChanges`
(applies over all sessions). Two changes suffice for the reversed loop, for a
change pushed during a restore and for two owners of one journal; three sessions
for a crash, a recovery that crashes and another one. `CleanupCrash` uses the
symmetry of sessions and of addresses, which its invariants do not tell apart.

Fairness, for `ShutdownCompletes`: the event loop runs what is ready,
file operations and spawned commands end. Nobody owes a start, an apply, a
shutdown or a fault.

## The Windows backend

A temporary address beside DHCP needs the interface's coexistence flag, which is
the user's. `AddAddress` reads the flag (`CoexistenceRead`: its value, or
"unknown"), decides whether it will be Etherfind's (`EnabledByUs`) and starts
one elevated script (`AddCommands`). The script is `script[s]`: `CommandSucceeds`
and `CommandFails` run its commands one by one, whether or not the one before
succeeded and whether or not the process that asked still lives; `Declined` is
the answer to the prompt. What `addAddress` and `removeAddress` see is the exit
code, that of the last command, and for an add whether stderr complains.
`flag` and `user` are the flag as it is and as the user last set it, `journal`
the recorded leases, `todo[s]` the rest of the reversed copy in a restore.

`mishaps` is a history variable: each property names the mishaps that it does
not survive in the code. `UserEnabledKept` has none. A failed command can leave
the flag on or the address there without a record (see the disagreements), so
`LeftoversOnRecord` excepts it, along with a process that dies inside an add and,
for the flag, one that could not be read; `LeasedWithFlag` is about the order of removals, and excepts
a removal that was declined, after which the loop goes on.

Bounds: two leases are what the order of removals takes, a third lets the second
session apply after a recovery. `UserSets` is confined to times at which nothing
is recorded or running: a user who changes the flag during a lease has it
switched off at its end, as with any setting that is saved and restored.

## The workflow engine

`DiscoveryStateMachine` has each method as a function from the phases it accepts
to the phase it leads to; outside its domain the method throws.

`opt` is how a session was started: front end, `--skip-replug`, `--listen`,
`--no-configure`, the services that exist, and which inputs its user and its
surroundings make. `run` is what `run()` and its caller know, `src` the captures
started so far with `current` the one in `#packetSource`, `monitor` and `seen`
the link watch, `timer` and `menu` the listening timeout and the terminal UI's
answer to it, `flow` the place of the `#afterDeviceFound` in flight, `temp`
whether the lease holds something, and `job` each call of `shutdown` or
`restartWorkflow`, which waits for a capture to stop and goes on with the phase
it finds. `Key` and `MenuKey` are the conditions of `App.tsx`.

What the properties leave out on purpose, since the code does not promise it or
breaks it: `CaptureOwned` a session with both a restart and a quit, `StaysDown` a restart or a quit before `run()` has started,
`NoInvalidTransition` a session that ends in the middle of a flow. These are
behaviours of the model, found by TLC; see below.

`MCDiscoveryEngine` has the engine alone, for the finding; its properties are
checked in the run `Session`.

## The program around the engine

`args` is the command line after `parseArgs`, in which `-i` takes whatever
follows it; `at` is how far `main()` and the choice of the interface are:
`launch`, `enumerating`, `choosing`, then `chosen` (the engine runs), `hopeless`
(no interface to use, `run()` is about to throw) or `over` (`main()` returned
before there was an engine). `OptionsOf` builds the engine's options from the
command line.

`Listener` is the part of the key handler that takes the next key, by its early
returns, and `Offered` the keys that the screen names: two readings of the same
state by two parts of `App.tsx`, which `OfferedKeysWork` compares. `bound` is
the `selectIndex` that the handler closes over, `index` the one that is set.

`Finishes` is `finish()`: every Enter on a result and every `q` starts another
shutdown, and `Left` is the end of its 900 ms. `Signalled` and `Killed` are the
signal handler, `JsonCloses` and `JsonReturns` the two ends of `runJsonMode`. A
call of `finish()` or of the handler is known by the shutdown it waits for
(`by`).

`script` is the simulation's chain of timers: started by a monitor, it unplugs,
plugs in and announces the device, if a capture then runs to hear it. Its delays
count: the script takes 3.2 s, listening times out after 10 s, so `TimesOut`
waits for it. Its monitor reports changes and never the state it starts with.

`InterfaceSelection` has an adapter as each platform describes it, with names
and descriptions by the pattern they match first. `FirstIsBest` relates the
ranking to what an adapter is, not to how `describe` or `toInfo` classified it.

Bounds: `MaxSources` captures suffice for the first, the one after a restart,
and one more; two shutdown calls for one that overlaps another; two changes of
the link for a full unplug and replug. A third restart would begin from the same
states. A command is the least that combines with the others' inputs: quits with
failures, restarts alone, each front end. `AllMachines` are no adapter, a
connected one, and beside it, before or after, any that has an address: a wrong
order shows in two.

Fairness: startup, enumeration, polls, timers, commands, pings, and children
that were told to stop come to an end, and so do `finish()`, the signal handler
and the timers of the simulation. JSON mode confirms by itself and shuts down when
`run()` has ended. Nobody owes a device, a failure, a signal or a key:
`ListeningEndsOnce` counts the question that the timeout asks as an answer,
`FoundSettles` the prompt. Every liveness property leaves out sessions with
restarts (see `EngineRestartStuck` and below), except that of the simulation,
which has them.

## The link monitor

`reads[r]` is one read of the link state: who waits for it and what it found.
A read sees the link when it begins and is answered later, so answers may be
older than what is held. `for = "disposed"` is the first poll of a `start()`
that a `dispose()` has overtaken: `start()` notices nothing and goes on to set an
interval. `intervals` are the timers that run, `timer` the one that is held.

`IntervalsAccounted` bounds the timers by those that such disposals leave
behind, `ToldWhatItHolds` is what a restarted monitor relies on: it keeps its
state and has lost its listener, and must not withhold a change that the
listener has not heard.

`LinkWatch` is the port: whoever watches is told of changes only, of no state
the link never had, and in the end of the one it has, if the link settles.
`ImplementsPort` says that `LinkMonitor` implements it, with `state` for what is
held, `heard` for what was told, and the states the link has had, which the
monitor need not remember, computed from the flips (`Had`). That covers late answers: a
read that a disposal or another read has overtaken may still tell an old state,
but not for ever.

Bounds: `MaxDisposals` = 2 leaves at most two timers behind, so three
`Interval`s are enough never to delay an answer; two `Read`s overlap, and a poll
beyond them waits. Fairness: timers fire, reads are answered (`runFile` gives
each command 15 s, `platform/exec.ts:10`).

## The capture

A stream is a sequence of blocks with their real sizes; of their bytes only what
decides the parser's way is kept: kind, byte order, link type, interface,
whether the captured length stays within the block. `Push` is `push()` with its
loop, for both formats: it appends a chunk and consumes whatever is complete.
The frames are held against `PacketsWithin`, the packets whose last byte has
been received, and `IsEthernet`, the link type of the interface in their own
section. Where a packet claims more than its block has, or a section has the
other byte order, the parser stops (see below): `Understood` says of which
streams every packet is owed.

`MCPacketCapture` has seven streams: pcapng with two interfaces and a second
section, packets before any description and unknown blocks, a packet that leaves
its block, a section in the other order, classic streams of both orders, and
something that is no capture. `Chunk` = {1, 11} with the whole of what is in the
pipe reaches every remainder a header or a block can be cut at: 1 alone would
do, 11 saves steps where it does not matter.

`PacketCapture` separates the child's end (`code`) from the end of its output
(`Close`), as Node does. `StopCalled` is `stop()` up to its `await`; a stop waits
for `close` or for its two seconds, after which it kills and returns.

Fairness: events arrive and timers fire. The child owes nothing: it may ignore
SIGTERM, and need not write or end. The fairness of `Data` is stated of its
sub-action `Read`, which is enabled exactly when `Data` is.

## The decoders

A frame is a sequence of cells, each a field or a header that is only read as a
whole; a pointer in a name counts cells. Of a cell that is cut a part is left,
which has the kind "partial"; the code of an option comes first and can be read
from its part. A header that is decoded is the only element of a sequence, which
is empty where the code has `undefined`.

`FrameReception` has the senders, written after the standards (`Encode`), the
network, which delivers a frame whole or cut in front of or inside any cell, and
`Meaning`, what the sender said. `WellFormed` is what the standards ask of a
frame: an option is told once, apart from padding, and none behind the end; the
address that a client asks for, renews or is given is one; IPv6 addresses have eight
groups. The constant `Frame` is any set of such frames. `extractObservations`
decodes what arrives. `DecodesWhatWasSent` is the round trip,
`CutFramesInventNothing` the comparison with what a cut frame could still say. A
captured frame is cut where a snapshot length or the first fragment of a
datagram ends it.

The loops of the code are recursive functions whose step is one iteration
(`OptionStep`, `NameStep`, `QuestionStep`, `AnswerStep`). The number of steps is
bounded by the cells there are: `parseDnsName` has one more than it could need
without returning to a cell, so that a walk that is still "reading" at the end
never ends. What the extractor yields then is `Endless`, which is no observation,
so that a decoder in an endless loop breaks each of the properties. Reading beyond the end yields what the code makes of `undefined`
bytes, zeros.

Bounds: two VLAN tags are skipped, so frames have up to three; DHCP options come
in any order with a pad anywhere; up to two questions and two records, three in
all, are enough for any record to come before any other, and each kind is read
by itself. The theorems need none of these bounds.

## The observer and the address

`DeviceObserver` has the observer's maps, the engine's listener (`OnFound`,
`OnUpdated`), the evaluation of the candidate's address and the ping, which
reads the candidate's address again. `evidence[m][i]` are the sources for a
pair; `macs[m]` the hostnames in the order they came; `pending` is
`#hostnameByMac`, which outlives them.

The engine knows the host's addresses in two ways, and so does the model. The
observer is given the MAC and the addresses of the selected adapter, once
(`hostIps`, `SelectedIps`). The evaluation enumerates all adapters anew, and
takes a failure for no addresses (`enumerated`): `Enumerations` are the addresses
of any host in `Hosts`, whichever it was at the selection, or none.
`SuggestionUsable` and `PingReaches` are about `enumerated`. Of `hostIps` the
observer makes no more than a guard of IPv4 and mDNS observations: the host's
address from an ARP message of another MAC, or the traffic of an adapter that is
not listened on, makes a candidate. That is in the models, and no property denies
it (see the disagreements).

`SuggestionUsable` is about the device evaluated and the host. The addresses that
other devices were observed to have are not looked at by the code, and one of
them may be what is suggested. `HostnameKept` has the name that came last among
those kept, in whatever order names and addresses come, and the candidate's name
the first of them: the engine shows that one, and is not told of another
(`device-observer.ts:90`, 160-163).

Addresses are numbers within one /8, with the arithmetic of `models/address.ts`.
The three hosts are one with half of the device's subnet, one with a subnet that
holds everything, among it an address that is observed, and one with addresses
elsewhere on both adapters. `MaxObservations` = 3 is enough for one pair with
every order of three sources, or of two names and an address, and for a second
address or a second device beside a pair that has improved; of the ARP kinds one
is enough, since they differ in confidence only. Devices are interchangeable,
and names, so the run uses that symmetry (it has no liveness). The observer is
the one of one listening: a restart makes a new one, which is not modelled.

`suggestLocalAddress` is called only for a device that no /24 of the host
covers, so that its check of used addresses rejects nothing but the device's own
address, and "No free address" is never thrown.

## What is proved

`CleanupManagerProofs`, for every number of processes, addresses, changes and
shutdown calls, and every set of faults:

- `TypeCorrect`: `Spec => []TypeOK` (as in the other modules, where this is
  proved no run spends itself on it);
- `AlwaysTracked`: `Spec => []Tracked`. `Tracked` is not inductive: a removal by
  any process could take an address away from the memory of its owner, unless a
  change is removed from memory only when it is off the interface. `IInv` adds
  what the argument needs: change numbers are fresh and unique (`Numbered`), a
  change being applied is recorded nowhere before it has landed (`Unrecorded`),
  an address on the interface is filed under its own name (`InPlace`), what a
  restore is about to forget is gone from the interface (`Gone`), and a process
  that has not started has no apply under way (`Unstarted`);
- `NothingEverLeftAfterExit`: `Spec => []NothingLeftAfterExit` if shutdown begins
  by itself (`Unsignalled`; with a signal it is false, see `CleanupSignal`).
  `Turns` says in which stage of a process its apply and each of its restores
  may be, and that no more than one restore of a shutdown works; `Covers` that what is
  in memory is ahead of the restore that is under way, or a removal has failed;
- `AlwaysRecordedOnDisk`, `JournalAlwaysMatches`, `RecoveryLeavesNothing`:
  `RecordedOnDisk`, `JournalMatchesMemory` and `RecoveredNothingLeft` hold if
  journal writes are neither torn nor refused and one process runs at a time, to
  its own end or a crash (`Orderly`; each of these faults refutes them). Their
  common invariant, `JInv`, says who knows of an address: whoever works, in
  memory; when nobody does, the journal (`Known`); that nobody dead has left
  anything once the leftovers are restored (`Cleared`); and, at each stage of a
  write, what the journal holds compared with memory (`Journaled`);
- `ImplementsTheLease`: `Spec => ImplementsLease` under the same conditions. Each
  action of the manager is matched with the step of `TemporaryLease` that it
  takes, or with none. An address is lent when the command lands, perhaps of a
  process that has died; a journal write notes or strikes off a loan when it
  truncates the file, and is no step when it completes. That a write drops no
  other loan is what `JInv` is for.

`WindowsNetworkConfigProofs`, for any sessions, addresses, leases and faults:

- `TypeCorrect`: `Spec => []TypeOK`;
- `UserEnabledAlwaysKept`: `Spec => []UserEnabledKept`. It is not inductive: a
  switch-off may wait in a record, in the restore loop, in an operation or in a
  script that has outlived its process. `ClaimsJust` says that in each of these
  places a claim on the flag means that the user has it disabled;
  `LoopRecorded` and `OneAtATime` that the loop holds nothing but records, so
  that the user's next decision finds no claim left;
- `LeftoversAlwaysOnRecord`: `Spec => []LeftoversOnRecord`. `OnRecord`, under the
  property's own condition (`Unfailed`), adds that each script does what the
  operation that waits for it needs, and what it has left to do: an address is
  there, or a flag on, only once a record or an add stands for it;
- `AlwaysLeasedWithFlag`: `Spec => []LeasedWithFlag`. `InOrder`, under its
  condition (`Smooth`), says that only the oldest record claims the flag, that
  the newest is removed first, and that an add switches the flag on before it
  adds the address.

`LinkMonitorProofs`, for every number of reads, flips, failures and disposals:

- `TypeCorrect`: `Spec => []TypeOK`;
- `ToldAlways`: `Spec => []ToldWhatItHolds`, which is inductive;
- `IntervalsAlwaysAccounted`: `Spec => []IntervalsAccounted`. `Accounts`
  strengthens it: the intervals and the disposed first polls still to be
  answered together stay within what is owed; a monitor whose first poll is
  answered holds a timer that runs, so that a disposal clears one; there is at
  most one first poll, and only while polling;
- `ImplementsPortSafely`: `Spec => Port!Spec`, the safety half of the
  refinement. Its invariant (`FoundHad`) is that whatever a read has found is a state
  the link has had.

`EtherfindSessionProofs`, of the engine by itself, for every set of sessions and
any number of captures, link changes and calls:

- `TypeCorrect`: `Spec => []TypeOK`. `MethodTypes` and `FlowMethodTypes` say
  where each method of the state machine leads; the lemmas after them what the
  shared parts of the actions do (`TeardownType`, `EnterListeningType`,
  `VerifyType`...), and each group of actions follows from those;
- `WaitingAlwaysWatched`: `Spec => []WaitingIsWatched`, inductive over types: a
  step that leads to a waiting phase makes the monitor live, and the only step
  that disposes of it leads to a phase that is over;
- `ConfiguringAlwaysApplying`: `Spec => []ConfiguringMeansApplying`. Added to it
  is that a flow has a device (`FlowHasDevice`), so that no second discovery
  begins a flow during an apply.

Also of the engine, over one invariant, `Owned`: a running
capture is the current one, a capture that is being stopped is alone and is
stopped once, nobody waits for the link while a capture runs or under a menu,
and the menu that offers a restart is not there twice. It is inductive for
sessions without both a restart and a quit (`Apart`); with both it is false, see
below.

- `CaptureAlwaysOwned`: `Spec => []CaptureOwned`, since a discovery, a replug
  and a key find no capture running, whatever they overlap;
- `ListeningAlwaysCaptures`: `Spec => []ListeningCaptures`, from types alone: the
  steps that end a capture lead out of "listening" or wait for its stop;
- `NeverInvalidTransition`: `Spec => []NoInvalidTransition`. `Lawful` says which
  phase each place of the flow waits in, that a shutdown comes after the end,
  and which phases have a capture; `Undisturbed`, the property's own condition,
  is what makes it inductive;
- `AlwaysStaysDown`: `Spec => []StaysDown`. `Final` says that once a shutdown is
  past its `stopCapture` nothing runs and no waiting phase, from which something
  could be started, is left.

Of the program around it, for every set of command lines and adapters:

- `SessionIsEngine`: `SessionSpec => Spec`. Whatever the front ends, the signals
  and the simulation do is a step of the engine or leaves it alone, so that each
  theorem about the engine holds of the program;
- `SessionWatched`: `SessionSpec => []WaitingIsWatched`, which is one of them;
- `SessionKeysWork`: `SessionSpec => []OfferedKeysWork`. What the screen shows
  and what the keys reach are computed from the same variables in different
  orders; they agree because the interface is chosen before the engine begins
  (`ChoosesFirst`), a waiting phase has no device and a result only an ended flow
  (`Forward`), and `Owned`;
- `FirstAlwaysBest`: `SessionSpec => []FirstIsBest`, for lists of adapters of any
  length. An adapter has a cable exactly if it scores 8 or more
  (`ScoreOfConnected`, by cases over what each platform may report), and the one
  that none comes before scores most (`FirstScoresBest`, from least elements).

`PacketCaptureProofs`, for every stream of either format, however long, every cut
of it into chunks, and any number of `stop()` calls:

- `TypeCorrect`: `Spec => []TypeOK`, which includes that the parser's buffer holds
  exactly the bytes that were read and not consumed, so that no byte is parsed
  twice or skipped;
- `FramesAlwaysInOrder`: `Spec => []FramesInOrder`. `Content` says what the parser
  holds after its first n bytes: the interfaces of the section it is in, one
  frame for each packet before the next block. `PassContent` shows that
  consuming a block keeps this true, `PushContent` that the loop of a `push()`
  does, by induction over the blocks (`Recursion`), and that it stops only in
  front of a block that is not whole, if the parser understands the stream
  (`Stalled`). What the frames are compared with is declarative: the packets whose last byte has arrived (`PacketsWithin`) with
  the link type of the last description before them in their section
  (`IsEthernet`);
- `ErrorAtMostOnce`: `Spec => []ErrorOnce`, since what was told is remembered
  (`ToldOnce`);
- `StopIsQuiet`: `Spec => StoppedQuietly`, an action property. `Remembered` is
  the invariant behind it: until the child's end is handled, `#stopping` is set
  if a stop was asked for, except by one that came too late or gave up.

`FrameReceptionProofs`, for every set of well-formed frames: any number of tags
and header options, any number of DHCP options, questions and records in any
order, names of any length without pointers, cut anywhere:

- `DecodesWhatWasSentHolds`: `Spec => []DecodesWhatWasSent`;
- `CutFramesInventNothingHolds`: `Spec => []CutFramesInventNothing`.

Both follow from `FrameShown`, of what is observed of a frame of which n cells
came; where n is all of them, that is everything its sender said. The argument
goes from the inside out. `Stands` says that the senders' encoding of something
begins at a cell, `Shows` that a buffer has the first n cells and at most a
part of the next. A lemma for each part of a message says what its decoder makes
of it: a name (`ParseShown`, by induction over its labels), a question and a
record (`QuestionRead`, `AnswerRead`), an mDNS message (`MdnsShown`, by induction
over questions and records: what has been found after k records is what a
responder says with those, `Found`), the DHCP options (`OptionsShown`, by
induction over the steps: what is kept after k options is what they tell, `Kept`),
a message (`DhcpShown`), the headers (`EthernetShown`, `Ip4Shown`, `UdpShown`,
`ArpShown`, `NdpShown`) and a packet (`PacketShown`). Two lemmas leave cells aside:
`KeptTold` and `HostFound` say that the loops' last or first find is the one the
sender means. `Expansion` shows that `compressIpv6` loses nothing: whichever run
of zeros is longest, the "::" expands to it. `FlattenStands`, that of a
concatenation each part stands behind the parts before it, is proved once for
all lists of parts; the recursive functions of the decoders are taken apart by
`NameWalk`, `MdnsWalk` and `OptionWalk`, which rest on `Recursion`.
`IInv` adds only that what has been seen belongs to a frame that was sent.

`DeviceObserverProofs`, for any machines, addresses, hosts and observations:

- `CandidateAlwaysCurrent`: `Spec => []CandidateIsCurrent`, by `StepLearns`:
  every step leaves evidence and candidate alone or `Learns` of one pair;
- `NeverToldWorse`: `Spec => NeverDemoted`, an action property. Behind it is that
  what was told last of a pair is the best of its evidence (`ToldBest`), which
  only grows;
- `HostnameAlwaysKept`: `Spec => []HostnameKept`. A name that comes first waits for
  the first address, and one that comes later joins the list behind it, so that
  the first of the list, which the candidate carries, never changes;
- `SuggestionAlwaysUsable`: `Spec => []SuggestionUsable`, for every device address
  and whatever is enumerated. Masking is arithmetic with powers of two:
  a subnet begins at a multiple of its size, and two addresses of one /24 agree
  on every larger subnet. So the /24 of a device that no host address covers
  has no address in use but the device's own and the first and last, and of the
  preferred suffixes at most one is taken;
- `PingAlwaysReaches`: `Spec => []PingReaches`. `OfCandidate` says that what is
  evaluated and pinged are addresses known of the candidate's machine, so that
  they agree if it has only one;
- `TypeCorrect`: `Spec => []TypeOK`, which includes that the candidate has not the
  selected adapter's MAC (`NoHostMac`).

`Recursion` states induction over the naturals and the existence of recursive
functions for sets and functions, in the place of the library's theorems about
operators, which the installed provers cannot instantiate. It rests on the
library's theorem that `<` is well-founded on the naturals.

The theorems rest on the named assumptions that the modules make about their
constants, which TLC evaluates in every run.

Only model-checked: liveness under fairness, which is out of the prover's reach
(`ShutdownCompletes`, the session's `ListeningEndsOnce`, `FoundSettles`,
`JsonExits`, `QuitLeaves` and `SimulationFindsDevice`, the capture's `StopEnds`
and `EndReported`, and the `Reports` half of `ImplementsPort`). Names with
pointers have no theorem, as their round trip is false (`DecodersNames`).

## Disagreements with the documents

The three runs that expect a violation each show one; `PROJECT.json` quotes the
lines. The models have more behaviours that a team should know of. They have no
run of their own:

- A refused journal write is swallowed (`network-config/cleanup-manager.ts:151`),
  although an apply promises a recorded change (94-95); a crash then leaves an
  address that no journal names. So does a crash between `addAddress` and
  `#persist` (104), or between the truncation of the journal and its write (59).
- On Windows, removing a recorded address that a reboot has removed fails
  (`platform/windows/network-config.ts:174`, when the flag was not ours to reset),
  and so does every later start, with nothing on the interface to remove, although
  the plan has it that `store=active` "self-heals on reboot" (`PLAN.md`, 93).
- The elevated scripts do not stop at a failed command. When the address cannot
  be added, `addAddress` throws with the coexistence flag already on, and no
  record says so (`platform/windows/network-config.ts:119`). When the address
  cannot be deleted and the flag is then switched off, `removeAddress` sees a
  good exit code and the lease is forgotten (174). When one of several removals
  fails or is declined, an earlier lease's removal still switches the flag off.
- After a reboot the journal still names the address, and the recovery removes
  it even if the user has configured it meanwhile (`cleanup-manager.ts:125`; the
  repository's README, 137-138: "only Etherfind-created changes are removed").
- A second Etherfind takes the first one's live change for a leftover
  (`engine.ts:172`).
- A second Ctrl+C in the terminal UI starts a second restore
  (`packages/cli/src/tui/App.tsx:229`; `signals.ts:24` ignores it).
- `restartWorkflow` does not restore the configuration (`engine.ts:207`; the
  README's "Cleanup" step promises it for the end of the session), and
  `#configActive` survives a cleanup (`discovery/state-machine.ts:192`).
- A restart that waits for its capture when the user quits resumes after the
  shutdown and starts a monitor that nobody disposes of (`engine.ts:211`). It may
  also move the phase under the shutdown, which then throws; `finish()` does not
  catch that, and the terminal UI never exits (`App.tsx`).
- While the flow of a device asks for confirmation and a restart leads back to
  the unplugging, the keys of that screen go to the prompt (`App.tsx:244`).
- The key `s` is offered while waiting for the link, where it does nothing
  (`App.tsx:354`; it is handled at 256-260).
- "Network configuration restored" is shown although removals failed
  (`App.tsx:485-489`), and the terminal UI exits with 0 whatever happened.
- The key handler closes over `selectIndex` (`App.tsx:239`): an Enter that
  follows an arrow before the next rendering chooses the row before it.
- `--all-interfaces` is parsed and documented (`packages/cli/src/cli.ts:61-63`, 95)
  and never used. `-i --json` takes the flag for the name of an interface.
- A wireless Linux adapter whose name says nothing is of kind "other" and is
  offered; a wired one that is named like a wireless one is of kind "ethernet".
- `--simulate --listen` starts no monitor, so no script, and finds nothing.
- `confirmDisconnected` and a link event subscribe twice to one monitor
  (`engine.ts:232`).
- Without a platform link monitor the fallback never reports a change
  (`engine.ts:253-259`). The command line has none such; only a program that
  embeds the engine may.
- mDNS names of services, the owners of PTR and SRV records, are reported as
  hostnames when there is no A record (`discovery/decoders/mdns.ts:87-88`,
  `discovery/extractor.ts:100`).
- Of a DHCP host name option of which only the code byte arrived, the length
  counts as zero, and the host name is empty (`discovery/decoders/dhcp.ts:61-67`);
  the observer takes it for none (`discovery/device-observer.ts:160`).
- A spawn that throws reports its error before `run()` has subscribed to the
  outcome (`engine.ts:180`): `run()` does not resolve, and JSON mode prints no
  result. A quit before that point
  is overtaken by `run()` (178).
- A quit during an apply or a ping lets the flow throw an invalid transition
  that nobody awaits (`engine.ts:408`).
- Quit, then `r` or `s` before the capture has stopped, loses the new capture
  (`engine.ts:453`).
- A `dispose()` during the first poll leaves an interval that keeps the process
  alive (`interfaces/polling-link-monitor.ts:49`).
- When `stop()` times out, the end of the killed child is reported as a crash
  (`capture/subprocess-source.ts:277`). Frames that arrive after such a stop are
  not in the engine's model.
- The length of a pcapng block is read in the current byte order before a section
  header may change it (`capture/pcap/pcapng-parser.ts:77`): a section in the
  other order, even a first big-endian one, stalls the parser, although
  `pcapng-parser.ts:16-17` speaks of "multiple sections/endian changes".
- A packet block whose captured length leaves the block is never consumed: the
  pcapng parser delivers nothing after it (`capture/pcap/pcapng-parser.ts:103`).
- ARP and DHCP observations are not compared with the host's addresses
  (`discovery/device-observer.ts:138-167`), other kinds are (153, 176), although
  "the identity of the host is excluded throughout" (47).
- The observer is told of the selected adapter only, as it was at its selection
  (`engine.ts:268-271`): another adapter of the host that is heard on the wire,
  or an address that the selected one has got since, becomes a device.
- The suggested address may be one that another device was observed to have
  (`reachability/local-address.ts:73-76` looks at the host and the device).
- A host name that is heard after the address is kept, and announced only if
  its message is a new source for the pair; one that comes after another name is
  never shown (`discovery/device-observer.ts:90`,
  160-163).
- A name with a pointer that leads back to itself, which is counted from the
  start of the frame, would keep `parseDnsName` in its loop for ever:
  `depth` is checked and never raised (`discovery/decoders/mdns.ts:18`, 29-34). In
  the model such a decoder yields `Endless`; `DecodersNames` shows the wrong name
  and comes to no such frame.
- A host subnet longer than /24 counts as a /24 (`reachability/local-address.ts:47`),
  so that a device outside it is taken for reachable.
- A device with several addresses may be pinged at another one than was
  configured for (`engine.ts:388`).

## Not modelled

- Of the decoders: the arithmetic of bytes within a field, fragments other than
  the first, records whose length does not fit their type. Captures set no
  snapshot length, so that cut frames are the exception.
- Of the interface services: the commands and files they read, and the patterns
  of names, of which the first that matches is kept.
- Ping's command and output, quoting, redirection and time limits: how a command
  ends is an input.
- Of the engine: an embedding without a ping or a link monitor.
- Of JSON mode: what it prints; a `shutdown()` that throws there, which takes a
  restart that JSON mode does not have.
- The emitter, rendering, clipboard, browser, the fakes of the tests, build and
  release scripts: they have no state, or none of the program's.

SIGINT to the process group also reaches tcpdump; the engine's model has it as a
capture that dies around a quit. `registerSignalHooks` and the state machine's
`fail` have no caller.

## Plan

Done, in this order: the lease, the engine, the ports around it (link monitor,
capture, observer), the Windows backend, the program around the engine, the
decoders, the link port and the lease with their refinements, and the theorems
above, down to the round trip of the decoders. Every invariant that a passing
run checks is proved. What could follow is a round trip for names with
pointers, once `parseDnsName` counts them from the start of the message and
bounds its loop, and the captures and the lease as abstract parts of the engine's
model in place of a Boolean.
