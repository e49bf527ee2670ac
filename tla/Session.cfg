SPECIFICATION FairSession
CONSTANTS
  Commands <- AllCommands
  Sessions <- AllSessions
  Machines <- AllMachines
  ShutdownCall = {q1, q2}
  RestartCall = {r1, r2}
  MaxSources = 3
  MaxFlips = 2
  NoSource = NoSource
CHECK_DEADLOCK FALSE
INVARIANTS CaptureOwned ListeningCaptures WaitingIsWatched ConfiguringMeansApplying StaysDown NoInvalidTransition FirstIsBest OfferedKeysWork
PROPERTIES ListeningEndsOnce FoundSettles JsonExits QuitLeaves SimulationFindsDevice
