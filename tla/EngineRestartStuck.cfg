SPECIFICATION FairSpec
CONSTANTS
  Sessions <- RestartingSessions
  ShutdownCall = {q1}
  RestartCall = {r1}
  MaxSources = 3
  MaxFlips = 0
  NoSource = NoSource
CHECK_DEADLOCK FALSE
PROPERTY ListeningEnds
