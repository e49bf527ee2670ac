SPECIFICATION FairSpec
CONSTANTS
  Session = {s1, s2}
  Addr = {a1}
  ShutdownCall = {q1}
  MaxChanges = 2
  AbsentRemoveFails = FALSE
  Faults = {"crash", "reboot", "flush", "signal", "remove"}
  None = None
  Foreign = Foreign
CHECK_DEADLOCK FALSE
PROPERTY ShutdownCompletes
