SPECIFICATION Spec
CONSTANTS
  Session = {s1, s2}
  Addr = {a1}
  ShutdownCall = {q1}
  MaxChanges = 1
  AbsentRemoveFails = FALSE
  Faults = {"signal"}
  None = None
  Foreign = Foreign
CHECK_DEADLOCK FALSE
INVARIANT NothingLeftAfterExit
