SPECIFICATION Spec
CONSTANTS
  Session = {s1, s2}
  Addr = {a1}
  ShutdownCall = {q1}
  MaxChanges = 2
  AbsentRemoveFails = FALSE
  Faults = {"signal", "crash", "torn", "write", "remove", "concurrent", "user"}
  None = None
  Foreign = Foreign
CHECK_DEADLOCK FALSE
SYMMETRY Symmetry
INVARIANTS Tracked
