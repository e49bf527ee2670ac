SPECIFICATION Spec
CONSTANTS
  Session = {s1, s2}
  Addr = {a1, a2}
  MaxLeases = 3
  Faults = {"command", "declined", "unreadable", "crash", "reboot"}
  None = None
SYMMETRY Symmetry
CHECK_DEADLOCK FALSE
INVARIANTS UserEnabledKept LeasedWithFlag LeftoversOnRecord
