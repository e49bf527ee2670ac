SPECIFICATION Spec
CONSTANTS
  Session = {s1, s2, s3}
  Addr = {a1, a2}
  ShutdownCall = {q1}
  MaxChanges = 2
  AbsentRemoveFails = FALSE
  Faults = {"crash", "remove", "add", "snapshot", "reboot", "flush"}
  None = None
  Foreign = Foreign
SYMMETRY Symmetry
CHECK_DEADLOCK FALSE
INVARIANTS RecordedOnDisk JournalMatchesMemory NothingLeftAfterExit RecoveredNothingLeft
PROPERTY ImplementsLease
