SPECIFICATION FairSpec
CONSTANTS
  Read = {p1, p2}
  Interval = {t1, t2, t3}
  MaxFlips = 2
  MaxFaults = 1
  MaxDisposals = 2
  NoTimer = NoTimer
INVARIANTS IntervalsAccounted ToldWhatItHolds
PROPERTIES ImplementsPort
