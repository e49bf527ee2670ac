SPECIFICATION Spec
CONSTANTS
  Zero = Zero
  Junk = Junk
  None = None
  Device = Device
  Other = Other
  Ip = Ip
  Ip2 = Ip2
  Frame <- MCFrame
  PackedNames = {FALSE}
  MaxAnswers = 3
INVARIANTS
  DecodesWhatWasSent
  CutFramesInventNothing
