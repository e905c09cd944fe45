SPECIFICATION FairSpec
CONSTANTS
  Slot = {s1}
  Exec = {e1}
  None = None
  Graph <- Looping
  Text = {"hi", "one", "two"}
  Keyword = {"hi"}
  MaxSteps = 6
  MaxMessages = 3
  Faults = {}
  MaxFault = 0
PROPERTY EveryWaitEnds
CHECK_DEADLOCK FALSE
