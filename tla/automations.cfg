SPECIFICATION FairSpec
CONSTANTS
  Slot = {s1, s2}
  Exec = {e1, e2}
  None = None
  Graph <- Branching
  Text = {"hi", "one", "two"}
  Keyword = {"hi"}
  MaxSteps = 6
  MaxMessages = 3
  Faults = {"crash", "error", "slow"}
  MaxFault = 2
INVARIANT OneAtATime
INVARIANT MenuIsTheOneSeen
PROPERTY OverIsSilent
PROPERTY TimerEnds
CHECK_DEADLOCK FALSE
