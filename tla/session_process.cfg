SPECIFICATION Spec
CONSTANTS
  Worker = {w1}
  First = w1
  SockId = {s1, s2}
  AttemptId = {1, 2}
  None = None
  MaxQrCycles = 3
  Overlap = FALSE
  Pinned = FALSE
  Codes = {"lost", "loggedOut"}
  Sends = TRUE
  Ops = {}
  MaxArmed = 1
  MaxCrash = 0
  MaxStall = 0
  MaxFail = 0
  MaxCmd = 0
INVARIANT TypeOK
INVARIANT OneSocketPerProcess
INVARIANT NoStrandedLine
CONSTRAINT HasLease
SYMMETRY Slots
CHECK_DEADLOCK FALSE
