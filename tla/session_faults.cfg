SPECIFICATION FairSpec
CONSTRAINT Apart
CONSTANTS
  Worker = {w1, w2}
  First = w1
  SockId = {s1, s2}
  AttemptId = {1, 2}
  None = None
  MaxQrCycles = 2
  Overlap = FALSE
  Pinned = FALSE
  Codes = {"lost", "loggedOut"}
  Sends = FALSE
  Ops = {"connect","disconnect","logout"}
  MaxArmed = 1
  MaxCrash = 1
  MaxStall = 1
  MaxFail = 1
  MaxCmd = 1
CHECK_DEADLOCK FALSE
INVARIANT HeldLeaseIsRenewed
PROPERTY LineRecovers
PROPERTY SwitchedOffSettles
