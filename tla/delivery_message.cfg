SPECIFICATION FairSpec
CONSTANTS
  Runner = {r1, r2}
  None = None
  Providers = {"BAILEYS", "CLIENERA_CHAT"}
  MaxAttempts = 2
  MaxStalled = 1
  MaxAcks = 2
  Faults = {"enqueue", "crash", "lock", "db", "publish"}
  MaxFault = 2
INVARIANT CopiesExplained
INVARIANT ReceiptsAreTrue
INVARIANT CompletedIsSent
INVARIANT DeletedIsRevoked
PROPERTY Settles
CHECK_DEADLOCK FALSE
