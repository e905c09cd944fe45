SPECIFICATION Spec
CONSTANTS
  Runner = {r1}
  None = None
  Providers = {"CLIENERA_CHAT"}
  MaxAttempts = 2
  MaxStalled = 1
  MaxAcks = 1
  Faults = {}
  MaxFault = 0
PROPERTY NeverLowered
CHECK_DEADLOCK FALSE
