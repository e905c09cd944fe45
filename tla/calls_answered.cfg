SPECIFICATION CallsSpec
CONSTANTS
  Agent = {a1}
  Visitor = {v1}
  MaxCalls = 1
  MaxFaults = 0
  None = None
INVARIANT AnsweredOnScreen
CHECK_DEADLOCK FALSE
