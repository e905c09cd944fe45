SPECIFICATION MCSpec
CONSTANTS
  Admin = {p1, p2}
  Request = {x1, x2}
  Plan = {free, monthly}
  Unlimited = {free}
  None = None
  Null = Null
  Void = Void
  Nobody = Nobody
  Manual = Manual
  MaxNow = 2
  MaxEdits = 1
  Account = {g1, g2}
  Appointment = {x1, x2}
  Caller = {p1, p2}
  MaxConnects = 2
  MaxCalls = 4
  MaxFaults = 1
  Oldest = 3
  Line = {x1, x2}
  Kind <- Items
  Tab = {p1, p2}
  Box = {x1, x2}
  Option = {o1, o2, o3}
  MaxWork = 6
  MaxGestures = 5
  MaxReady = 2
  Client = {p1, p2}
  Email = {x1, x2, x3}
  Google = {i1, i2}
  Offer = {o1, o2}
  MaxUser = 2
  MaxAttempt = 2
  MaxRename = 2
  MaxTasks = 3
  Module = {m1, m2, m3}
  Inner = m1
  Outer = m2
  MaxAmendments = 1
  MaxVisits = 2
  Person = {s1, s2, c1}
  Staff = {s1, s2}
  MaxLogins = 2
  MaxRequests = 2
  MaxExchanges = 3
  MaxOthers = 1
  MaxDrops = 1
  MaxSteps = 9
  MaxTexts = 3
  MaxTouches = 1
  Block = {x1, x2}
  MaxFiles = 3
  MaxClicks = 3
  Hours = 2
  Week = 2
  Month = 3
  Zone <- Zones
  Agent = {a1}
  Advert = {l1}
  MaxInstant = 3
  MaxTalk = 2
  MaxThreads = 1
  MaxPicks = 1
  Nowhere = Nowhere
  Holdings <- Few
  MaxLapses = 1
SYMMETRY Symmetric
CONSTRAINT Followed
INVARIANT LicenceOfPlan
INVARIANT NothingIsOrphaned
INVARIANT FlowsAreSound
INVARIANT FiguresAgree
INVARIANT AccountsAreWhole
INVARIANT TabActsAsShown
INVARIANT ScreensSettle
PROPERTY ReviewedOnce
PROPERTY CancelTakesBack
CHECK_DEADLOCK FALSE
