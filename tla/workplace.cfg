SPECIFICATION MCSpec
CONSTANTS
  c1 = c1
  c2 = c2
  a1 = a1
  a2 = a2
  v1 = v1
  Chat = {c1, c2}
  MaxMsg = 2
  MaxAsks = 2
  MaxLists = 1
  MaxFaults = 1
  MaxWritten = 3
  MaxSends = 2
  MaxPending = 2
  MaxChanges = 2
  MaxWorks = 2
  MaxLoads = 1
  MaxTasks = 2
  Agent = {a1, a2}
  Visitor = {v1}
  MaxCalls = 2
  u1 = u1
  u2 = u2
  d1 = d1
  d2 = d2
  p1 = p1
  l1 = l1
  User = {u1, u2}
  Dept = {d1, d2}
  Stage = {1, 2, 3}
  Project = {p1}
  Lead = {l1}
  Deal = {1, 2}
  None = None
  Slot = {1, 2}
  MaxOps = 2
  MaxCrash = 1
INVARIANT DefaultsAreSound
INVARIANT ConvertedOnce
INVARIANT StagesFit
INVARIANT InboxIsTrue
INVARIANT WrittenArrivesOnce
INVARIANT CallsEndEverywhere
PROPERTY DeletesOnlyEmpty
CONSTRAINT Followed
SYMMETRY Symmetric
CHECK_DEADLOCK FALSE
