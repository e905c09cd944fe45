SPECIFICATION MCSpec
CONSTANTS
  Handler = {h1, h2}
  Msg = {m1, m2}
  None = None
  MaxEmissions = 3
  MaxEdits = 2
  Faults = {"crash", "error"}
  MaxFault = 1
  MaxRow = 3
  MaxObject = 3
  Content = {"x", "y"}
  First = "x"
  MaxCopies = 1
  MaxJobs = 2
  MaxPhotos = 2
  MaxNotices = 2
  MaxFetches = 3
  MaxLines = 2
  MaxKeys = 3
  MaxHash = 3
  MaxRequests = 3
  Null = Null
  Gone = Gone
  MaxMessages = 2
  MaxWork = 2
  MaxTrouble = 1
  Blank = Blank
SYMMETRY Symmetric
CONSTRAINT Few
INVARIANT OnePerson
INVARIANT UnreadIsTrue
INVARIANT NothingIsLost
INVARIANT FilesKept
INVARIANT AccessIsSound
INVARIANT VisitorThreadIsTrue
CHECK_DEADLOCK FALSE
