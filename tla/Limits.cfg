SPECIFICATION LimitsSpec
CONSTANTS
  User = {u1}
  Request = {r1, r2}
  Exempt = {}
  Funded = {}
  FreeTokens = 1
  MonthTokens = 1
  SessionLimit = 1
  Day = 3
  IranShift = 2
  DayTtl = 4
  MaxTokens = 1
  MaxCost = 1
  MaxRequests = 3
  MaxDate = 2
  Never = Never
  Stream = {r1, r2}
  Threshold = 2
  DailyCap <- MCDailyCap
  WindowCap <- MCWindowCap
  Hours <- MCHours
  DayLength = 2
  MaxTime = 3
  MaxMessages = 4
  None = None
  Browser = {b1}
  AnonStream = {r1, r2}
  FreeLimit = 1
  AnonPerDay = 1
  MaxAnon = 4
  MaxAnonDays = 1
SYMMETRY Symmetry
\* Time, messages and requests end at their bounds.
CHECK_DEADLOCK FALSE
INVARIANTS
  CountersAreSound
  RowsNeverExceedUse
  FreeTokensBounded
  OveruseBounded
  VisitorsAreTold
PROPERTIES
  RowsShrinkOnlyAfterExpiry
