SPECIFICATION PlatformSpec
CONSTANTS
  Trial = {c1,c2}
  LoginOf = {l1,l2}
  MaxSaid = 2
  Visitor = {v1,v2}
  Customer = {u1,u2}
  Utm = {"ads"}
  Price = {1}
  MaxLog = 5
  Claim = {c1,c2}
  TrialMessages = 1
  Grace = 1
  Valid = 1
  MaxClaims = 2
  MaxPayments = 2
  MaxHours = 1
  Attempt = {c1,c2}
  Sync = {p1,p2}
  MaxAttempts = 3
  MaxSyncs = 2
  MaxUse = 1
  MaxLiaraDays = 1
  Caller = {c1,c2}
  Checker = {p1,p2}
  AlertWindow = 2
  ErrorThreshold = 0
  MinSample = 1
  Cooldown = 2
  MaxEvents = 2
  MaxMinutes = 3
  Reader = {r1,r2}
  Notice = {n1}
  Device = {d1,d2}
  Token = {t1,t2}
  Person = {u1}
  Sender = {s1}
  MaxRegistered = 4
  Process = {p1,p2}
  Queue = 2
  Cron = {k1,k2}
  MaxStarts = 3
  Server = {p1,p2}
  Getter = {c1,c2}
  Ttl = 2
  MaxGets = 2
  MaxConfigUpdates = 2
  MaxTicks = 3
  Visit = {s1}
  SalesCall = {c1,c2}
  HourLimit = 1
  DiscountMin = 2
  Lengths = {1,3}
  MaxSalesCalls = 2
  MaxForms = 3
  MaxSalesHours = 1
  Entry = {c1,c2}
  Question = {"a","b"}
  Embedder = {"m","n"}
  Curator = {k1}
  Retriever = {r1}
  MaxEdits = 2
  MaxRetrievals = 1
  MaxSwitches = 1
  Client = {u1,u2}
  Segments <- MCSegments
  PlanPrice = 6
  SharePct = 70
  PeriodDays = 3
  MaxDelay = 1
  MaxDiary = 3
  Ticket = {k1}
  Replier = {r1}
  Clerk = {c1,c2}
  MaxReplies = 1
  Operator = {o1,o2}
  Subscriber = {s1,s2}
  PaidPlan = {s1}
  MaxRequests = 4
  MaxClock = 3
  Answer = {a1}
  Summarizer = {z1,z2}
  Batch = 2
  MaxFeedback = 3
  MaxSummaries = 3
  FirstChats = 3
  MaxChats = 4
  PageSize = 2
  Lister = {l1}
  MaxMoves = 3
  PayOrder = {o1}
  Verification = {v1,v2}
  MaxVerifyCalls = 3
  MaxReboots = 1
\* Every part ends at its bounds.
CHECK_DEADLOCK FALSE
SYMMETRY Symmetry
INVARIANTS
  MigrationLosesNothing
  ReportsAddUp
  UsersGetTheirDueOnce
  VerificationsAreTrue
  KeysAreKept
  AdministratorsAreTold
  ProcessesAgree
  AssistantKeepsUp
  UsersAreHeard
