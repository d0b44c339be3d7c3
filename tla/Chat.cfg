SPECIFICATION ChatSpec
CONSTANTS
  Exchange = {e1, e2}
  SummaryTrigger = 1
  MaxLines = 5
  MaxRenames = 1
  Drawer = {d1}
  ImageModel <- MCImageModel
  ImageDay = 1
  MaxAsks = 2
  MaxTicks = 2
  Asker = {a1, a2}
  MaxPerDay = 2
  MaxPerWindow = 1
  ImageLimitDay = 2
  ImageWindow = 1
  MaxDraws = 4
  MaxImageTicks = 2
  StatDay = 1
  MaxStreamAge = 1
  MaxStreams = 2
  MaxStatTicks = 2
  Model <- MCModel
  Message <- MCMessage
  Rows <- MCRows
  Plans <- MCPlans
  StepLists <- MCStepLists
  Usage = {10, 60}
  ComplexLength = 400
  MaxRoutes = 2
  MaxRouterUpdates = 1
\* Time, messages and requests end at their bounds.
CHECK_DEADLOCK FALSE
INVARIANTS
  ConversationIsWhole
  PicturesAreKept
  ImageLimitsRespected
  StatisticsAreTrue
  ChoicesAreSound
