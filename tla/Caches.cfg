SPECIFICATION CachesSpec
CONSTANTS
  User = {u1, u2}
  Plan = {1, 2}
  ZeroAtStart = {1}
  Repriced = {1, 2}
  Replaced = {1}
  Reader = {r1}
  Writer = {w1, w2}
  MaxWrites = 2
  None = None
  Request = {q1, q2}
  RateLimit = 1
  AttemptLimit = 2
  MaxSessionRequests = 5
  MaxTokens = 3
INVARIANTS
  PlansAreSound
  SignInsAreSound
PROPERTIES
  ImplementsReadThrough
  EventuallyCoherent
  LockEnds
