SPECIFICATION FairSpec
CONSTANTS
  User = {u1, u2}
  CampaignId = {c1, c2}
  Admin = {a1, a2}
  Capacities = {0, 1}
  MaxRequests = 3
  Empty = Empty
  None = None
\* Everybody may have logged in and nobody have anything left to ask.
CHECK_DEADLOCK FALSE
INVARIANTS
  AdmittedWithinCapacity
  OneCampaignForAll
PROPERTIES
  ImplementsReadThrough
  KeyEventuallyCurrent
