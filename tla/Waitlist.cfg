SPECIFICATION WaitlistFairSpec
CONSTANTS
  Waiter = {u1, u2}
  Chatting = {u1}
  Granter = {a1, a2}
  ReminderSteps = 2
  MaxGrants = 2
  MaxPasses = 2
  NoKey = NoKey
  NoEntry = NoEntry
\* Everything that is bounded may have happened.
CHECK_DEADLOCK FALSE
INVARIANTS
  QueueIsFair
PROPERTIES
  LimitsImplementReadThrough
  GrantedIsUnlimited
