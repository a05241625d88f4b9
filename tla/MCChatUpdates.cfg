SPECIFICATION FairSpec
CONSTANTS
  m1 = m1
  u1 = u1
  u2 = u2
  Matches = {m1}
  Users = {u1, u2}
  Owner <- MCOwner
  Channels = {tg, max}
  Commands <- AllCommands
  MaxSent = 2
  MaxRequests = 1
  MaxCrashes = 1
  EnqueueMayRaise = TRUE
  Scorers = {sc1}
  NoMatch = NoMatch
PROPERTY InboxDrains
CHECK_DEADLOCK FALSE
