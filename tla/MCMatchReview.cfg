SPECIFICATION Spec
CONSTANTS
  m1 = m1
  u1 = u1
  u2 = u2
  Matches = {m1}
  Users = {u1, u2}
  Owner <- MCOwner
  Channels = {tg, max}
  Commands <- AllCommands
  MaxSent = 2
  MaxRequests = 1
  MaxCrashes = 1
  EnqueueMayRaise = TRUE
  Scorers = {sc1, sc2}
  NoMatch = NoMatch
INVARIANTS OnlyRequested OneApplication RatedOncePerScorer
SYMMETRY EqualScorers
CHECK_DEADLOCK FALSE
