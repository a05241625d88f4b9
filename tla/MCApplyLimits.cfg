SPECIFICATION FairSpec
CONSTANTS
  r1 = r1
  r2 = r2
  u1 = u1
  Users = {u1}
  Requests = {r1, r2}
  UserOf <- MCUserOf
  Matches = {m1, m2}
  Slots = {1, 2, 3, 4}
  HourlyLimit = 1
  DailyLimit = 2
  Second = 2
  Hour = 4
  Day = 6
  NoHint = NoHint
INVARIANTS OverrunBounded HintNotTooLong
PROPERTY SaturationEnds
