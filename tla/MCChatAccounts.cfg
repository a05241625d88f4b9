SPECIFICATION Spec
CONSTANTS
  Users = {u1, u2}
  Chats = {c1, c2}
  Codes = {k1, k2}
  None = None
  DayLength = 3
  DigestHour = 1
  MaxRestarts = 1
  MaxSetbacks = 1
INVARIANTS OneVoice LinksAgree OncePerDay
