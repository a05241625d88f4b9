SPECIFICATION TablesSpec
CONSTANTS
  r1 = r1
  r2 = r2
  t1 = t1
  t2 = t2
  t3 = t3
  Requests = {r1, r2}
  Tokens = {t1, t2, t3}
  NoToken = NoToken
  Lifetime = 2
  MaxRestarts = 1
  channel = channel
  page = page
  one = one
  two = two
  a = a
  b = b
  c = c
  d = d
  Scanners = {channel}
  Listers = {page}
  Singles = {one, two}
  Postings <- MCPostings
  SourceOf <- MCSourceOf
  IdOf <- MCIdOf
  HashOf <- MCHashOf
  OfferedTo <- MCOfferedTo
  NoPosting = NoPosting
  RetryCount = 2
  MaxFailures = 1
SYMMETRY Alike
INVARIANTS LoggedOutIsDead RotationRevokes PlacesAgree OneCopyPerPoller
CHECK_DEADLOCK FALSE
