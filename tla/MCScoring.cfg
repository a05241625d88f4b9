SPECIFICATION ScoringSpec
CONSTANTS
  p1 = p1
  p2 = p2
  v1 = v1
  u1 = u1
  i1 = i1
  i2 = i2
  s1 = s1
  a1 = a1
  a2 = a2
  n1 = n1
  x1 = x1
  x2 = x2
  x3 = x3
  Profiles = {p1, p2}
  Vacancies = {v1}
  Users = {u1}
  Owner <- MCOwner
  Ingesters = {i1}
  Scorers = {s1}
  Admins = {a1, a2}
  Prompts = {n1}
  Experiments = {x1, x2, x3}
  Variants <- MCVariants
  Bucket <- MCBucket
  Whole = 4
  Nothing = Nothing
SYMMETRY Symmetric
INVARIANTS OutcomesAreScores
PROPERTIES ListedAreMatched AlwaysOneActive
CHECK_DEADLOCK FALSE
