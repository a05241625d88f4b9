SPECIFICATION FairSpec
CONSTANTS
  j3 = j3
  v1 = v1
  v2 = v2
  hello = hello
  Workers = {w1, w2}
  Jobs = {j1, j2, j3}
  Vacancy <- MCVacancy
  Letter <- MCLetter
  NoLetter = NoLetter
  MaxRetries = 2
  MaxSubmits = 2
  MaxCrashes = 1
INVARIANT ConfirmedIsNotFailed
PROPERTIES ImplementsLease SubmissionEnds
CHECK_DEADLOCK FALSE
