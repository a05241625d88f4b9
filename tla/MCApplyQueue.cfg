SPECIFICATION FairSpec
CONSTANTS
  Matches = {m1}
  Workers = {w1, w2}
  Clients = {c1, c2}
  MaxAttempts = 3
  PolicyAttempts = 4
  MaxFaults = 1
  NoMatch = NoMatch
INVARIANTS SubmissionBudget AppliedWasAccepted OneOpeningRow StatusInTimeline
PROPERTIES ImplementsLease ImplementsRow EveryJobSettles SuccessIsShown
CHECK_DEADLOCK FALSE
