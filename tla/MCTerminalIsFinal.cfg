SPECIFICATION Spec
CONSTANTS
  Matches = {m1}
  Workers = {w1}
  Clients = {c1}
  MaxAttempts = 3
  PolicyAttempts = 3
  MaxFaults = 0
  NoMatch = NoMatch
PROPERTY TerminalIsFinal
CHECK_DEADLOCK FALSE
