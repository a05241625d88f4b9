SPECIFICATION FairSpec
CONSTANTS
  Sources = {s1, s2}
  Nested = {s2}
  Calls = {c1, c2, c3}
  FailureThreshold = 2
  ResetTimeout = 3
  HalfOpenMaxCalls = 1
  MaxAge = 6
INVARIANTS AuditTellsState WindowIsClamped ShutByCallsOut
PROPERTIES OpenEnds ProbesConclude
