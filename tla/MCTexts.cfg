SPECIFICATION TextsSpec
CONSTANTS
  first = first
  second = second
  Calls = {c1, c2}
  Letters = {m}
  Answers = {first, second}
  Form <- MCForm
  NoRow = NoRow
  MaxTexts = 4
  e1 = e1
  e2 = e2
  u1 = u1
  u2 = u2
  p1 = p1
  s1 = s1
  s2 = s2
  formal = formal
  casual = casual
  Editors = {e1, e2}
  Owners = {u1, u2}
  Profiles = {p1}
  Styles = {s1, s2}
  Choices = {formal, casual}
  Default = formal
  MaxAmount = 1
  NamedAtOnce = 1
SYMMETRY Symmetric
INVARIANT FormHasNoGap
PROPERTIES RowsKeepTheirId ChoicesStay DeletedStays RangeLostOnlyByRace
CHECK_DEADLOCK FALSE
