CONSTANTS
  Handlers = {h1, h2}
  Principals = {p1}
  Ids = {i1, i2}
  Names = {n1, n2}
  Msgs = {m1}
  MaxTokens = 2
  None = None
SPECIFICATION Spec
INVARIANTS TypeOK OverrideWins RowsHaveChannels AuditFaithful
SYMMETRY Symm
CHECK_DEADLOCK FALSE
