CONSTANTS
  a = a
  b = b
  w = w
  n1 = n1
  n2 = n2
  Peers = {a, b, w}
  Chans = {1, 2}
  Names = {n1, n2}
  Naming <- MCNaming
  Members <- MCMembers
  Targets <- MCTargets
  Senders = {a}
  Movers = {b}
  Watchers = {w}
  Readers = {w}
  Admins = {b, w}
  Scopes = {n1}
  Pairs <- MCPairs
  MaxRecords = 2
  MaxWatches = 2
  MaxLimit = 2
  None = None
SPECIFICATION Spec
INVARIANTS AudienceJust ReasonExact WatchExact PagesExact
CHECK_DEADLOCK FALSE
