CONSTANTS
  Deliveries = {d1, d2}
  Clients = {1, 2}
  Turns = {1, 2}
  None = None
SPECIFICATION FairSpec
INVARIANTS CommitPoint InjectOnce ProcessedIsReal LockExclusive
PROPERTY EndsAfterLeave
CHECK_DEADLOCK FALSE
