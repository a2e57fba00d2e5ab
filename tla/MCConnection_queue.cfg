CONSTANTS
  Calls = {c1, c2}
  Notes = {n1, n2}
  Reply = Reply
  Limit = 2
  MaxLines = 1
  None = None
SPECIFICATION FairSpec
INVARIANTS QueueBound CountCovers PendingExact AnswerIsOwn
PROPERTY OverflowTearsDown
CHECK_DEADLOCK FALSE
