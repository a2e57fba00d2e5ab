CONSTANTS
  Calls = {c1}
  Msgs = {m1}
  Regs = {"open", "half"}
  MaxConns = 2
  Again = Again
  None = None
SPECIFICATION FairSpec
PROPERTY NoSilentLoss
CHECK_DEADLOCK FALSE
