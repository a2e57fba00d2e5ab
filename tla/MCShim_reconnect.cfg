CONSTANTS
  Calls = {c1, c2, c3}
  Msgs = {m1}
  Regs = {"open"}
  MaxConns = 2
  Again = Again
  None = None
SPECIFICATION FairSpec
INVARIANTS TypeOK AnswersTrue CarriesBinding
PROPERTY Rebinds
CHECK_DEADLOCK FALSE
