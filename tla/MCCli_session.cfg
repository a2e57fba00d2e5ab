CONSTANTS
  Clis = {c1, c2, c3}
  Remote = {c3}
  As <- MCAs
  Operator = c1
  Foreign = Foreign
  MaxFaults = 1
  None = None
  a = a
  b = b
  Names = {a, b}
  Named <- MCNamed
  Spoken = {a, b}
  MaxTyped = 3
  MaxRenames = 1
SPECIFICATION CliSpec
INVARIANTS TokenAgrees RaceHarmless DeleteIntended CallsExact
PROPERTIES SomebodyServes EveryCommandAnswered
CHECK_DEADLOCK FALSE
