CONSTANTS
  alice = alice
  bob = bob
  Sessions = {s1, s2}
  Principals = {alice, bob}
  Msgs = {m1}
  Tasks = {t1, t2}
  Registrations <- ClaudeAndCodex
  Audiences <- ToBob
  Leavers = {}
  MaxClaims <- Claims2
  FaultyOps = {}
  MaxFaults = 0
  MaxCrashes = 0
  None = None
SPECIFICATION Spec
INVARIANTS SingleHandover
SYMMETRY Symm
CHECK_DEADLOCK FALSE
