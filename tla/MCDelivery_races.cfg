CONSTANTS
  alice = alice
  bob = bob
  Sessions = {s1, s2, s3}
  Principals = {alice, bob}
  Msgs = {m1}
  Tasks = {t1, t2}
  Registrations <- ClaudeAndCodex
  MaxClaims <- Claims2
  Audiences <- ToEither
  Leavers = {bob}
  FaultyOps = {}
  MaxFaults = 0
  MaxCrashes = 0
  None = None
SPECIFICATION Spec
INVARIANTS UniqueClaim HeldOwned AckTruthful HandoverBound
SYMMETRY Symm
CHECK_DEADLOCK FALSE
