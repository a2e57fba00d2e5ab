CONSTANTS
  alice = alice
  bob = bob
  Sessions = {s1, s2}
  Principals = {alice, bob}
  Msgs = {m1}
  Tasks = {t1}
  Registrations <- AdminAndCodex
  Audiences <- ToBobOrNobody
  Leavers = {bob}
  MaxClaims <- Claims2
  FaultyOps = {"register_principal", "held_for", "envelope_of", "append_message", "ack_set", "held_all"}
  MaxFaults = 1
  MaxCrashes = 1
  None = None
SPECIFICATION FairSpec
INVARIANTS BoundIsKnown
PROPERTIES HeldResolves AckLifecycleSpec
CHECK_DEADLOCK FALSE
