CONSTANTS
  Deliveries = {d1, d2}
  Clients = {1, 2}
  Turns = {1, 2}
  None = None
SPECIFICATION Spec
INVARIANTS SerialDelivery
SYMMETRY Symm
CHECK_DEADLOCK FALSE
