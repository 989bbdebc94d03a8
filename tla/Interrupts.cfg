SPECIFICATION Spec
CONSTANTS
  Key = {"lshift", "ctrl", "bracket"}
  MaxCodes = 2
  Line = {1, 4, 15}
  FIFO = 3
  TRIGGER = 2
INVARIANTS
  InterruptsLand
  InputAskedFor
  TypedAsHeld
PROPERTY RequestsServed
CHECK_DEADLOCK FALSE
