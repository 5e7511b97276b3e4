SPECIFICATION Spec
CONSTANTS
  MaxEvents = 2
  MaxTurns = 3
  Rooms = {3, 12, 30}
INVARIANTS
  
  ModesConvert
  RoundTrip
PROPERTY EventReaches
CHECK_DEADLOCK FALSE
