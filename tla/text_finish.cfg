CONSTANTS
  Contexts = {c1}
  None = None
  MaxObjects = 5
  MaxKeys = 4
  MaxMoves = 2
  Kinds = {"Letter", "Space"}
  Faults <- NoFault
  Misfits = {}
SPECIFICATION Spec
PROPERTIES ShownTextStays
CHECK_DEADLOCK FALSE
