CONSTANTS
  Contexts = {c1}
  None = None
  MaxObjects = 5
  MaxKeys = 3
  MaxMoves = 2
  Kinds = {"Letter", "Space", "Escape"}
  Faults <- OneFault
  Misfits = {}
SPECIFICATION Spec
INVARIANTS  StaleEditsCancelled NoCompositionStranded
PROPERTIES SafeFieldsOnly
CHECK_DEADLOCK FALSE
