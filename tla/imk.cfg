SYMMETRY Symmetry
SPECIFICATION Spec
CONSTANTS
  Clients = {c1, c2}
  None = None
  Offers <- OneRow
  Hosts <- FourHosts
  MaxKeys = 3
  MaxComposition = 2
  PassiveRows = 1
  Retries = 1
  Told = {"deactivate", "nothing", "late"}
INVARIANTS KeysAreKept ForgottenStaysAway
PROPERTIES AcceptedWasOnScreen SecureIsQuiet
CHECK_DEADLOCK FALSE
