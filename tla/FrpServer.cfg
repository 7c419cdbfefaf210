SPECIFICATION Spec
CONSTANTS
  Accessor = accessor
  Provider = provider
  Conn = conn
  Service = {svc}
  Sessions = 4
  MaxBreaks = 1
  MaxBad = 2
INVARIANTS
  NamesAgree
  
PROPERTIES
  HalvesEndTogether
  StaysRegistered
CHECK_DEADLOCK FALSE
