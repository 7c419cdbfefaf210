SPECIFICATION FairRudpSpec
CONSTANTS
  Endpoints = {e1}
  StreamModes = {FALSE, TRUE}
  MaxClients = 2
  MaxSessions = 2
  MaxAccepts = 1
  MaxPosted = 2
  MaxTry = 1
  MaxPending = 1
INVARIANT ServerAgreesWithClient
PROPERTY ConnectCompletes
PROPERTY PendingSettles
PROPERTY ServerCloseClosesSessions
CHECK_DEADLOCK FALSE
