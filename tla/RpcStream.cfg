SPECIFICATION FairSpec
CONSTANTS
    Scripts <- MCScripts
    WriteMax = 1
    ReadMax <- MCReadMax
    MaxWire = 1
    MaxBeats = 1
INVARIANTS  CacheBounded SuccessIsComplete
PROPERTIES EndReleasesUsers
CHECK_DEADLOCK FALSE
