CONSTANTS
    kMaxPunchRetries = 1
    kPunchMaxRounds = 1
    MaxSignals = 3
SPECIFICATION Spec
INVARIANTS UpgradeConnects AttemptGuarded
PROPERTIES HalfUpgradeResolves CloseReachesPeer
CHECK_DEADLOCK FALSE
