SPECIFICATION FairWriterSpec
CONSTANT MaxPush = 4
INVARIANT OneWriteInFlight
PROPERTY PushedIsWritten
CHECK_DEADLOCK FALSE
