SPECIFICATION WriterSpec
CONSTANT MaxPush = 2
INVARIANT CompletionSurvivesClear
CHECK_DEADLOCK FALSE
