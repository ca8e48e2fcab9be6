CONSTANT MaxItems = 2
SPECIFICATION Spec
CHECK_DEADLOCK FALSE
PROPERTY ShutdownEndsRun
