SPECIFICATION Spec
PROPERTY RerunClearsGate
CHECK_DEADLOCK FALSE
