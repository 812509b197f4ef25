CONSTANT MaxPush = 1
SPECIFICATION Spec
PROPERTY ResponseIsHandled
CHECK_DEADLOCK FALSE
