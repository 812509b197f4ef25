CONSTANT MaxPush = 3
SPECIFICATION Spec
INVARIANT DrainedAtEnd
PROPERTY ShutdownCompletes
PROPERTY PushedIsTaken
CHECK_DEADLOCK FALSE
