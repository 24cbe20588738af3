SPECIFICATION Spec
CONSTANT MaxNodes = 7
INVARIANT InheritsErrorPolicy
CHECK_DEADLOCK FALSE
