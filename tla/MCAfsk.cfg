SPECIFICATION Spec
CONSTANT Message <- MCMessage
INVARIANT ReadBack
CHECK_DEADLOCK FALSE
