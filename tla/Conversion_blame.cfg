SPECIFICATION Spec
CONSTANT MaxRules = 3
CHECK_DEADLOCK FALSE
INVARIANT BlamesTheRule
