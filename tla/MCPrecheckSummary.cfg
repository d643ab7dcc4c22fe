CONSTANT MaxChecks = 5
SPECIFICATION Spec
INVARIANT SummaryCorrect
CHECK_DEADLOCK FALSE
