SPECIFICATION Spec
CONSTANT MaxNodes = 7
INVARIANTS TypeOK StopsWhereItShould ReportsEveryFailure InheritsOneLevel
CHECK_DEADLOCK FALSE
