SPECIFICATION SizeSpec
CONSTANT MaxSize = 70000
INVARIANTS
    BestFit
    GivesEnough
CHECK_DEADLOCK FALSE
