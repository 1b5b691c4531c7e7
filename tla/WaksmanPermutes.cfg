SPECIFICATION Spec
CONSTANT MaxWidth = 3
INVARIANT OutputsArePermutation
CHECK_DEADLOCK FALSE
