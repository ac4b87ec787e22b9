SPECIFICATION Spec
CHECK_DEADLOCK FALSE
CONSTANTS
    WordBits = 8
    Operand = {0, 1, 2, 3, 4, 5, 7, 8, 11, 12, 15, 31, 200, 255}
    Modulus = {3, 5, 7, 9, 11, 12, 13, 15}
    MaxExponent = 5
    AnyDividend = TRUE
INVARIANT WordExact
