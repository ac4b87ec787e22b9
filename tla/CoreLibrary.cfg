SPECIFICATION MCSpec
CHECK_DEADLOCK FALSE
CONSTANTS
    Null = Null
    Threads = {t1, t2}
    Blocks = {b1, b2, b3, b4}
    Allocators = {a1, a2, a3}
    Sizes = {28, 300, 1000}
    Contents = {x}
    MaxAllocators = 2
    LimbBits = 3
    MaxLimbs = 3
    BigOperand = {0, 1, 39, 64, 255, 511}
    BigModulus = {1, 2, 12, 39, 61}
    Shift = {0, 1, 3, 4, 7, 9}
    MaxExponent = 5
    MaxBase = 4
    WordBits = 8
    WordOperand = {0, 1, 2, 3, 4, 5, 7, 8, 11, 12, 15, 31, 200, 255}
    WordModulus = {3, 5, 7, 9, 11, 12, 13, 15}
SYMMETRY Symmetric
INVARIANT BlockInOnePlace
INVARIANT UsedBlocksHold
INVARIANT CountersExact
INVARIANT OneAllocatorPerSize
INVARIANT DestroyLeavesUnfreed
INVARIANT Exact
INVARIANT WordExact
