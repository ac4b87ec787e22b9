SPECIFICATION MCSpec
CHECK_DEADLOCK FALSE
CONSTANTS
    WordBits = 12
    Numbers <- MCNumbers
    Starts <- MCStarts
    PrimeBits = {3, 4, 5, 6, 7, 11}
    Orders = {2, 3, 4, 5, 6, 8, 9, 10, 12, 15, 16, 32}
    Rings <- MCRings
    N = 4
    PolyModuli = {17, 41}
    Elements <- MCElements
    Scalars = {0, 3, 17}
    Digits = {3}
    MaxOps = 3
    NoThread = NoThread
    Threads = {t1, t2}
    Order <- MCOrder
    Moduli <- MCModuli
    PlainModuli <- MCPlainModuli
    Slots <- MCSlots
    Contexts = {"ckks", "bgv"}
    FieldOrders = {16}
    PlainPrimes = {17}
INVARIANT RightAnswers
INVARIANT ArbitraryTransformsRight
INVARIANT ElementRepresents
INVARIANT TablesCoherent
INVARIANT SerialAndWarmCallsRight
INVARIANT FieldTransformsRight
PROPERTY WarmRegionsReadOnly
PROPERTY RegionsJoin
