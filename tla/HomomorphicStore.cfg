SPECIFICATION MCSpec
CONSTANTS
    Name = {x, y}
    Tag <- MCTag
    Message <- MCMessage
    Index <- MCIndex
    Secret <- MCSecret
    PubA <- MCPubA
    EvalA <- MCEvalA
    Blind <- MCBlind
    MaxRelinSkDeg = 3
    BlindWith = {"none", "owner"}
    MaxElements = 4
    MaxCalls = 4
    NoCt = NoCt
    NoKey = NoKey
    Scalar <- MCScalar
    FZero = 0
    FOne = 1
    FAdd <- MCAdd
    FMul <- MCMul
    FNeg <- MCNeg
    Slot <- MCSlot
    Galois <- MCGalois
    Perm <- MCPerm
    GInverse <- MCGInverse
SYMMETRY MCNames
PROPERTY Implements
CHECK_DEADLOCK FALSE
