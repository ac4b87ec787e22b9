SPECIFICATION MCSpec
CONSTANTS
    p1 = p1
    p2 = p2
    p3 = p3
    NoKey = NoKey
    Party <- MCParty
    Lead = p1
    Share <- MCShare
    Joint <- MCJoint
    PubA <- MCPubA
    EvalA <- MCEvalA
    JointA <- MCJointA
    Blind <- MCBlind
    Message <- MCMessage
    Index <- MCIndex
    MaxElements = 3
    MaxCts = 3
    Scalar <- MCScalar
    FZero = 0
    FOne = 1
    FAdd <- MCAdd
    FMul <- MCMul
    FNeg <- MCNeg
    Slot <- MCSlot
    Galois <- MCGalois
    Perm <- MCPerm
    GInverse <- MCGInverse
INVARIANT PublicKeysJoint
INVARIANT RelinKeysJoint
INVARIANT AutoKeysJoint
INVARIANT CiphertextsRight
INVARIANT FusionRight
CHECK_DEADLOCK FALSE
