SPECIFICATION MCSpec
CONSTANTS
    r1 = r1
    r2 = r2
    Null = Null
    Regs <- MCRegs
    Techniques = {"FLEXIBLEAUTO", "FLEXIBLEAUTOEXT", "FIXEDMANUAL"}
    ScalTech = "FLEXIBLEAUTO"
    MultDepth = 4
    SizeQ = 5
    LogModulus <- MCLogModulus
    ScalingFactorsReal <- MCScalingFactorsReal
    ApproxSF = 300
    AliasedOperands = FALSE
SYMMETRY Symmetric
CHECK_DEADLOCK FALSE
INVARIANT TypeOK
INVARIANT DecodesAtTrueScale
INVARIANT ManualDecodesAtTrueScale
INVARIANT NoFault
INVARIANT RescaleHeadroom
INVARIANT SentDecodes
