SPECIFICATION MCSpec
CONSTANTS
    r1 = r1
    r2 = r2
    Null = Null
    Regs <- MCRegs
    Techniques = {"FIXEDAUTO"}
    ScalTech = "FIXEDAUTO"
    MultDepth = 3
    SizeQ = 4
    LogModulus <- MCFixedLogModulus
    ScalingFactorsReal <- MCNoTable
    ApproxSF = 300
    AliasedOperands = FALSE
SYMMETRY Symmetric
CHECK_DEADLOCK FALSE
INVARIANT DecodesAtTrueScale
