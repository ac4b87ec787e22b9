SPECIFICATION MCSpec
CONSTANTS
    r1 = r1
    r2 = r2
    Null = Null
    Regs <- MCRegs
    Techniques = {"FLEXIBLEAUTO", "FLEXIBLEAUTOEXT", "FIXEDMANUAL", "FIXEDAUTO", "BFV"}
    ScalTech = "FLEXIBLEAUTO"
    MultDepth = 4
    SizeQ = 5
    T = 17
    QModt <- MCQModt
    PlaintextLevels = {0}
    N = 2
    ModuliQ <- MCModuliQ
    NumPartQ = 2
    AuxBits = 7
    LogMtilde = 5
    LogGamma = 6
    Cushion = 0
    Setups <- MCSetups
    Secrets <- MCSecrets
    Masks <- MCMasks
    Errors <- MCErrors
    Messages <- MCMessages
    ErrorBound = 2
    Powers = {3}
    UnarySlots = {1}
    BFVMaxDepth = 2
    BFVMaxSteps = 2
SYMMETRY Symmetric
CHECK_DEADLOCK FALSE
INVARIANT DecryptsToMessage
INVARIANT NoFault
INVARIANT RescaleHeadroom
INVARIANT BFVDecrypts
INVARIANT NoiseWithinEstimate
INVARIANT ConversionsExact
