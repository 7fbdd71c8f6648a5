SPECIFICATION Spec
CONSTANT Loads <- PairLoads
INVARIANTS
    HalfProgrammedIsRetained
    StateMatchesDevice
    SilentAfterLoss
    ResourcesBalanced
    HealthyProbeBinds
    BorrowedIsReturned
