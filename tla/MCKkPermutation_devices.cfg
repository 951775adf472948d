\* The tests' claim that a GPU permutes as the CPU does.
SPECIFICATION Spec
CONSTANTS
    WordBits = 16
    SelectorBits = 4
    Rounds = 32
    DefaultRotations <- SmallRotations
    DdrMix = 15151
    C4 = 31765
    C12 = 10858
    C20 = 63396
    C24 = 21056
    NumStates = 2
    WorkgroupSize = 3
    HostStates <- TwoPairs
    Entropies <- ThreeEntropies
CHECK_DEADLOCK FALSE
INVARIANT DevicesMatchCpu
