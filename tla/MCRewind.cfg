CONSTANTS
    StateSize = 96
    BufSize = 224
    CountMod = 5
    CoreStates <- MCCoreStates
SPECIFICATION TrailSpec
INVARIANTS
    BlocksInBounds
    RewindMeetsIntactBlock
PROPERTIES
    RefinesHistory
