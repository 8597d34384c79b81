SPECIFICATION Spec
CONSTANTS
    None = None
    t1 = t1
    t2 = t2
    Thread <- MCThread
    Name = {1, 2, 3}
    Dir = {"a", "b"}
    Entry = {"e1", "e2", "d"}
    Folder = {"d"}
    Texture = {"x1", "x2", "x3"}
    Path = {1, 2}
    Slot <- MCSlot
    Lists <- MCLists
    SaveAfter = 1
    MaxVersion = 1
    Image = {0, 1}
    Game = {"ga", "gb"}
    Tuned = {"ga"}
    Value = {0, 1}
    Vary = {{"plain"}, {"option"}, {"device"}}
    Offer <- MCOffer
    Archived = {"a1", "a2", "a3"}
    Solid = {"a3"}
    Arcade = {"own", "b1", "b2"}
    Called <- MCCalled
    MaxSize = 2
    MaxFiles = 5
    Rate = {1, 2, 3}
    Exact = {1, 2}
    InSize = 2
    OutSize = 4
    Table <- MCTable
    Memory = 4
    Base = 2
    Rows <- MCRows
    Cores <- MCCores
    Plain = {"a", "b"}
    Locks = {"caps"}
    Modifier = {"lshift", "rshift"}
    BitOf <- MCBitOf
INVARIANTS TypeOK ShownIsSaved TexturesHaveOwners EnterIsTheShownOnes OwnSettings CoreUsesShown
           LoadsWholeGames NobodyWaitsInVain ShownAreTheGames StaysInItsMemory SelectedIsShown
PROPERTIES CachesAreCurrent
