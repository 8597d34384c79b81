SPECIFICATION Spec
CONSTANTS
    Games = {g1}
    Slots = {0, 1}
    Frames = 2
    MaxClock = 1
    AutoSave = TRUE
    Faults = {"serialize", "open", "shot", "boot", "crash"}
    Overlaps = FALSE
    None = None
    Torn = Torn
    Freed = Freed
INVARIANTS DrawsLiveSlots SlotsAreWhole
PROPERTIES ResumesWhereLeft
