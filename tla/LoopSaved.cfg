SPECIFICATION Spec
CONSTANTS
  RewindThreads = {r1}
  WarmFrames = 1
  MaxStale = 1
  RebootLoads = FALSE
  AutoSave = FALSE
  Hotkeys = {"menu", "exit"}
  Choices = {"resume", "load", "exit"}
  Habits = {{}}
  r1 = r1
INVARIANTS SavedBeforeUnload
