SPECIFICATION Spec
CONSTANTS
  RewindThreads = {r1}
  WarmFrames = 2
  MaxStale = 2
  RebootLoads = FALSE
  AutoSave = TRUE
  Hotkeys = {"menu", "state", "rewind", "exit"}
  Choices = {"resume", "state", "reset", "toggle", "exit", "quit", "arch", "load"}
  Habits = {{}}
  r1 = r1
INVARIANTS OneThreadInCore UsedIsThere AtMostOneStaleFrame 

