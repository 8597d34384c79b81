SPECIFICATION FairSpec
CONSTANTS
  RewindThreads = {r1}
  WarmFrames = 0
  MaxStale = 1
  RebootLoads = TRUE
  AutoSave = FALSE
  Hotkeys = {"menu", "rewind"}
  Choices = {"resume", "load", "exit"}
  Habits = {{}, {"hasty"}}
  r1 = r1
PROPERTIES WaitEnds RewindKeyRewinds UnloadEnds 
CHECK_DEADLOCK FALSE
