SPECIFICATION FairSpec
CONSTANTS
  Task = {d1, c1, c2}
  Download = {d1}
  Adder = {browser, achievements}
  MaxConcurrent = 2
  Cancels = TRUE
  Exits = TRUE
INVARIANTS OneOwner CalledOnce NoHalfFile 
PROPERTIES EveryTaskEnds ThreadEnds
CHECK_DEADLOCK FALSE
