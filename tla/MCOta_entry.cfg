SPECIFICATION Spec
CONSTANTS
  File = {f1, f2}
  Blocks = 3
  FirstPage = 1
  Tries = 3
  QueueSize = 3
  Faults = TRUE
  FaultyPages = {2}
  None = None
  Blank = Blank
  Wrong = Wrong
SYMMETRY Files
INVARIANT EntryErases
