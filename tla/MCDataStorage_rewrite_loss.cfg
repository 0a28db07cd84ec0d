SPECIFICATION Spec
CONSTANTS
  Id = {0, 1}
  Value = {v1, v2}
  None = None
  Garbled = Garbled
  AreaBlocks = 6
  PageBlocks = 3
  Overlap = FALSE
  StackHolds = TRUE
  FlashFails = FALSE
  Losses <- DuringRewrite
INVARIANT ReadsBack
