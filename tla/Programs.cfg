CONSTANTS
  Top = 8
  HeaderSize = 2
  MoreUnits = 3
  Lens = {0, 3, 6}
  Gaps = {1}
  Null = Null
  Sizes = {0, 2, 5}
  Counts = {1, 2, 3}
  KeyValues = {1, 2}
  MaxStages = 4
  MaxLoops = 2
  MaxBytes = 2
  PipeBytes = 1
  num_groups = 2
  inodes_per_group = 2
  Names = {"top_secret", "x", "y"}
  TopSecret = "top_secret"
  Images <- SmallImages
  BlockSize = 3
  NDIR = 2
  PTRS = 3
SPECIFICATION Spec
INVARIANTS HeapSound SortSound ShellSound PicturesRecovered
PROPERTIES ProgramsEnd FailsOnlyIfNone
CHECK_DEADLOCK FALSE
