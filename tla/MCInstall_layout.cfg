SPECIFICATION ToolsSpec
CONSTANTS
  Devices <- ManyDisks
  Modes = {"disk", "image", "clone"}
  Sources <- ManySizes
  Cuts = {4000}
  Larger <- SomeDisks
CHECK_DEADLOCK FALSE
INVARIANTS
  IInv
  TableSound
  CopiesInPlace
  ImageSound
  ExtractedIsInstalled
