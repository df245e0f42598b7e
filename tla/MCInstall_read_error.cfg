SPECIFICATION ToolsSpec
CONSTANTS
  Devices <- Disks512
  Modes = {"disk", "image"}
  Sources <- UsualSizes
  Cuts = {4000}
  Larger = {}
CHECK_DEADLOCK FALSE
INVARIANT InstalledMeansWhole
