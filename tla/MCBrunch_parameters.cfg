SPECIFICATION Spec
CONSTANTS
  Images = {v1}
  Frameworks = {f1, f2}
  KernelNames = {k1, k2}
  KernelVersions = {kv1, kv2}
  OptionSets = {o1}
  DebugFlags = {dbg, nodbg}
  None = None
  Ships <- SomeKernels
  DefaultSettings <- Template
  Breakpoints = {0, 1, 2, 3, 4}
  Unnoticed = {"rebuild", "mkfs"}
  Updaters = {u1}
  UpdateEngine = ue
  UpdateOptions = {}
  Requests <- FrameworkRequests
INVARIANTS
  RecordedWasBuilt
  BootExplained
PROPERTIES
  UserDataSurvives
