SPECIFICATION Spec
CONSTANTS
  Images = {v1, v2}
  Frameworks = {f1}
  KernelNames = {k}
  KernelVersions = {kv}
  OptionSets = {o1}
  DebugFlags = {dbg}
  None = None
  Ships <- OneKernel
  DefaultSettings <- Template
  Breakpoints = {0}
  Unnoticed = {}
  Updaters = {u1, u2}
  UpdateEngine = ue
  UpdateOptions = {}
  Requests <- RecoveryRequests
SYMMETRY UpdaterSymmetry
INVARIANTS
  UpdatedIsKnownGood
