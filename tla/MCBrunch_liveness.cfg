SPECIFICATION FairSpec
CONSTANTS
  Images = {v1}
  Frameworks = {f1}
  KernelNames = {k}
  KernelVersions = {kv}
  OptionSets = {o1, o2}
  DebugFlags = {dbg}
  None = None
  Ships <- OneKernel
  DefaultSettings <- Template
  Breakpoints = {0}
  Unnoticed = {}
  Updaters = {u1}
  UpdateEngine = ue
  UpdateOptions = {o1}
  Requests <- PlainRequests
PROPERTIES
  PendingIsBuilt
