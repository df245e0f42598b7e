SPECIFICATION Spec
CONSTANTS
  Images = {v1, v2}
  Frameworks = {f1, f2}
  KernelNames = {k}
  KernelVersions = {kv}
  OptionSets = {o1, o2}
  DebugFlags = {dbg}
  None = None
  Ships <- OneKernel
  DefaultSettings <- Template
  Breakpoints = {0}
  Unnoticed = {}
  Updaters = {u1}
  UpdateEngine = ue
  UpdateOptions = {o1}
  Requests <- PlainRequests
INVARIANT NotNecessaryMeansBuilt
SYMMETRY Symmetry
