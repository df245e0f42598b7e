SPECIFICATION Spec
CONSTANTS
  Images = {v1, v2}
  Frameworks = {f1}
  KernelNames = {k}
  KernelVersions = {kv}
  OptionSets = {o1, o2}
  DebugFlags = {dbg}
  None = None
  Ships <- OneKernel
  DefaultSettings <- Template
  Breakpoints = {0}
  Unnoticed = {"rebuild"}
  Updaters = {u1}
  UpdateEngine = ue
  UpdateOptions = {o1}
  Requests <- PlainRequests
SYMMETRY Symmetry
INVARIANTS
  IInv
  RetryGuarantee
  UpdateNeverForgotten
  BootExplained
  NoRebuildLoop
PROPERTIES
  AckOnlyAfterBuild
  ImplementsProtocol
