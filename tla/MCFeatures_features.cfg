SPECIFICATION FeaturesSpec
CONSTANTS
  OptionStrings <- SomeStrings
  Hardware <- SomeHardware
  DebugFlags <- InDebug
  Patches <- AllPatches
  Failures <- OneFails
  Half = 16
  IntHalf = 8
  MaxErrno = 7
  EPERM = 1
  EINVAL = 4
  ENOSYS = 6
  Rets <- EveryLong
  c1 = c1
  c2 = c2
  Cards <- TwoCards
  Kinds <- SomeKinds
  Tables <- ManyTables
INVARIANTS
  OptionsDecide
  FlagsReachChrome
  CrosvmIsReached
  SuccessSays
  NeverFiltered
  GlibcContract
  ProbesAreExpected
  FdsOwned
  MasterGivenBack
  NothingMeansNothing
  OnlyReplacedLeak
  AsAsked
PROPERTIES
  CallEnds
