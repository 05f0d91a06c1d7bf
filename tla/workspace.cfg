CONSTANTS
  p1 = p1
  p2 = p2
  Procs = {p1, p2}
  None = none
  MaxSize = 2
  Results = {1, 2}
  MaxRecords = 3
  Conditions <- QuietOrAnything
  Sources <- Outside
  Texts <- OutsideTexts
  Places <- Inside
  Plans <- OutsidePlans
  WellKnown = {"math"}
  Trees <- DirTrees
  NameKind <- DirNames
  Ingestors = {p1, p2}
  MaxRuns = 3
  MaxChanges = 1
  Builds <- TwoBuilds
  Targets <- TwoTargets
  Python <- OnePython
  Cycles = 1
  MaxEdits = 2
  StagedConditions <- FourPasses
SPECIFICATION MCSpec
CHECK_DEADLOCK FALSE
INVARIANTS OnlyBeatenAreDropped SelfHostingIsSafe RegistryIsExact
PROPERTIES IsOneLedger BuildsEndWell DeliveredIsReported
