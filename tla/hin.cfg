CONSTANTS
  MaxIds = 15
  tt = tt
  ff = ff
  agentRef = agentRef
  Values <- MCValues
  Truthy <- MCTruthy
  AgentRef <- agentRef
  None = none
  InitialNets <- MCNets
  BuildKinds = {"con", "dup", "era"}
  BuildBudget = 5
  Programs <- PlainPrograms
  Names = {"x", "y", "z", "f"}
  True <- tt
  False <- ff
  SplitSize = 5
  InitialMemo <- SeenBefore
  MaxAnomalies = 2
SPECIFICATION EngineSpec
CHECK_DEADLOCK FALSE
INVARIANTS TypeOK Conservation WorklistIsExact NetsAreWhole
PROPERTIES RewritesKeepTheNetWhole Terminates
