CONSTANTS
  MaxIds = 12
  tt = tt
  ff = ff
  agentRef = agentRef
  Values <- MCValues
  Truthy <- MCTruthy
  AgentRef <- agentRef
  None = none
  InitialNets <- MCNets
  BuildKinds = {"con", "dup", "era"}
  BuildBudget = 6
  Programs <- ReloadedPrograms
  Names = {"x", "y", "z", "f"}
  True <- tt
  False <- ff
  SplitSize = 5
SPECIFICATION ReloadSpec
INVARIANT ReloadedNetsReduce
CHECK_DEADLOCK FALSE
