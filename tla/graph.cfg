CONSTANTS
  N = 4
  Graphs <- MCGraphs
  Docs <- MCDocs
  Txns <- TwoTxns
  Managers <- TwoManagers
  Files <- TwoFiles
  Setups <- MCSetups
  Budget = 5
  MaxEdits = 2
  NoTxn = "no transaction"
  Modules <- TwoModules
  Defects <- MCDefects
  Emerging <- NewImports
  MaxAttempts = 3
  MaxHeals = 2
SPECIFICATION MCSpec
CHECK_DEADLOCK FALSE
INVARIANTS OrderRespectsRequires ErrorMeansCycle OrderIsStable VerdictIsJustified FailedRepairLeavesNoTrace
PROPERTIES TransactionsEndWell
