SPECIFICATION MCSpec
CONSTANTS
    Genomes = {"g1", "g2"}
    Fallback = {"d1"}
    Gains <- TwoGains
    Setting = 0
    PopulationSize = 2
    EngineFiles = {"f", "g"}
    TargetFiles <- Overlapping
    Rules = {"stub", "doc"}
    MaxGenerations = 2
    MaxRuns = 2
    MaxFaults = 1
    BuildFitness <- Descending
    RunFitness = {1, 2}
    Infinite = 9
    N = 2
    MaxRounds = 2
    Configs = {"c1", "c2", "c3"}
    Values = {1, 2}
    Size = 2
    Capacity = 2
    StagnationPatience = 1
    MaxCycles = 3
    MaxCrossovers = 2
    MaxGraphEdits = 3
    Parents <- MCParents
    NewEdges <- MCNewEdges
    Sizes = {0, 1, 2}
CHECK_DEADLOCK FALSE
INVARIANTS RejectedLeaveNoTrace GraphsStaySound
PROPERTIES NothingBetterIsLost
