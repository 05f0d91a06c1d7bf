CONSTANTS
  build = build
  evolve = evolve
  parse = parse
  link = link
  lint = lint
  fileA = fileA
  fileB = fileB
  Sessions = {build, evolve}
  DriverOf <- Drivers
  Nodes = {n1}
  Signatures = {g1}
  Genomes = {m1}
  None = none
  MaxBlocks = 3
  Conditions <- TurnsOrAnything
  Queries = {parse, link, lint}
  Files = {fileA, fileB}
  Deps <- QueryDeps
  SourceOf <- QuerySources
  Versions = {0, 1}
  CacheConditions <- MidwayOrRestarts
  Unset = unset
  Order <- Agents
  Nets <- ThreeNets
  Open = opened
  Graft = graft
  Places = {1, 2, 4}
  ValueOf <- OneValue
  NoValue = none
  Fallback = "ff"
  MaxBoundary = 3
SPECIFICATION MCSpec
INVARIANT FallbackIsNearestHistory
