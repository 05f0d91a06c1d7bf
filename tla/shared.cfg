CONSTANTS
  ssh = ssh
  pod = pod
  local = local
  mount = mount
  Tasks = {good, func, bad}
  Good = {good}
  Func = {func}
  Backends <- SshAndPod
  Locals = {local}
  Kubernetes = {pod}
  Fallback = fallback
  None = none
  AttemptLimits = {0, 2, 3}
  Outages = 2
  Builders = {"b1", "b2"}
  Artifacts = {"k1", "k2"}
  Mount = mount
  MaxPuts = 2
  Jobs <- ThreeJobs
  MaxParallel = 2
  MaxPolls = 1
  Clusters <- FourClusters
  MaxEdits = 3
  Sessions <- FourSessions
SPECIFICATION MCSpec
INVARIANT PutIsShared
CHECK_DEADLOCK FALSE
