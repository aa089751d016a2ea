CHECK_DEADLOCK FALSE
SPECIFICATION FairSpec
CONSTANTS
  ns1 = ns1
  ns2 = ns2
  llama = llama
  own = own
  default = default
  InvalidSpec = invalid
  Specs = {own, default}
  Keys <- MCOneKey
  GroupGpus = {1, 2}
  Lagging = {"account", "binding", "profile", "job", "deployment"}
  JobArgs <- MCJobArgs
  ProfilerFlags <- MCProfilerFlags
  Faults = {"edit", "delete", "create", "group", "profile", "pod", "deployment", "error", "crash"}
  MaxFaults = 2
INVARIANTS
  TypeOK
  OrphanWasMissed
  ReadyIsBound
PROPERTIES
  ReadyIsCurrent
  KeepsPromise
  Provisions
  CleansUp
