SPECIFICATION Spec
CONSTANTS
  ns1 = ns1
  ns2 = ns2
  llama = llama
  own = own
  default = default
  InvalidSpec = invalid
  Specs = {own}
  Keys <- MCSameName
  GroupGpus = {1}
  Lagging = {}
  JobArgs <- MCJobArgs
  ProfilerFlags <- MCProfilerFlags
  Faults = {}
  MaxFaults = 0
INVARIANT
  BindingPerAutoScaler
