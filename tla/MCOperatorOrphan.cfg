CHECK_DEADLOCK FALSE
SPECIFICATION Spec
CONSTANTS
  ns1 = ns1
  ns2 = ns2
  llama = llama
  own = own
  default = default
  InvalidSpec = invalid
  Specs = {own}
  Keys <- MCOneKey
  GroupGpus = {1}
  Lagging = {"binding"}
  JobArgs <- MCJobArgs
  ProfilerFlags <- MCProfilerFlags
  Faults = {"delete"}
  MaxFaults = 1
INVARIANT
  BindingCleaned
