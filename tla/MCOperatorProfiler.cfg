SPECIFICATION FairSpec
CONSTANTS
  ns1 = ns1
  ns2 = ns2
  llama = llama
  own = own
  default = default
  InvalidSpec = invalid
  Specs = {default}
  Keys <- MCOneKey
  GroupGpus = {1}
  Lagging = {}
  JobArgs <- MCJobArgs
  ProfilerFlags <- MCProfilerFlags
  Faults = {}
  MaxFaults = 0
PROPERTY
  ProfilingCompletes
