SPECIFICATION Spec
CONSTANTS
  SpecReplicas = 3
  SpecGpus = 2
  EnvReplicas = 4
  EnvGpus = 3
  EnvBudget = 9
  MaxDemand = 4
  Specs <- MCSpecs
  EnvConfigs <- MCEnvConfigs
  Demands <- MCDemands
INVARIANT HardGpuCeiling
