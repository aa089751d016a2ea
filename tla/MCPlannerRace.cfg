SPECIFICATION Spec
CONSTANTS
  prefill = prefill
  decode = decode
  router = router
  Prefill = prefill
  Decode = decode
  Roles <- MCRoles
  Layouts <- MCLayouts
  InitReplicas <- MCInitReplicas
  GpusOf <- MCGpusOf
  Config <- MCConfig
  Traffic <- MCTraffic
  Forecasts = {}
  Adapted = {}
  Capacity = 9
  MaxReplicas = 3
  MaxPrefill = 3
  MaxDecode = 2
  MaxLoad = 2
  PrefillGpus = 1
  Modes = {FALSE}
  NoCorrection = FALSE
  MaxAttempts = 2
  Faults = {"layout", "race"}
  MaxFaults = 1
PROPERTY
  OwnTargetOnly
