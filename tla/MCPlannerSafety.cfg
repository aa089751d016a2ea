SPECIFICATION Spec
CONSTANTS
  prefill = prefill
  decode = decode
  router = router
  Prefill = prefill
  Decode = decode
  Roles <- MCRoles
  Layouts <- MCLayouts
  InitReplicas <- MCInitReplicas
  GpusOf <- MCGpusOf
  Config <- MCConfig
  Traffic <- MCTraffic
  Forecasts <- MCForecasts
  Adapted = {prefill}
  Capacity = 9
  MaxReplicas = 3
  MaxPrefill = 3
  MaxDecode = 2
  MaxLoad = 2
  PrefillGpus = 1
  Modes = {TRUE, FALSE}
  NoCorrection = FALSE
  MaxAttempts = 2
  Faults = {"kill", "outage", "exception", "traffic", "replicas", "layout", "pod", "group"}
  MaxFaults = 2
INVARIANT
  TypeOK
PROPERTIES
  OwnTargetOnly
  WritesWithinBounds
  KeepsContract
  DryRunTouchesNothing
