SPECIFICATION Spec
CONSTANTS
  Settings <- MCSettings
  UserProfiles <- MCUserProfiles
  MaxMishaps = 1
  Resolution = 3
  LoadPredictors = {"constant", "arima", "prophet"}
  MinimumDataPoints = 2
  Config <- MCConfig
  Interval = 10
  ItlSla = 30
  NoCorrection = FALSE
  Predictors <- MCPredictors
  PromptLengths <- MCPromptLengths
  Surfaces <- MCSurfaces
  Loads <- MCLoads
  Outages <- MCOutages
  DecodeWorkers = {0, 2}
  Forecasts <- MCForecasts
  MaxIntervals = 3
INVARIANTS
  TypeOK
  HistoriesAligned
  WarmUp
  PrefillCarries
  DecodeMeetsSla
  NoSpareDecode
  EveryPointOnGrid
  CompleteProfileLoads
CHECK_DEADLOCK FALSE
