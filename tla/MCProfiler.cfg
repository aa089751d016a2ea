SPECIFICATION ProfilerSpec
CONSTANTS
  Settings <- MCSettings
  UserProfiles = {}
  MaxMishaps = 0
  Resolution = 100
PROPERTIES
  ProfileCompatible
CHECK_DEADLOCK FALSE
