\* All signals over six levels, two configurations.
CONSTANTS
  Levels <- MCLevels
  Configs <- MCConfigs
SPECIFICATION RoutingSpec
PROPERTIES
  ImprovementKeepsAuto
