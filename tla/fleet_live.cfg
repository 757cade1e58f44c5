SPECIFICATION FairSpec
CONSTANTS
  Installers <- HttpdTask
  Images = {v1, v2}
  Blank = blank
  Stored = v2
  ZONES = 2
  Factory = v1
  Deaf = {v2}
  PULLS = 1
  MAX_RUN = 1
  MAX_INSTALL = 1
  MAX_FAULT = 0
CHECK_DEADLOCK FALSE
PROPERTIES
  RolloutEnds
  GateReopens
