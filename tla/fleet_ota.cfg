SPECIFICATION Spec
CONSTANTS
  Installers <- PanelTask
  Images = {v1, v2}
  Blank = blank
  Stored = v2
  ZONES = 2
  Factory = v1
  Deaf = {v2}
  PULLS = 2
  MAX_RUN = 1
  MAX_INSTALL = 1
  MAX_FAULT = 1
CHECK_DEADLOCK FALSE
INVARIANTS
  TypeOK
  OneLoser
  OneAtATime
  AlwaysBootable
  NoTornPull
  VerdictGenuine
