SPECIFICATION MCSpec
CONSTANTS
  HG_MAX_SHELVES = 2
  HG_MAX_AUX = 1
  EDITED <- FieldsEdited
  TEXTS <- FieldTexts
  LEAVES <- FieldLeaves
  DUMP_MAX = 4
  MAX_EDIT = 3
  WIRE_ZONES = 2
  RING_TTL_INIT = 3
  RING_CONSUME_DEPTH = 1
  COBS_BLOCK = 3
  WIRE_SENDS = 2
  WIRE_FAULTS = 1
  RING_ZONES = 2
  WRAP = 1
  HOLD = 1
  RING_EVENTS = 2
  ALARM_ZONES = {2}
  NTF_IDX_N = 2
  AM_EVENTS = 2
  AM_ACTIVE_MAX = 2
  MAX_LINES = 3
  HOST_VERSION = 37
  STAGED <- StagedImages
  PART_CHUNKS = 2
  BOOT_FAULTS = 2
  Images = {"a", "b"}
  Torn = "torn"
  PULLS = 2
  STALLS = 1
  CHUNKS = 1
  RESCUE_OPS = 3
  RESCUE_FAULTS = 2
  FLUSHERS = {"ring"}
  STORE_EDITS = 2
  STORE_FLUSHES = 1
  STORE_FAULTS = 1
  MLEAVES <- MasterLeaves
  MAX_SAVE = 3
CHECK_DEADLOCK FALSE
INVARIANTS
  Types
  
  
  BootsSafe
  
PROPERTIES
  DocumentsTrue
  BoardsRecover
