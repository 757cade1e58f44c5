SPECIFICATION MCSpec
CONSTANTS
  ZONES = 1
  CHUNKS = 2
  CX_ATTEMPTS = 2
  RING_TRK_DEPTH = 2
  MAX_ATTEMPTS = 2
  MAX_SEQ = 8
  MAX_EDIT = 1
  MAX_FAULT = 2
PROPERTY
  AllSettle
