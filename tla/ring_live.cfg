SPECIFICATION FairSpec
CONSTANTS
  Zones <- OneZone
  Types <- OnceTypes
  RING_TRK_DEPTH = 2
  MAX_ATTEMPTS = 2
  ACK_TIMEOUT = 1
  DUP_WINDOW = 2
  EXEC_MAX = 2
  FLUSH_MAX = 1
  TRANSIT_MAX = 1
  CONSUME_DEPTH = 1
  BOOT_TIME = 1
  MAX_SEQ = 3
  MAX_RESET = 0
INVARIANTS
  QueueOrder
  Accounted
  ReplyIsGenuine
PROPERTY
  EventuallyReported
