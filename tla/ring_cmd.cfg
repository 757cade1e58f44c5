SPECIFICATION Spec
CONSTANTS
  Zones <- OneZone
  Types <- AllTypes
  RING_TRK_DEPTH = 2
  MAX_ATTEMPTS = 3
  ACK_TIMEOUT = 1
  DUP_WINDOW = 3
  EXEC_MAX = 4
  FLUSH_MAX = 2
  TRANSIT_MAX = 1
  CONSUME_DEPTH = 3
  BOOT_TIME = 2
  MAX_SEQ = 2
  MAX_RESET = 1
INVARIANTS
  TypeOK
  AtMostOncePerBoot
  WithdrawnNeverSent
PROPERTIES
  ImplementsRpc
