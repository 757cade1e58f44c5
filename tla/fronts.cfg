SPECIFICATION MCSpec
CONSTANTS
  WORDS = {"hill", "now", "LIGHT", "ZONE"}
  PLACES = {"console", "web"}
  CMD_UNLOCK = 1
  MAX_TIME = 3
  MAX_CMD = 2
  FRONTS = {"cli", "web"}
  POOLED = {"web"}
  CMD_SESSIONS = {1, 2}
  POOL = {1}
  PATIENCE <- Patience
  FWD_TIMEOUT = 1
  MAX_ISSUED = 3
  MAX_STALL = 1
  SOCKS = {1, 2}
  BODY_MAX_TIMEOUTS = 1
  MAX_TIMEOUTS = 1
  DRAIN_MAX_TIMEOUTS = 1
  WA_SESSIONS = 2
  WA_TTL_S = 2
  WA_LOCK_FAILS = 2
  WA_LOCK_S = 2
  MAX_LOGIN = 4
  MAX_CHANGE = 1
  LOGIN_FAULTS = 1
  WRITERS = {"cli", "web"}
  READERS = {"httpd"}
  OPS = {"sta", "all", "scan"}
  MAX_OPS = 2
  MAX_READ = 1
  NET_FAULTS = 1
  HG_MAX_SHELVES = 2
  HG_MAX_AUX = 1
  CAPS = {0, 30}
  TYPED <- Typed
  ROW_TAPS = 3
  ED_ZONES = {1}
  VALUES = {1, 2}
  JOB_POOL = 1
  ED_TAPS = 4
  MAX_WIPE = 1
  MASTER_TAPS = 7
  CHARS = {"a", "b"}
  CLI_LINE_MAX = 3
  CLI_HIST_LEN = 2
  CLI_HIST_N = 2
  MAX_LINES = 3
CHECK_DEADLOCK FALSE
INVARIANTS
  Types
  AnswersTrue
  SecretsKept
  NetKept
  
PROPERTIES
  EditorsTrue
  TablesHonest
  FrontsServe
