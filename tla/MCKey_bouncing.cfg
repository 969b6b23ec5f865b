SPECIFICATION MCFairSpec
CONSTANTS
  T2S = 9
  T50 = 2
  WARM = 4
  PHASE = 1
  WINDOW = 3
  FIFO_LEN = 2
  SIZE = 4
  CHUNK = 2
  QUEUE = 1
  BYTES = 8
  MINUTE = 12
  HOURS = 2
  ERROR = 18
  HUNG = 6
  BIAS = 3
  NOTIFY = 2
  DELAY = 1
  DISTURBANCES = 2
  TCP_TMR_INTERVAL = 2
  PERIOD = 3
  DELAYS = {0, 4}
  TICKS = 1
  WRAP = 10
  SINGLES = 1
  SNTP_MAX_SERVERS = 2
  GOOD = good
  BAD = other
  SNTP_RETRY_TIMEOUT_MAX = 4
  DAYS = {789, 1096, 24854}
  SECONDS = {57599}
  TIME_ZONE = 8
  CALLS = 3
  STRAY = 1
  FAILS = 1
  COUNT = 1
INVARIANTS TypeOK InterruptComesBack LongPressWasHeld DetectionComesBack EchoIntact TimeSound
PROPERTIES NoPhantomPress SensorTrusted HealthyKept LastsAndComes
