SPECIFICATION MCSpec
CONSTANTS
  FRAME = 4
  MIN = 1
  MaxFrames = 4
  Coalesced = TRUE
  SEQ = 64
  MSS = 1
  TCP_WND = 2
  SND_BUF = 2
  FAST = 1
  MAXRTX = 2
  BYTES = 2
  REPLY = 0
  FAULTS = 1
  CHUNK = 4
  ESP_BUF = 5
  QUEUELEN = 2
  NUM = 2
  TIMEOUT = 2
  LENGTHS = {1, 6}
  PACKETS = 3
  LIVES = 1
  SHORT = 1
  CONNS = {c1, c2, c3}
  KEPT = {c1, c2}
  TYPES = {"tcp", "udp"}
  RECVMBOX = 1
  ACCEPTMBOX = 1
  SNDBUF = 1
  WRITES = {1, 2}
  UNITS = 2
INVARIANTS TypeOK HandledInOrder TransportSound
PROPERTIES WholeFrameHandled
CHECK_DEADLOCK FALSE
