SPECIFICATION MCSpec
CONSTANTS
  Readings = {0, 3, 6}
  GOOD = {3}
  Limits = {1, 9}
  LOW = 2
  HIGH = 4
  WINDOW = 3
  QUORUM = 2
  FACTORY = 1
  PPM_MAX = 2
  RECON = 2
  WRAP = 4
  DNS_TABLE_SIZE = 1
  LINKS = 2
  REQUESTS = 1
  PIECES = 2
  SEGMENTS = 3
  FOUND = {0, 3}
  PAGE = 2
  INFOS = 2
  MDNS_USES = 2
  ANNOUNCEMENTS = 0
  PCBS = 2
  OWN = n1
  OLD = n2
  PEERS = {n3}
  PORTS = {3}
  UDP_LOCAL_PORT_RANGE_START = 10
  UDP_LOCAL_PORT_RANGE_END = 10
  DHCP_CLIENT_PORT = 3
  DHCP_SERVER_PORT = 4
  LENGTHS = {3}
  DATAGRAM = 2
  THREADS = {"one"}
  WORKERS = {"one"}
  ENDPOINTS = {"a", "b"}
  NUM_SOCKETS = 2
  MBOX = 1
  SIZES = {1}
  STREAM = 1
  ASKED = {1}
INVARIANTS TypeOK VerdictTrue CloudSound DeliverySound
PROPERTY AlarmBacked
CHECK_DEADLOCK FALSE
