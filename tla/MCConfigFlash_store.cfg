SPECIFICATION MCSpec
CONSTANTS
  Ids = {m1, m2}
  Offsets = {o1, o2}
  Erased = erased
  WORDS = 3
  MaxLosses = 3
  REQUEST_TRIES = 1
  REBIND_TRIES = 1
  REBOOT_TRIES = 1
  DHCP_MAXRTX = 0
  Stations = {n1, n2, n3}
  FIRST = 2
  LAST = 3
  LEASE = 2
  MAX_STATION_NUM = 2
  CHANNEL = 1
  EVENTS = 2
  Hosts = {n1, n2, n3}
  Macs = {m1, m2}
  ARP_TABLE_SIZE = 2
  ARP_MAXAGE = 4
  ARP_AGE_REREQUEST_USED = 3
  ARP_MAXPENDING = 2
  QLEN = 2
  OUTPUTS = 3
  Names = {n1, n2, n3}
  DNS_TABLE_SIZE = 2
  DNS_MAX_RETRIES = 2
  DNS_MAX_SERVERS = 2
  SEQNOS = 4
  TTLS = {0, 2}
  PBUFS = 3
  POOL_SIZE = 2
  HLEN = 1
  LAYERS = {1}
  PBUF_LENGTHS = {1, 3}
  HOLDS = 2
  OPS = 5
  NETIFS = 2
  GROUPS = {"g"}
  MAXRESP = {0, 3}
  IGMP_V1_DELAYING_MEMBER_TMR = 2
  IGMP_JOIN_DELAYING_MEMBER_TMR = 2
  JOINS = 2
  MEM_SIZE = 28
  HEADER = 2
  MIN_SIZE = 4
  MEM_ALIGNMENT = 2
  WANTED = {1, 5, 7}
SYMMETRY Alike
INVARIANTS TypeOK IdentityKept LeasesSound LinkSound LookupsSound MemorySound
PROPERTIES ImplementsStore
CHECK_DEADLOCK FALSE
