SPECIFICATION MCSpec
CONSTANTS
  REQUEST_TRIES = 2
  REBIND_TRIES = 1
  REBOOT_TRIES = 1
  DHCP_MAXRTX = 0
  Stations = {n1, n2, n3}
  FIRST = 2
  LAST = 4
  LEASE = 2
  MAX_STATION_NUM = 4
  CHANNEL = 2
  EVENTS = 4
SYMMETRY Alike
INVARIANT ListEnds
CHECK_DEADLOCK FALSE
