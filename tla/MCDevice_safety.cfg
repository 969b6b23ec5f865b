CONSTANTS
  CNT_10S = 1
  CNT_60S = 3
  CNT_MINITE = 4
  CNT_HOUR = 1
  CNT_ERROR_OK = 1
  CNT_ERROR_HUNG = 1
  UINT8 = 2
  LED_PER_GAS = 1
  Conns = {c1, c2}
  DnsTable = 1
  AppCommands = {"READGAS"}
  LateDelivery = TRUE
  Disturbances = 1
  Registered = {TRUE, FALSE}
  KeyHeld = {TRUE, FALSE}
SPECIFICATION MCSpec
SYMMETRY Symmetry
INVARIANTS TypeOK ListeningStopsMainLoop SessionConsistent
