CONSTANTS
  CNT_10S = 1
  CNT_60S = 4
  CNT_MINITE = 5
  CNT_HOUR = 1
  CNT_ERROR_OK = 3
  CNT_ERROR_HUNG = 3
  UINT8 = 2
  LED_PER_GAS = 1
  Conns = {c1}
  DnsTable = 1
  AppCommands = {}
  LateDelivery = FALSE
  Disturbances = 1
  Registered = {TRUE}
  KeyHeld = {FALSE}
SPECIFICATION MCGoodNetworkSpec
PROPERTY ReconnectsIfEverConnected
