SPECIFICATION Spec
CONSTANTS
  Apps = {a1, a2}
  Server = server
  Device = device
  Limits = {1}
  MaxSessions = 2
PROPERTIES PeriodicAfterLogin
