SPECIFICATION MCFairSpec
CONSTANTS
  Apps = {a1, a2}
  Server = server
  Device = device
  Limits = {1}
  MaxSessions = 2
  NETS = {"home", "own"}
  HOSTS = {"us"}
  CONNECTIONS = 1
  IP_FORWARD = TRUE
  BYTE = 4
  BYTES = {0, 3}
  LONG = 10
  SHORT = 4
  ICMP_ECHO = 2
INVARIANTS TypeOK PendingIsCurrent StackSound
PROPERTIES AnswersAreAsked OwnPayload EveryRequestServed
