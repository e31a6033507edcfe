SPECIFICATION BrokerSpec
CONSTANTS
  a = a
  b = b
  c = c
  Off = Off
  Calls = {a, b, c}
  MaxActive = 1
  MaxQueued = 1
  Timeout = 2
  MaxCall = 3
  Grace = 1
  Retries = 1
  Delays = {1, 2}
INVARIANTS NeverCrowded
PROPERTIES
  AnsweredOnce
  EveryCallAnswered
CHECK_DEADLOCK FALSE
