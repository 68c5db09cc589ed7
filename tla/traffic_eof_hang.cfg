\* TrafficTester: a torn-down stream keeps the loop busy forever
CONSTANTS
  Sources = {s1, s2}
  Proxied = {s2}
  DataLen = 2
  HandLen = 2
  SocksLen = 1
  Timeout = 2
  Closable = {s1, s2}
SPECIFICATION Spec
PROPERTY Terminates
