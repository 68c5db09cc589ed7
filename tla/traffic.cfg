\* chutney: the TrafficTester of "verify" with one direct and one proxied
\* source, both streams closable; the node control of the other verbs
\* with two nodes, three pids and two polls per round
CONSTANTS
  Sources = {s1, s2}
  Proxied = {s2}
  DataLen = 2
  HandLen = 2
  SocksLen = 1
  Timeout = 2
  Closable = {s1, s2}
  N = 2
  Pids = {p1, p2, p3}
  MaxPolls = 2
  None = None
  Free = Free
  Foreign = Foreign
  MaxIterations = 3
SPECIFICATION ChutneySpec
INVARIANTS TypeOK ResultSound NCTypeOK
INVARIANT TorrcCostsTwoPasses
PROPERTIES VerifyTerminatesIfNoClose StopEnds KillAfterTwoInts
