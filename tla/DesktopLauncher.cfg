SPECIFICATION Spec
CONSTANTS
  Launches = {l1, l2}
  Ports = {p1, p2}
  NoPort = none
  Nobody = nobody
  Other = other
INVARIANTS OneServer
