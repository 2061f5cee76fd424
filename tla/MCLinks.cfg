SPECIFICATION LinkSpec
CONSTANTS
  Peer = {p1}
  Call = {c1, c2}
INVARIANTS RegistryExact NoneWaitsConnected
PROPERTIES ShellReleased WaitersReleased
