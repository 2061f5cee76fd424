SPECIFICATION HostSpec
CONSTANTS
  Proc = {p1, p2}
  Kinds = {"daemon", "foreground", "status"}
  Obj = {o1}
  MaxStarts = 2
INVARIANTS OnePeerId OneSigner EndpointReaches DaemonSeesStore
PROPERTY ServesInTheEnd
CHECK_DEADLOCK FALSE
